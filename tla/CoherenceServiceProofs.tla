------------------------ MODULE CoherenceServiceProofs ------------------------
(***************************************************************************)
(* Proofs that the coherence protocol forgets no request: whoever waits,     *)
(* thread or request in the directory, waits for a message or a DRAM read    *)
(* that is under way, for every number of caches, addresses and threads,      *)
(* every protocol and every size of the directory; and that no assertion      *)
(* fails where the caches and the directory have room for all that is used.  *)
(***************************************************************************)
EXTENDS CacheCoherenceProofs

-----------------------------------------------------------------------------
(* What the directory may be waiting for: cache k has a copy, or will have it,   *)
(* and is asked to give it up or to write it back; or has answered.  (The        *)
(* eviction's message answers too.)                                         *)
Asks == {"INV_REQ", "FLUSH_REQ", "WB_REQ"}
Answering == Gives \union {"WB_REP"}
Awaited(a, st, s, r) == Live(s, Asks, a, st # "I") \/ Has(r, Answering, a)
AwaitedIn(k, a, ss, rr) == Awaited(a, cache[k][a].st, ss[k], rr[k])

(* Whoever waits at cache k has a request on its way, queued or answered. *)
Asking(a, ws, s, r, q, k) == ws # <<>> => Has(s, Reps, a) \/ Has(r, Reqs, a) \/ Queued(q, k)
AskingIn(k, a, q, ss, rr) == Asking(a, waiters[k][a], ss[k], rr[k], q, k)

(* A shared entry lists somebody, and its forwarder is one of its sharers, if it   *)
(* can hold more than one.  Only the front request has been given data.        *)
EntryServed(e) ==
    e.st = "S" => /\ e.sharers # {}
                  /\ Protocol = "mesif" /\ MaxHwSharers > 1 => e.fwd \in e.sharers \union {NoCore}
Unbuffered(q) == \A i \in DOMAIN q : q[i].buf = NoData
OthersUnbuffered(q) == \A i \in DOMAIN q : i # 1 => q[i].buf = NoData

(* What holds of a line at any moment, while the directory works on it too.      *)
Remembered(a, q, ss, rr) == OthersUnbuffered(q) /\ \A k \in Llcs : AskingIn(k, a, q, ss, rr)
Lasting(a, q, e, ss, rr) == EntryServed(e) /\ Remembered(a, q, ss, rr)

(* What the front request waits for: DRAM, the forwarder, a sharer that makes     *)
(* room for it, or everybody else who is listed.                              *)
Blockers(q, e) == e.sharers \ {Head(q).c}
FrontServed(a, q, e, rep, ss, rr) ==
    q # <<>> =>
        /\ Head(q).wait => rep # <<>>
        /\ ~Head(q).wait /\ Head(q).from # NoCore =>
               Head(q).from \in Llcs /\ AwaitedIn(Head(q).from, a, ss, rr)
        /\ ~Granted(q) /\ Head(q).t = "SH_REQ" => \E k \in Blockers(q, e) : AwaitedIn(k, a, ss, rr)
        /\ ~Granted(q) /\ Head(q).t # "SH_REQ" =>
               /\ Blockers(q, e) # {}
               /\ \A k \in Blockers(q, e) : AwaitedIn(k, a, ss, rr)

Served(a, q, e, rep, ss, rr) == Lasting(a, q, e, ss, rr) /\ FrontServed(a, q, e, rep, ss, rr)
LineServes(a) == Served(a, dir.q[a], dir.e[a], dir.reply[a], toCache, toDir)

-----------------------------------------------------------------------------
(* Requests to caches and answers join the queues. *)
LEMMA AsksAre == /\ Asks \intersect Reps = {} /\ Asks \intersect DataReps = {} /\ DataReps \subseteq Reps
                 /\ Answering \intersect Reqs = {} /\ Gives \subseteq Answering
  BY DEF Asks, Reps, DataReps, Answering, Gives, Reqs

(* Whoever is asked while it is listed is awaited. *)
LEMMA AskedAwaited ==
  ASSUME NEW a, NEW q, NEW e, NEW rep, NEW known, NEW ss \in [Llcs -> Seq(ToCacheMsg)], NEW rr,
         LineOK(a, q, e, rep, known, ss, rr), NEW ss2, NEW cs, NEW m \in ToCacheMsg, m.a = a, m.t \in Asks,
         Joined(ss, ss2, cs, m), NEW k \in Llcs
  PROVE  /\ AwaitedIn(k, a, ss, rr) => AwaitedIn(k, a, ss2, rr)
         /\ k \in cs /\ k \in e.sharers /\ ~GrantedTo(q, k) => AwaitedIn(k, a, ss2, rr)
         /\ \A p : AskingIn(k, a, p, ss, rr) => AskingIn(k, a, p, ss2, rr)
<1> DEFINE s == ss[k]
           st == cache[k][a].st
           copy == st # "I"
<1>1. s \in Seq(ToCacheMsg) /\ copy \in BOOLEAN
  OBVIOUS
<1>2. ss2[k] = IF k \in cs THEN Append(s, m) ELSE s
  BY DEF Joined
<1>3. PairInv(k, a, st, waiters[k][a], s, rr[k], q, e)
  BY DEF LineOK
<1>4. On(m, Asks, a)
  BY DEF On
<1>5. /\ Live(Append(s, m), Asks, a, copy)
           <=> \/ Live(s, Asks, a, copy)
               \/ On(m, Asks, a) /\ (copy \/ Has(s, DataReps, a))
      /\ Has(Append(s, m), Reps, a) <=> Has(s, Reps, a) \/ On(m, Reps, a)
  BY <1>1, PushLive, PushHas
<1>6. k \in e.sharers /\ ~GrantedTo(q, k) => copy \/ Has(s, DataReps, a) \/ Has(rr[k], Answering, a)
  <2>1. k \in e.sharers /\ ~GrantedTo(q, k) => copy \/ Has(s, DataReps, a) \/ Has(rr[k], Gives, a)
    BY <1>3 DEF PairInv, Listed
  <2>2. Has(rr[k], Gives, a) => Has(rr[k], Answering, a)
    BY AsksAre DEF Has, On
  <2> QED BY <2>1, <2>2
<1> HIDE DEF copy, s, st
<1>7. /\ AwaitedIn(k, a, ss, rr) <=> Live(s, Asks, a, copy) \/ Has(rr[k], Answering, a)
      /\ AwaitedIn(k, a, ss2, rr) <=> Live(ss2[k], Asks, a, copy) \/ Has(rr[k], Answering, a)
  BY DEF AwaitedIn, Awaited, copy, s, st
<1>8. \A p : /\ AskingIn(k, a, p, ss, rr) <=>
                    (waiters[k][a] # <<>> => Has(s, Reps, a) \/ Has(rr[k], Reqs, a) \/ Queued(p, k))
             /\ AskingIn(k, a, p, ss2, rr) <=>
                    (waiters[k][a] # <<>> => Has(ss2[k], Reps, a) \/ Has(rr[k], Reqs, a) \/ Queued(p, k))
  BY DEF AskingIn, Asking, s
<1> QED BY <1>2, <1>4, <1>5, <1>6, <1>7, <1>8

(* Whoever is answered has its answer; nobody else notices. *)
LEMMA AnsweredServes ==
  ASSUME NEW a, NEW q \in Seq(DirReq), q # <<>>, NEW ss \in [Llcs -> Seq(ToCacheMsg)], NEW rr,
         NEW ss2, NEW c, c = Head(q).c, NEW m \in ToCacheMsg, m.a = a, m.t \in Reps,
         Joined(ss, ss2, {c}, m), NEW k \in Llcs, AskingIn(k, a, q, ss, rr)
  PROVE  AskingIn(k, a, Tail(q), ss2, rr)
<1> DEFINE s == ss[k]
<1>1. s \in Seq(ToCacheMsg)
  OBVIOUS
<1>2. ss2[k] = IF k = c THEN Append(s, m) ELSE s
  BY DEF Joined
<1>3. Has(Append(s, m), Reps, a)
  <2>1. On(m, Reps, a)
    BY DEF On
  <2> QED BY <1>1, <2>1, PushHas
<1>4. k # c /\ Queued(q, k) => Queued(Tail(q), k)
  <2>1. /\ Head(q) = q[1]
        /\ \A i \in DOMAIN q : i # 1 => i - 1 \in DOMAIN Tail(q) /\ q[i] = Tail(q)[i - 1]
    BY Popped
  <2> QED BY <2>1 DEF Queued
<1> QED BY <1>2, <1>3, <1>4 DEF AskingIn, Asking

LEMMA TailUnbuffered ==
  ASSUME NEW q \in Seq(DirReq), q # <<>>, OthersUnbuffered(q) PROVE Unbuffered(Tail(q))
<1>1. /\ \A i \in DOMAIN Tail(q) : i + 1 \in DOMAIN q /\ Tail(q)[i] = q[i + 1]
      /\ DOMAIN Tail(q) \subseteq Nat /\ \A i \in DOMAIN Tail(q) : i >= 1
  BY Popped
<1>2. \A i \in DOMAIN Tail(q) : i + 1 # 1
  BY <1>1
<1> QED BY <1>1, <1>2 DEF OthersUnbuffered, Unbuffered

LEMMA MarkedServes ==
  ASSUME NEW q \in Seq(DirReq), NEW p, Marks(p, q)
  PROVE  /\ OthersUnbuffered(q) => OthersUnbuffered(p)
         /\ \A k : Queued(p, k) <=> Queued(q, k)
         /\ \A k, a, ss, rr : AskingIn(k, a, q, ss, rr) => AskingIn(k, a, p, ss, rr)
<1>1. /\ p \in Seq(DirReq) /\ DOMAIN p = 1 .. Len(q) /\ DOMAIN q = 1 .. Len(q)
      /\ p[1].c = q[1].c
      /\ \A i \in 1 .. Len(q) : i = 1 \/ p[i] = q[i]
  BY DEF Marks
<1>2. \A k : Queued(p, k) <=> Queued(q, k)
  BY <1>1 DEF Queued
<1>3. OthersUnbuffered(q) => OthersUnbuffered(p)
  BY <1>1 DEF OthersUnbuffered
<1> QED BY <1>2, <1>3 DEF AskingIn, Asking

-----------------------------------------------------------------------------
(* A directory at work: what holds of the line at a, and of all other lines.     *)
RememberedAt(z, rest, a) == Remembered(a, z.d.q[a], Out(z), rest)
LastingAt(z, rest, a) == Lasting(a, z.d.q[a], z.d.e[a], Out(z), rest)
FrontServedAt(z, rest, a) == FrontServed(a, z.d.q[a], z.d.e[a], z.d.reply[a], Out(z), rest)
Rests(z, rest, a) ==
    /\ LastingAt(z, rest, a)
    /\ IF z.next THEN Unbuffered(z.d.q[a]) ELSE FrontServedAt(z, rest, a)

Moves(w, z, rest, a) == OnlyAt(w, z, a) /\ Rests(z, rest, a)
Waits(w, z, rest, a) == Moves(w, z, rest, a) /\ z.next = FALSE

(* The queue, entry and reads of a line, named. *)
LEMMA RestsAt ==
  ASSUME NEW z, NEW rest, NEW a, NEW q, NEW e, NEW rep, At(z, a, q, e, rep), NEW ss, ss = Out(z),
         Lasting(a, q, e, ss, rest), z.next = TRUE => Unbuffered(q),
         z.next = FALSE => FrontServed(a, q, e, rep, ss, rest)
  PROVE  Rests(z, rest, a)
<1>1. z.d.q[a] = q /\ z.d.e[a] = e /\ z.d.reply[a] = rep /\ z.next \in BOOLEAN
  BY DEF At, Works
<1> QED BY <1>1 DEF Rests, LastingAt, FrontServedAt

(* A message about the line, and changes to the line, are nothing to the others.  *)
LEMMA ApartSends ==
  ASSUME NEW w, NEW z, NEW rest, NEW a, Fine(w, rest), Apart(w, z, a),
         NEW cs, NEW m \in ToCacheMsg, m.a = a, Sends(w, z, cs, m)
  PROVE  OnlyAt(w, z, a)
<1>1. w \in Works /\ z \in Works /\ toCache \in [Llcs -> Seq(ToCacheMsg)]
  BY DEF Apart, Fine
<1>2. \A k \in Llcs : \A b \in Addrs \ {a} : Alike(Out(w)[k], Out(z)[k], b)
  BY <1>1, OutAlike
<1> QED BY <1>1, <1>2 DEF Apart, OnlyAt

(* The front request waits for the caches that have been asked.                *)
MustAnswer(q, e, cs) ==
    /\ q # <<>> /\ ~Granted(q)
    /\ Head(q).t = "SH_REQ" => \E k \in cs : k \in Blockers(q, e)
    /\ Head(q).t # "SH_REQ" => Blockers(q, e) # {} /\ Blockers(q, e) \subseteq cs
LEMMA AskedServes ==
  ASSUME NEW w, NEW rest, NEW a, NEW q, NEW e, NEW rep, Fine(w, rest), At(w, a, q, e, rep),
         NEW t \in Asks, NEW cs, NEW m, m = Msg(t, a, NoData), NEW z, Apart(w, z, a),
         Sends(w, z, cs, m), NEW ss, ss = Out(w), NEW ss2, ss2 = Out(z)
  PROVE  /\ \A k \in Llcs : \A p : AskingIn(k, a, p, ss, rest) => AskingIn(k, a, p, ss2, rest)
         /\ \A k \in Llcs : AwaitedIn(k, a, ss, rest) => AwaitedIn(k, a, ss2, rest)
         /\ ~Granted(q) => \A k \in e.sharers : k \in cs => AwaitedIn(k, a, ss2, rest)
<1> DEFINE known == HasEntry(w, a)
<1>1. known = HasEntry(w, a)
  OBVIOUS
<1> HIDE DEF known
<1>2. LineAt(w, rest, a, q, e, rep, known, ss)
  BY <1>1, FineLine
<1>3. /\ LineOK(a, q, e, rep, known, ss, rest) /\ a \in Addrs
      /\ toCache \in [Llcs -> Seq(ToCacheMsg)]
  BY <1>2 DEF LineAt
<1>4. m \in ToCacheMsg /\ m.a = a /\ m.t = t
  BY <1>3, Messages DEF Data, DataReps, Asks
<1>5. ss \in [Llcs -> Seq(ToCacheMsg)] /\ Joined(ss, ss2, cs, m)
  BY <1>3, <1>4, OutJoined
<1>6. e.sharers \subseteq Llcs
  BY <1>3 DEF LineOK, DirEntry
<1>7. \A k \in Llcs :
         /\ AwaitedIn(k, a, ss, rest) => AwaitedIn(k, a, ss2, rest)
         /\ k \in cs /\ k \in e.sharers /\ ~GrantedTo(q, k) => AwaitedIn(k, a, ss2, rest)
         /\ \A p : AskingIn(k, a, p, ss, rest) => AskingIn(k, a, p, ss2, rest)
  <2> TAKE k \in Llcs
  <2>1. m.t \in Asks
    BY <1>4
  <2> QED BY <1>3, <1>4, <1>5, <2>1, AskedAwaited
<1> QED BY <1>6, <1>7 DEF GrantedTo

LEMMA AskedRests ==
  ASSUME NEW w, NEW rest, NEW a, NEW q, NEW e, NEW rep, Fine(w, rest), At(w, a, q, e, rep),
         LastingAt(w, rest, a),
         NEW t \in Asks, NEW cs, NEW m, m = Msg(t, a, NoData), NEW z, At(z, a, q, e, rep), Apart(w, z, a),
         Sends(w, z, cs, m), z.next = FALSE, MustAnswer(q, e, cs)
  PROVE  Moves(w, z, rest, a)
<1> DEFINE ss == Out(w)
           ss2 == Out(z)
<1>1. ss = Out(w) /\ ss2 = Out(z)
  OBVIOUS
<1> HIDE DEF ss, ss2
<1>2. /\ \A k \in Llcs : \A p : AskingIn(k, a, p, ss, rest) => AskingIn(k, a, p, ss2, rest)
      /\ ~Granted(q) => \A k \in e.sharers : k \in cs => AwaitedIn(k, a, ss2, rest)
  BY <1>1, AskedServes
<1>3. Lasting(a, q, e, ss, rest)
  BY <1>1 DEF LastingAt, At
<1>4. Lasting(a, q, e, ss2, rest)
  BY <1>2, <1>3 DEF Lasting, Remembered
<1>5. FrontServed(a, q, e, rep, ss2, rest)
  BY <1>2 DEF FrontServed, MustAnswer, Blockers, Granted
<1>6. OnlyAt(w, z, a)
  <2>1. a \in Addrs /\ t \in Reps \union {"INV_REQ", "FLUSH_REQ", "WB_REQ"} /\ t \notin DataReps
        /\ NoData \in Data
    BY DEF At, Asks, DataReps, Data
  <2>2. m \in ToCacheMsg /\ m.a = a
    BY <2>1, Messages
  <2> QED BY <2>2, ApartSends
<1> QED BY <1>1, <1>4, <1>5, <1>6, RestsAt DEF Moves

-----------------------------------------------------------------------------
(* What data retrieveDataAndSend has, or whom it may ask for it.                *)
MayRetrieve(q, e, f, buf) ==
    /\ q # <<>> /\ ~Head(q).wait /\ Head(q).c \in Llcs /\ f \in DirEntry
    /\ buf # NoData => Head(q).c \in f.sharers
    /\ buf = NoData =>
           /\ EntryServed(f)
           /\ Protocol = "mesif" /\ ~Granted(q) /\ f.st = "S" /\ f.fwd \in Llcs => f.fwd \in e.sharers

(* The front request is answered and done: what is left is served. *)
LEMMA AnswerRests ==
  ASSUME NEW w, NEW rest, NEW a, NEW q, NEW e, NEW rep, Fine(w, rest), At(w, a, q, e, rep),
         RememberedAt(w, rest, a), q # <<>>, NEW c \in Llcs, c = Head(q).c,
         NEW m \in ToCacheMsg, m.a = a, m.t \in Reps, NEW p, p = Tail(q),
         NEW f, EntryServed(f), NEW new, NEW z, At(z, a, p, f, new), Apart(w, z, a),
         Sends(w, z, {c}, m), z.next = TRUE <=> p # <<>>
  PROVE  Moves(w, z, rest, a)
<1> DEFINE ss == Out(w)
           ss2 == Out(z)
<1>1. ss = Out(w) /\ ss2 = Out(z)
  OBVIOUS
<1>2. q \in Seq(DirReq) /\ toCache \in [Llcs -> Seq(ToCacheMsg)]
  BY DEF At, Fine
<1> HIDE DEF ss, ss2
<1>3. ss \in [Llcs -> Seq(ToCacheMsg)] /\ Joined(ss, ss2, {c}, m)
  BY <1>1, <1>2, OutJoined
<1>4. Remembered(a, q, ss, rest)
  BY <1>1 DEF RememberedAt, At
<1>5. \A k \in Llcs : AskingIn(k, a, p, ss2, rest)
  <2> TAKE k \in Llcs
  <2>1. AskingIn(k, a, q, ss, rest)
    BY <1>4 DEF Remembered
  <2> QED BY <1>2, <1>3, <2>1, AnsweredServes
<1>6. Unbuffered(p)
  BY <1>2, <1>4, TailUnbuffered DEF Remembered
<1>7. Lasting(a, p, f, ss2, rest)
  BY <1>5, <1>6 DEF Lasting, Remembered, Unbuffered, OthersUnbuffered
<1>8. z.next = FALSE => FrontServed(a, p, f, new, ss2, rest)
  BY DEF FrontServed
<1>9. OnlyAt(w, z, a)
  BY ApartSends
<1> QED BY <1>1, <1>6, <1>7, <1>8, <1>9, RestsAt DEF Moves

LEMMA DataRests ==
  ASSUME NEW w, NEW rest, NEW a, NEW q, NEW e, NEW rep, Fine(w, rest), At(w, a, q, e, rep),
         RememberedAt(w, rest, a), NEW f, NEW buf \in Data, MayRetrieve(q, e, f, buf), buf # NoData,
         NEW t \in DataReps, NEW c, c = Head(q).c,
         NEW v, Quiet(w, v), NEW z, Apart(w, z, a), ByData(v, z, t, c, a, buf, q, f, rep)
  PROVE  Moves(w, z, rest, a)
<1> DEFINE m == Msg(t, a, buf)
           g == Forwards(f, c)
           p == Tail(q)
<1>1. m \in ToCacheMsg /\ m.a = a /\ m.t \in Reps /\ p = Tail(q)
  BY Messages DEF DataReps, Reps, At
<1>2. At(z, a, p, g, rep) /\ Sends(v, z, {c}, m) /\ (z.next = TRUE <=> p # <<>>)
  BY DEF ByData
<1>3. q # <<>> /\ c \in Llcs /\ c \in f.sharers /\ f \in DirEntry /\ c \in Cores
  BY DEF MayRetrieve, Cores
<1>4. EntryServed(g)
  <2>1. g.st = f.st /\ g.sharers = f.sharers /\ g.fwd = c
    BY <1>3, EntryFields
  <2> QED BY <1>3, <2>1 DEF EntryServed
<1> HIDE DEF m, g, p
<1>5. Sends(w, z, {c}, m)
  BY <1>2, SendsQuietly
<1> QED BY <1>1, <1>2, <1>3, <1>4, <1>5, AnswerRests

LEMMA ForwarderRests ==
  ASSUME NEW w, NEW rest, NEW a, NEW q, NEW e, NEW rep, Fine(w, rest), At(w, a, q, e, rep),
         RememberedAt(w, rest, a), NEW f, MayRetrieve(q, e, f, NoData), w.next = FALSE,
         NEW v, Quiet(w, v), NEW z, Apart(w, z, a), ByForwarder(v, z, a, q, f, rep)
  PROVE  Waits(w, z, rest, a)
<1> DEFINE m == Msg("WB_REQ", a, NoData)
           k == f.fwd
           p == MarkFrom(q, k)
           ss == Out(w)
           ss2 == Out(z)
<1>1. ss = Out(w) /\ ss2 = Out(z) /\ m = Msg("WB_REQ", a, NoData) /\ "WB_REQ" \in Asks
  BY DEF Asks
<1>2. /\ At(z, a, p, f, rep) /\ Sends(v, z, {k}, m) /\ z.next = FALSE
      /\ f.st = "S" /\ k \in Llcs /\ Head(q).from = NoCore /\ Protocol = "mesif"
  BY DEF ByForwarder, Quiet
<1>3. q \in Seq(DirReq) /\ q # <<>> /\ k \in Cores /\ p = MarkFrom(q, k) /\ EntryServed(f) /\ ~Head(q).wait
  BY <1>2 DEF At, MayRetrieve, Cores
<1>4. ~Granted(q) /\ k \in e.sharers
  BY <1>2, <1>3 DEF MayRetrieve, Granted
<1> HIDE DEF m, k, p, ss, ss2
<1>5. Sends(w, z, {k}, m)
  BY <1>2, SendsQuietly
<1>6. /\ \A x \in Llcs : \A y : AskingIn(x, a, y, ss, rest) => AskingIn(x, a, y, ss2, rest)
      /\ \A x \in e.sharers : x \in {k} => AwaitedIn(x, a, ss2, rest)
  BY <1>1, <1>4, <1>5, AskedServes
<1>7. Marks(p, q) /\ p[1].from = k /\ p[1].wait = q[1].wait
  BY <1>3, MarkedFrom
<1>8. Head(p).from = k /\ ~Head(p).wait /\ p # <<>> /\ k # NoCore
  BY <1>2, <1>3, <1>7, NoCoreIsNone DEF Marks
<1>9. Remembered(a, q, ss, rest)
  BY <1>1 DEF RememberedAt, At
<1>10. OthersUnbuffered(p) /\ \A x \in Llcs : AskingIn(x, a, p, ss2, rest)
  BY <1>3, <1>6, <1>7, <1>9, MarkedServes DEF Remembered
<1>11. Lasting(a, p, f, ss2, rest)
  BY <1>3, <1>10 DEF Lasting, Remembered
<1>12. FrontServed(a, p, f, rep, ss2, rest)
  BY <1>2, <1>4, <1>6, <1>8 DEF FrontServed, Granted
<1>13. OnlyAt(w, z, a)
  <2>1. a \in Addrs /\ NoData \in Data
    BY DEF At, Data
  <2>2. m \in ToCacheMsg /\ m.a = a
    BY <1>1, <2>1, Messages DEF DataReps
  <2> QED BY <1>5, <2>2, ApartSends
<1> QED BY <1>1, <1>2, <1>11, <1>12, <1>13, RestsAt DEF Moves, Waits

LEMMA NotEmptied == ASSUME NEW M, NEW s \in Seq(M), NEW x \in M PROVE Append(s, x) # <<>>
<1> DEFINE y == Append(s, x)
<1>1. y \in Seq(M) /\ Len(y) # 0
  <2>1. Len(y) = Len(s) + 1 /\ Len(s) \in Nat
    OBVIOUS
  <2> QED BY <2>1
<1> HIDE DEF y
<1>2. y # <<>>
  BY <1>1
<1> QED BY <1>2 DEF y

LEMMA DramRests ==
  ASSUME NEW w, NEW rest, NEW a, NEW q, NEW e, NEW rep, Fine(w, rest), At(w, a, q, e, rep),
         RememberedAt(w, rest, a), NEW f, MayRetrieve(q, e, f, NoData), w.next = FALSE,
         NEW v, Quiet(w, v), v \in Works, NEW z, Apart(w, z, a), ByDram(v, z, a, q, f, rep)
  PROVE  Waits(w, z, rest, a)
<1> DEFINE p == MarkWait(q)
           new == Append(rep, v.d.mem[a])
           ss == Out(w)
<1>1. ss = Out(w) /\ p = MarkWait(q)
  OBVIOUS
<1>2. At(z, a, p, f, new) /\ z.out = w.out /\ z.next = FALSE
  BY DEF ByDram, Quiet
<1>3. q \in Seq(DirReq) /\ q # <<>> /\ EntryServed(f) /\ new # <<>>
  <2>1. rep \in Seq(Filled) /\ v.d.mem[a] \in Filled
    BY FieldTypes DEF At
  <2>2. new # <<>>
    BY <2>1, NotEmptied
  <2> QED BY <2>2 DEF MayRetrieve, At
<1> HIDE DEF p, new, ss
<1>4. Marks(p, q) /\ p[1].from = q[1].from /\ p[1].wait
  BY <1>1, <1>3, MarkedWait
<1>5. Head(p).wait
  BY <1>4 DEF Marks
<1>6. ss = Out(z)
  BY <1>1, <1>2, OutSame
<1>7. Remembered(a, q, ss, rest)
  BY <1>1 DEF RememberedAt, At
<1>8. OthersUnbuffered(p) /\ \A x \in Llcs : AskingIn(x, a, p, ss, rest)
  BY <1>3, <1>4, <1>7, MarkedServes DEF Remembered
<1>9. Lasting(a, p, f, ss, rest)
  BY <1>3, <1>8 DEF Lasting, Remembered
<1>10. FrontServed(a, p, f, new, ss, rest)
  BY <1>3, <1>5 DEF FrontServed, Granted
<1>11. OnlyAt(w, z, a)
  BY <1>2, ApartOnly
<1> QED BY <1>2, <1>6, <1>9, <1>10, <1>11, RestsAt DEF Moves, Waits

LEMMA RetrievedRests ==
  ASSUME NEW w, NEW rest, NEW a, NEW q, NEW e, NEW rep, Fine(w, rest), At(w, a, q, e, rep),
         RememberedAt(w, rest, a), NEW f, NEW buf \in Data, MayRetrieve(q, e, f, buf), w.next = FALSE,
         NEW t \in DataReps, NEW c, c = Head(q).c,
         NEW v, Quiet(w, v), Apart(w, v, a), At(v, a, q, f, rep),
         NEW z, z = retrieveDataAndSend(v, t, c, a, buf), z.err = NoFailure
  PROVE  Moves(w, z, rest, a) /\ (z.next = TRUE => buf # NoData)
<1>1. q # <<>> /\ c \in Llcs
  BY DEF MayRetrieve
<1>2. CASE buf # NoData
  <2>1. v.err = NoFailure /\ Apart(v, z, a) /\ ByData(v, z, t, c, a, buf, q, f, rep)
    BY <1>1, <1>2, RetrievedData
  <2>2. Apart(w, z, a)
    BY <2>1, ApartChain
  <2> QED BY <1>2, <2>1, <2>2, DataRests
<1>3. CASE buf = NoData
  <2>1. /\ v.err = NoFailure /\ Apart(v, z, a)
        /\ ByForwarder(v, z, a, q, f, rep) \/ ByDram(v, z, a, q, f, rep)
    BY <1>1, <1>3, RetrievedNoData
  <2>2. Apart(w, z, a) /\ v \in Works /\ MayRetrieve(q, e, f, NoData)
    BY <1>3, <2>1, ApartChain DEF Apart
  <2>3. ByForwarder(v, z, a, q, f, rep) => Waits(w, z, rest, a)
    BY <2>2, ForwarderRests
  <2>4. ByDram(v, z, a, q, f, rep) => Waits(w, z, rest, a)
    BY <2>2, DramRests
  <2> QED BY <2>1, <2>3, <2>4 DEF Waits
<1> QED BY <1>2, <1>3

-----------------------------------------------------------------------------
(* One cache is asked, or several are, perhaps after an assertion.              *)
Starts(w, rest, a, q, e, rep) ==
    Fine(w, rest) /\ At(w, a, q, e, rep) /\ LastingAt(w, rest, a) /\ w.next = FALSE
Asked(w, rest, a, q, e, rep, t, cs) == Starts(w, rest, a, q, e, rep) /\ t \in Asks /\ MustAnswer(q, e, cs)
HasAsserted(w, v, a, q, e, rep) == At(v, a, q, e, rep) /\ (v.err = NoFailure => v = w)

LEMMA AskedOneRests ==
  ASSUME NEW w, NEW rest, NEW a, NEW q, NEW e, NEW rep, NEW t, NEW c, NEW v, NEW z,
         Asked(w, rest, a, q, e, rep, t, {c}), HasAsserted(w, v, a, q, e, rep),
         z = Send(v, c, t, a, NoData), z.err = NoFailure
  PROVE  Waits(w, z, rest, a)
<1> DEFINE m == Msg(t, a, NoData)
<1>1. m = Msg(t, a, NoData)
  OBVIOUS
<1>2. m \in ToCacheMsg
  <2>1. t \in Reps \union {"INV_REQ", "FLUSH_REQ", "WB_REQ"} /\ t \notin DataReps
        /\ a \in Addrs /\ NoData \in Data
    BY DEF Asks, At, Data, DataReps, Asked, Starts
  <2> QED BY <2>1, Messages
<1> HIDE DEF m
<1>3. At(z, a, q, e, rep) /\ Apart(v, z, a) /\ Delivered(v, z, c, m)
  BY <1>1, <1>2, AtSend DEF HasAsserted
<1>4. v.err = NoFailure /\ z.next = v.next /\ Sends(v, z, {c}, m)
  BY <1>3 DEF Delivered
<1>5. v = w
  BY <1>4 DEF HasAsserted
<1>6. /\ Fine(w, rest) /\ At(w, a, q, e, rep) /\ LastingAt(w, rest, a) /\ w.next = FALSE
      /\ t \in Asks /\ MustAnswer(q, e, {c})
  BY DEF Asked, Starts
<1> QED BY <1>1, <1>3, <1>4, <1>5, <1>6, AskedRests DEF Waits

LEMMA AskedAllRests ==
  ASSUME NEW w, NEW rest, NEW a, NEW q, NEW e, NEW rep, NEW t, NEW cs, NEW v, NEW z,
         Asked(w, rest, a, q, e, rep, t, cs), HasAsserted(w, v, a, q, e, rep),
         z = SendAll(v, cs, t, a), z.err = NoFailure
  PROVE  Waits(w, z, rest, a)
<1> DEFINE m == Msg(t, a, NoData)
<1>1. m = Msg(t, a, NoData)
  OBVIOUS
<1>2. m \in ToCacheMsg
  <2>1. t \in Reps \union {"INV_REQ", "FLUSH_REQ", "WB_REQ"} /\ t \notin DataReps
        /\ a \in Addrs /\ NoData \in Data
    BY DEF Asks, At, Data, DataReps, Asked, Starts
  <2> QED BY <2>1, Messages
<1> HIDE DEF m
<1>3. At(z, a, q, e, rep) /\ Apart(v, z, a) /\ Broadcast(v, z, cs, m)
  BY <1>1, <1>2, AtSendAll DEF HasAsserted
<1>4. v.err = NoFailure /\ z.next = v.next /\ Sends(v, z, cs, m)
  BY <1>3 DEF Broadcast
<1>5. v = w
  BY <1>4 DEF HasAsserted
<1>6. /\ Fine(w, rest) /\ At(w, a, q, e, rep) /\ LastingAt(w, rest, a) /\ w.next = FALSE
      /\ t \in Asks /\ MustAnswer(q, e, cs)
  BY DEF Asked, Starts
<1> QED BY <1>1, <1>3, <1>4, <1>5, <1>6, AskedRests DEF Waits

(* A request is done at once, without data, only when it upgrades the only       *)
(* sharer; then that one owns the line.                                       *)
Upgrades(z, a, q, e) ==
    /\ e.sharers = {Head(q).c} /\ z.d.q[a] = Tail(q)
    /\ z.d.e[a].st = "M" /\ z.d.e[a].sharers = {Head(q).c}
Goal(w, z, rest, a, q, e, buf) ==
    /\ Moves(w, z, rest, a)
    /\ z.next = TRUE /\ buf = NoData /\ Head(q).buf = NoData => Upgrades(z, a, q, e)

LEMMA ExRests ==
  ASSUME NEW w, NEW rest, NEW a, NEW q, NEW e, NEW rep, Ready(w, rest, a, q, e, rep),
         LastingAt(w, rest, a), Head(q).t = "EX_REQ", NEW buf \in Data,
         NEW z, z = processExReq(w, a, buf), z.err = NoFailure
  PROVE  Goal(w, z, rest, a, q, e, buf)
<1> DEFINE c == Head(q).c
           cond == buf = NoData
           v == Assert_(w, cond, "data for a cached line")
           f == Granting(e, c, "M")
           y == SetE(w, a, f)
<1>1. c = Head(q).c /\ v = Assert_(w, cond, "data for a cached line")
  OBVIOUS
<1>2. /\ Fine(w, rest) /\ At(w, a, q, e, rep) /\ HasEntry(w, a) /\ w.next = FALSE
      /\ q # <<>> /\ ~Head(q).wait /\ (Granted(q) => e.st = "S") /\ Calm(w, rest, a)
      /\ e.st \in {"U", "S", "E", "M"} /\ NoData \in Data /\ a \in Addrs /\ e \in DirEntry
  BY ReadyParts
<1>3. FrontFacts(q, e, rep)
  BY ReadyFront
<1>4. c \in Llcs /\ ~Granted(q) /\ c \notin e.sharers
  BY <1>1, <1>3 DEF FrontFacts, Fetches
<1>5. FrontReq(w, a) = Head(q) /\ Dstate(w, a) = e.st /\ Sharers(w, a) = e.sharers /\ w.d.e[a] = e
  BY <1>2, AtFront
<1>6. HasAsserted(w, v, a, q, e, rep)
  <2>1. "data for a cached line" \in Failures
    BY DEF Failures
  <2> HIDE DEF cond, v
  <2>2. At(v, a, q, e, rep) /\ Checked(w, v, cond)
    BY <1>1, <1>2, <2>1, AtAssert
  <2> QED BY <2>2 DEF Checked, HasAsserted
<1>10. Starts(w, rest, a, q, e, rep)
  BY <1>2 DEF Starts
<1>7. CASE e.st \in {"E", "M"}
  <2>1. z = Send(v, e.owner, "FLUSH_REQ", a, NoData)
    BY <1>1, <1>5, <1>7 DEF processExReq
  <2> HIDE DEF c, cond, v, f, y
  <2>2. Asked(w, rest, a, q, e, rep, "FLUSH_REQ", {e.owner})
    BY <1>1, <1>2, <1>3, <1>4, <1>7, <1>10 DEF Asked, MustAnswer, Blockers, FrontFacts, Asks
  <2>3. Waits(w, z, rest, a)
    BY <1>6, <2>1, <2>2, AskedOneRests
  <2> QED BY <2>3 DEF Goal, Waits
<1>8. CASE e.st = "S"
  <2>1. z = SendAll(v, e.sharers, "INV_REQ", a)
    BY <1>1, <1>5, <1>8 DEF processExReq
  <2> HIDE DEF c, cond, v, f, y
  <2>2. e.sharers # {}
    BY <1>2, <1>8 DEF LastingAt, Lasting, EntryServed, At
  <2>3. Asked(w, rest, a, q, e, rep, "INV_REQ", e.sharers)
    BY <1>1, <1>2, <1>4, <1>10, <2>2 DEF Asked, MustAnswer, Blockers, Asks
  <2>4. Waits(w, z, rest, a)
    BY <1>6, <2>1, <2>3, AskedAllRests
  <2> QED BY <2>4 DEF Goal, Waits
<1>9. CASE e.st = "U"
  <2>1. z = retrieveDataAndSend(Grant(w, a, c, "M"), "EX_REP", c, a, buf)
    BY <1>1, <1>5, <1>9 DEF processExReq
  <2>2. f = Granting(e, c, "M") /\ y = SetE(w, a, f)
    OBVIOUS
  <2> HIDE DEF c, cond, v, f, y
  <2>3. Grant(w, a, c, "M") = y /\ f \in DirEntry /\ f.sharers = e.sharers \union {c} /\ f.owner = c /\ f.st = "M"
    BY <1>2, <1>4, <2>2, GrantIs
  <2>4. At(y, a, q, f, rep) /\ Apart(w, y, a) /\ Quiet(w, y)
    BY <1>2, <2>2, <2>3, AtEntry
  <2>5. MayRetrieve(q, e, f, buf)
    BY <1>1, <1>2, <1>4, <2>3 DEF MayRetrieve, EntryServed
  <2>6. RememberedAt(w, rest, a) /\ "EX_REP" \in DataReps
    BY DEF LastingAt, Lasting, RememberedAt, DataReps
  <2>7. z = retrieveDataAndSend(y, "EX_REP", c, a, buf)
    BY <2>1, <2>3
  <2>8. Moves(w, z, rest, a) /\ (z.next = TRUE => buf # NoData)
    BY <1>1, <1>2, <2>4, <2>5, <2>6, <2>7, RetrievedRests
  <2> QED BY <2>8 DEF Goal
<1> QED BY <1>2, <1>7, <1>8, <1>9

(* What a shared request may start from: an entry that is served, or one that has *)
(* just been written back by its only holder.                                 *)
Writable(e, buf) == EntryServed(e) \/ (buf # NoData /\ \E o \in Llcs : e.sharers = {o})

LEMMA FullServed ==
  ASSUME NEW e, NEW buf, Writable(e, buf), Cardinality(e.sharers) >= MaxHwSharers, MaxHwSharers \in Nat
  PROVE  EntryServed(e)
<1>1. CASE EntryServed(e)
  BY <1>1
<1>2. CASE \E o \in Llcs : e.sharers = {o}
  <2>1. PICK o \in Llcs : e.sharers = {o}
    BY <1>2
  <2>2. Cardinality(e.sharers) = 1
    BY <2>1, FS_Singleton
  <2>3. ~(MaxHwSharers > 1) /\ e.sharers # {}
    BY <2>1, <2>2
  <2> QED BY <2>3 DEF EntryServed
<1> QED BY <1>1, <1>2 DEF Writable

LEMMA FreeServed ==
  ASSUME NEW e \in DirEntry, EntryServed(e), e.st = "S", ~(Cardinality(e.sharers) >= MaxHwSharers),
         MaxHwSharers \in Nat, IsFiniteSet(Llcs), Protocol = "mesif"
  PROVE  e.fwd \in e.sharers \union {NoCore}
<1>1. e.sharers # {} /\ e.sharers \subseteq Llcs
  BY DEF EntryServed, DirEntry
<1>2. IsFiniteSet(e.sharers)
  BY <1>1, FS_Subset
<1>3. Cardinality(e.sharers) \in Nat /\ Cardinality(e.sharers) # 0
  BY <1>1, <1>2, FS_CardinalityType, FS_EmptySet
<1>4. MaxHwSharers > 1
  BY <1>3
<1> QED BY <1>4 DEF EntryServed

LEMMA ShRests ==
  ASSUME NEW w, NEW rest, NEW a, NEW q, NEW e, NEW rep, Ready(w, rest, a, q, e, rep),
         RememberedAt(w, rest, a), Head(q).t = "SH_REQ", NEW buf \in Data, Writable(e, buf),
         MaxHwSharers \in Nat,
         NEW z, z = processShReq(w, a, buf), z.err = NoFailure
  PROVE  Goal(w, z, rest, a, q, e, buf)
<1> DEFINE c == Head(q).c
           cond == buf = NoData /\ (e.st = "E" => c # e.owner)
           v == Assert_(w, cond, "WB_REQ with data, or to the requester")
           one == IF w.one \in e.sharers THEN w.one ELSE CHOOSE x \in e.sharers : TRUE
<1>1. c = Head(q).c /\ v = Assert_(w, cond, "WB_REQ with data, or to the requester")
      /\ (cond => buf = NoData)
  OBVIOUS
<1>2. /\ Fine(w, rest) /\ At(w, a, q, e, rep) /\ HasEntry(w, a) /\ w.next = FALSE
      /\ q # <<>> /\ ~Head(q).wait /\ (Granted(q) => e.st = "S") /\ Calm(w, rest, a)
      /\ e.st \in {"U", "S", "E", "M"} /\ NoData \in Data /\ a \in Addrs /\ e \in DirEntry
  BY ReadyParts
<1>3. FrontFacts(q, e, rep)
  BY ReadyFront
<1>4. c \in Llcs /\ (~Granted(q) => c \notin e.sharers) /\ (Granted(q) => c \in e.sharers)
  BY <1>1, <1>3 DEF FrontFacts, Fetches
<1>5. FrontReq(w, a) = Head(q) /\ Dstate(w, a) = e.st /\ Sharers(w, a) = e.sharers /\ w.d.e[a] = e
  BY <1>2, AtFront
<1>6. EntryServed(e) => Starts(w, rest, a, q, e, rep)
  BY <1>2 DEF Starts, LastingAt, Lasting, RememberedAt, At
<1>7. NoCore \notin Llcs
  BY NoCoreIsNone
<1>8. CASE e.st \in {"E", "M"}
  <2>1. z = Send(v, e.owner, "WB_REQ", a, NoData)
    BY <1>1, <1>5, <1>8 DEF processShReq
  <2>2. HasAsserted(w, v, a, q, e, rep)
    <3>1. "WB_REQ with data, or to the requester" \in Failures
      BY DEF Failures
    <3> HIDE DEF cond, v
    <3>2. At(v, a, q, e, rep) /\ Checked(w, v, cond)
      BY <1>1, <1>2, <3>1, AtAssert
    <3> QED BY <3>2 DEF Checked, HasAsserted
  <2> HIDE DEF c, cond, v, one
  <2>3. Asked(w, rest, a, q, e, rep, "WB_REQ", {e.owner})
    BY <1>1, <1>2, <1>3, <1>4, <1>6, <1>8 DEF Asked, MustAnswer, Blockers, FrontFacts, Asks, EntryServed
  <2>4. Waits(w, z, rest, a)
    BY <2>1, <2>2, <2>3, AskedOneRests
  <2> QED BY <2>4 DEF Goal, Waits
<1>9. CASE e.st = "S" /\ c \in e.sharers
  <2>1. z = retrieveDataAndSend(w, "SH_REP", c, a, buf)
    BY <1>1, <1>5, <1>9 DEF processShReq
  <2> HIDE DEF c, cond, v, one
  <2>2. MayRetrieve(q, e, e, buf) /\ "SH_REP" \in DataReps
    BY <1>1, <1>2, <1>4, <1>9 DEF MayRetrieve, Writable, DataReps
  <2>3. Quiet(w, w) /\ Apart(w, w, a)
    BY <1>2 DEF Quiet, At, Apart
  <2>4. Moves(w, z, rest, a) /\ (z.next = TRUE => buf # NoData)
    BY <1>1, <1>2, <2>1, <2>2, <2>3, RetrievedRests
  <2> QED BY <2>4 DEF Goal
<1>10. CASE e.st = "S" /\ c \notin e.sharers /\ EntryFull(w, a)
  <2>1. z = Send(w, one, "INV_REQ", a, NoData)
    BY <1>1, <1>5, <1>10 DEF processShReq
  <2>2. Cardinality(e.sharers) >= MaxHwSharers
    BY <1>5, <1>10 DEF EntryFull
  <2>3. EntryServed(e)
    BY <2>2, FullServed
  <2>4. e.sharers # {}
    BY <1>10, <2>3 DEF EntryServed
  <2>5. one \in e.sharers
    BY <2>4
  <2> HIDE DEF c, cond, v, one
  <2>6. Asked(w, rest, a, q, e, rep, "INV_REQ", {one})
    BY <1>1, <1>2, <1>4, <1>6, <1>10, <2>3, <2>5 DEF Asked, MustAnswer, Blockers, Asks
  <2>7. HasAsserted(w, w, a, q, e, rep)
    BY <1>2 DEF HasAsserted
  <2>8. Waits(w, z, rest, a)
    BY <2>1, <2>6, <2>7, AskedOneRests
  <2> QED BY <2>8 DEF Goal, Waits
<1>11. CASE e.st = "S" /\ c \notin e.sharers /\ ~EntryFull(w, a)
  <2> DEFINE f == Sharing(e, c)
             y == SetE(w, a, f)
  <2>1. z = retrieveDataAndSend(addSharer(w, a, c), "SH_REP", c, a, buf)
    BY <1>1, <1>5, <1>11 DEF processShReq
  <2>2. f = Sharing(e, c) /\ y = SetE(w, a, f)
    OBVIOUS
  <2>3. f.fwd = e.fwd
    BY <1>2 DEF DirEntry, Sharing
  <2>4. ~(Cardinality(e.sharers) >= MaxHwSharers)
    BY <1>5, <1>11 DEF EntryFull
  <2> HIDE DEF c, cond, v, one, f, y
  <2>5. addSharer(w, a, c) = y /\ f \in DirEntry /\ f.sharers = e.sharers \union {c} /\ f.st = e.st
    BY <1>2, <1>4, <2>2, SharingIs
  <2>6. At(y, a, q, f, rep) /\ Apart(w, y, a) /\ Quiet(w, y)
    BY <1>2, <2>2, <2>5, AtEntry
  <2>7. EntryServed(e) /\ Protocol = "mesif" => e.fwd \in e.sharers \union {NoCore}
    BY <1>2, <1>11, <2>4, FreeServed, DirectoryAssumption
  <2>8. MayRetrieve(q, e, f, buf) /\ "SH_REP" \in DataReps
    <3>1. buf = NoData => EntryServed(e)
      BY DEF Writable
    <3> QED BY <1>1, <1>2, <1>4, <1>7, <1>11, <2>3, <2>5, <2>7, <3>1 DEF MayRetrieve, EntryServed, DataReps
  <2>9. z = retrieveDataAndSend(y, "SH_REP", c, a, buf)
    BY <2>1, <2>5
  <2>10. Moves(w, z, rest, a) /\ (z.next = TRUE => buf # NoData)
    BY <1>1, <1>2, <2>6, <2>8, <2>9, RetrievedRests
  <2> QED BY <2>10 DEF Goal
<1>12. CASE e.st = "U" /\ Protocol = "msi"
  <2> DEFINE f == Granting(e, c, "S")
             y == SetE(w, a, f)
  <2>1. z = retrieveDataAndSend(Grant(w, a, c, "S"), "SH_REP", c, a, buf)
    BY <1>1, <1>5, <1>12 DEF processShReq
  <2>2. f = Granting(e, c, "S") /\ y = SetE(w, a, f)
    OBVIOUS
  <2> HIDE DEF c, cond, v, one, f, y
  <2>3. Grant(w, a, c, "S") = y /\ f \in DirEntry /\ f.sharers = e.sharers \union {c} /\ f.st = "S"
    BY <1>2, <1>4, <2>2, GrantIs
  <2>4. At(y, a, q, f, rep) /\ Apart(w, y, a) /\ Quiet(w, y)
    BY <1>2, <2>2, <2>3, AtEntry
  <2>5. MayRetrieve(q, e, f, buf) /\ "SH_REP" \in DataReps
    BY <1>1, <1>2, <1>4, <1>12, <2>3 DEF MayRetrieve, EntryServed, DataReps
  <2>6. z = retrieveDataAndSend(y, "SH_REP", c, a, buf)
    BY <2>1, <2>3
  <2>7. Moves(w, z, rest, a) /\ (z.next = TRUE => buf # NoData)
    BY <1>1, <1>2, <2>4, <2>5, <2>6, RetrievedRests
  <2> QED BY <2>7 DEF Goal
<1>13. CASE e.st = "U" /\ Protocol # "msi"
  <2> DEFINE f == Granting(e, c, "E")
             y == SetE(w, a, f)
  <2>1. z = retrieveDataAndSend(Grant(w, a, c, "E"), "EX_REP", c, a, buf)
    BY <1>1, <1>5, <1>13 DEF processShReq
  <2>2. f = Granting(e, c, "E") /\ y = SetE(w, a, f)
    OBVIOUS
  <2> HIDE DEF c, cond, v, one, f, y
  <2>3. Grant(w, a, c, "E") = y /\ f \in DirEntry /\ f.sharers = e.sharers \union {c} /\ f.st = "E"
    BY <1>2, <1>4, <2>2, GrantIs
  <2>4. At(y, a, q, f, rep) /\ Apart(w, y, a) /\ Quiet(w, y)
    BY <1>2, <2>2, <2>3, AtEntry
  <2>5. MayRetrieve(q, e, f, buf) /\ "EX_REP" \in DataReps
    BY <1>1, <1>2, <1>4, <1>13, <2>3 DEF MayRetrieve, EntryServed, DataReps
  <2>6. z = retrieveDataAndSend(y, "EX_REP", c, a, buf)
    BY <2>1, <2>3
  <2>7. Moves(w, z, rest, a) /\ (z.next = TRUE => buf # NoData)
    BY <1>1, <1>2, <2>4, <2>5, <2>6, RetrievedRests
  <2> QED BY <2>7 DEF Goal
<1> QED BY <1>2, <1>8, <1>9, <1>10, <1>11, <1>12, <1>13

(* The only sharer upgrades, and owns the line.                                *)
LEMMA UpgradeRests ==
  ASSUME NEW w, NEW rest, NEW a, NEW q, NEW e, NEW rep, Ready(w, rest, a, q, e, rep),
         RememberedAt(w, rest, a), NEW c \in Llcs, c = Head(q).c, e.sharers = {c},
         NEW f, f = Owning(e, c), NEW y, y = SetE(w, a, f),
         NEW u, u = Send(y, c, "UPGRADE_REP", a, NoData),
         NEW v, At(v, a, q, f, rep), Apart(u, v, a), v.out = u.out, v.next = u.next,
         v.err = NoFailure => u.err = NoFailure,
         NEW z, z = processNextReq(v, a), z.err = NoFailure
  PROVE  Moves(w, z, rest, a) /\ Upgrades(z, a, q, e)
<1> DEFINE m == Msg("UPGRADE_REP", a, NoData)
           p == Tail(q)
<1>1. m = Msg("UPGRADE_REP", a, NoData) /\ p = Tail(q)
  OBVIOUS
<1>2. /\ Fine(w, rest) /\ At(w, a, q, e, rep) /\ q # <<>> /\ NoData \in Data /\ a \in Addrs
      /\ e \in DirEntry
  BY ReadyParts
<1>3. m \in ToCacheMsg /\ m.a = a /\ m.t \in Reps
  BY <1>2, Messages DEF Reps, DataReps
<1> HIDE DEF m, p
<1>4. f \in DirEntry /\ f.sharers = e.sharers /\ f.owner = c /\ f.st = "M"
  BY <1>2, OwnedEntry
<1>5. At(y, a, q, f, rep) /\ Apart(w, y, a) /\ Quiet(w, y)
  BY <1>2, <1>4, AtEntry
<1>6. Apart(y, u, a) /\ Delivered(y, u, c, m)
  BY <1>1, <1>3, <1>5, AtSend
<1>7. At(z, a, p, f, rep) /\ Apart(v, z, a) /\ Finished(v, z, p)
  BY <1>1, <1>2, AtNext
<1>8. u.err = NoFailure
  BY <1>7 DEF Finished
<1>9. Sends(y, u, {c}, m)
  BY <1>6, <1>8 DEF Delivered
<1>10. Sends(w, u, {c}, m)
  BY <1>5, <1>9, SendsQuietly
<1>11. z.out = u.out /\ (z.next = TRUE <=> p # <<>>)
  BY <1>7 DEF Finished
<1>12. Sends(w, z, {c}, m)
  BY <1>10, <1>11, SendsBefore
<1>13. Apart(w, z, a)
  BY <1>5, <1>6, <1>7, ApartChain
<1>14. EntryServed(f)
  BY <1>4 DEF EntryServed
<1>15. Moves(w, z, rest, a)
  BY <1>1, <1>2, <1>3, <1>7, <1>11, <1>12, <1>13, <1>14, AnswerRests
<1>16. Upgrades(z, a, q, e)
  BY <1>1, <1>4, <1>7 DEF Upgrades, At
<1> QED BY <1>15, <1>16

(* An upgrade without a copy asks two ways at once.                            *)
LEMMA AskedTwiceRests ==
  ASSUME NEW w, NEW rest, NEW a, NEW q, NEW e, NEW rep, NEW cs, NEW first, NEW v, NEW z,
         Starts(w, rest, a, q, e, rep), MustAnswer(q, e, cs \union {first}), Head(q).t # "SH_REQ",
         v = SendAll(w, cs, "INV_REQ", a), Fine(v, rest),
         z = Send(v, first, "FLUSH_REQ", a, NoData), z.err = NoFailure
  PROVE  Waits(w, z, rest, a)
<1> DEFINE m == Msg("INV_REQ", a, NoData)
           n == Msg("FLUSH_REQ", a, NoData)
           ss == Out(w)
           ss1 == Out(v)
           ss2 == Out(z)
<1>1. /\ m = Msg("INV_REQ", a, NoData) /\ n = Msg("FLUSH_REQ", a, NoData)
      /\ ss = Out(w) /\ ss1 = Out(v) /\ ss2 = Out(z) /\ "INV_REQ" \in Asks /\ "FLUSH_REQ" \in Asks
  BY DEF Asks
<1>2. Fine(w, rest) /\ At(w, a, q, e, rep) /\ LastingAt(w, rest, a) /\ w.next = FALSE
  BY DEF Starts
<1>3. m \in ToCacheMsg /\ n \in ToCacheMsg
  <2>1. a \in Addrs /\ NoData \in Data
    BY <1>2 DEF At, Data
  <2> QED BY <2>1, Messages DEF DataReps
<1> HIDE DEF m, n, ss, ss1, ss2
<1>4. At(v, a, q, e, rep) /\ Apart(w, v, a) /\ Broadcast(w, v, cs, m)
  BY <1>1, <1>2, <1>3, AtSendAll
<1>5. At(z, a, q, e, rep) /\ Apart(v, z, a) /\ Delivered(v, z, first, n)
  BY <1>1, <1>3, <1>4, AtSend
<1>6. z.next = FALSE /\ Sends(w, v, cs, m) /\ Sends(v, z, {first}, n)
  BY <1>2, <1>4, <1>5 DEF Broadcast, Delivered
<1>7. /\ \A k \in Llcs : \A p : AskingIn(k, a, p, ss, rest) => AskingIn(k, a, p, ss1, rest)
      /\ ~Granted(q) => \A k \in e.sharers : k \in cs => AwaitedIn(k, a, ss1, rest)
  BY <1>1, <1>2, <1>4, <1>6, AskedServes
<1>8. /\ \A k \in Llcs : \A p : AskingIn(k, a, p, ss1, rest) => AskingIn(k, a, p, ss2, rest)
      /\ \A k \in Llcs : AwaitedIn(k, a, ss1, rest) => AwaitedIn(k, a, ss2, rest)
      /\ ~Granted(q) => \A k \in e.sharers : k \in {first} => AwaitedIn(k, a, ss2, rest)
  BY <1>1, <1>4, <1>5, <1>6, AskedServes
<1>9. Lasting(a, q, e, ss, rest)
  BY <1>1, <1>2 DEF LastingAt, At
<1>10. Lasting(a, q, e, ss2, rest)
  BY <1>7, <1>8, <1>9 DEF Lasting, Remembered
<1>11. e.sharers \subseteq Llcs
  BY <1>2 DEF At, DirEntry
<1>12. ~Granted(q) /\ \A k \in Blockers(q, e) : AwaitedIn(k, a, ss2, rest)
  BY <1>7, <1>8, <1>11 DEF MustAnswer, Blockers
<1>13. FrontServed(a, q, e, rep, ss2, rest)
  BY <1>12 DEF FrontServed, MustAnswer, Granted
<1>14. OnlyAt(w, z, a)
  <2>1. m.a = a /\ n.a = a /\ Fine(w, rest)
    BY <1>1, <1>2 DEF Msg
  <2>2. OnlyAt(w, v, a) /\ OnlyAt(v, z, a)
    BY <1>3, <1>4, <1>5, <1>6, <2>1, ApartSends
  <2> QED BY <2>2, OnlyAtChain
<1> QED BY <1>1, <1>5, <1>6, <1>10, <1>13, <1>14, RestsAt DEF Waits, Moves

LEMMA UpRests ==
  ASSUME NEW w, NEW rest, NEW a, NEW q, NEW e, NEW rep, Ready(w, rest, a, q, e, rep),
         LastingAt(w, rest, a), Head(q).t = "UPGRADE_REQ", NEW buf \in Data,
         NEW z, z = processUpgradeReq(w, a, buf), z.err = NoFailure
  PROVE  Goal(w, z, rest, a, q, e, buf)
<1> DEFINE c == Head(q).c
           f == Owning(e, c)
           y == SetE(w, a, f)
           u == Send(y, c, "UPGRADE_REP", a, NoData)
<1>1. c = Head(q).c /\ f = Owning(e, c) /\ y = SetE(w, a, f)
  OBVIOUS
<1>2. u = Send(y, c, "UPGRADE_REP", a, NoData)
  OBVIOUS
<1>3. /\ Fine(w, rest) /\ At(w, a, q, e, rep) /\ HasEntry(w, a) /\ w.next = FALSE
      /\ q # <<>> /\ ~Head(q).wait /\ (Granted(q) => e.st = "S") /\ Calm(w, rest, a)
      /\ e.st \in {"U", "S", "E", "M"} /\ NoData \in Data /\ a \in Addrs /\ e \in DirEntry
  BY ReadyParts
<1>4. FrontFacts(q, e, rep)
  BY ReadyFront
<1>5. c \in Llcs /\ ~Granted(q) /\ Head(q).buf \in Data
  BY <1>1, <1>4 DEF FrontFacts, DirReq
<1>6. FrontReq(w, a) = Head(q) /\ Dstate(w, a) = e.st /\ Sharers(w, a) = e.sharers /\ w.d.e[a] = e
  BY <1>3, AtFront
<1>7. MakeOwner(w, a, c) = y
  BY <1>1, <1>3, <1>5, OwningIs
<1>8. f \in DirEntry /\ f.sharers = e.sharers /\ f.owner = c /\ f.st = "M"
  BY <1>1, <1>3, <1>5, OwnedEntry
<1>9. Send([w EXCEPT !.d.e[a].owner = c, !.d.e[a].st = "M"], c, "UPGRADE_REP", a, NoData) = u
  BY <1>7 DEF MakeOwner
<1>10. At(u, a, q, f, rep)
  <2> DEFINE m == Msg("UPGRADE_REP", a, NoData)
  <2>1. m \in ToCacheMsg /\ m = Msg("UPGRADE_REP", a, NoData)
    BY <1>3, Messages DEF Reps, DataReps
  <2> HIDE DEF m, c, f, y, u
  <2>2. At(y, a, q, f, rep)
    BY <1>1, <1>3, <1>8, AtEntry
  <2> QED BY <1>2, <2>1, <2>2, AtSend
<1>11. Starts(w, rest, a, q, e, rep) /\ HasAsserted(w, w, a, q, e, rep)
  BY <1>3 DEF Starts, HasAsserted
<1>12. RememberedAt(w, rest, a)
  BY DEF LastingAt, Lasting, RememberedAt
<1>13. EntryServed(e)
  BY <1>3 DEF LastingAt, Lasting, At
<1>14. CASE e.st \in {"E", "M"} /\ e.owner = c
  <2> DEFINE cond == w.d.e[a].owner = c
             v == Assert_(u, cond, "upgrade by no owner")
  <2>1. e.sharers = {c}
    BY <1>4, <1>14 DEF FrontFacts
  <2>2. Min(Sharers(w, a)) = c
    BY <1>5, <1>6, <2>1, MinOfOne, DirectoryAssumption
  <2>3. z = processNextReq(v, a)
    BY <1>6, <1>9, <1>14, <2>2 DEF processUpgradeReq
  <2>4. v = Assert_(u, cond, "upgrade by no owner")
    OBVIOUS
  <2> HIDE DEF c, f, y, u, cond, v
  <2>5. "upgrade by no owner" \in Failures
    BY DEF Failures
  <2>6. At(v, a, q, f, rep) /\ Apart(u, v, a) /\ Checked(u, v, cond)
    BY <1>10, <2>4, <2>5, AtAssert
  <2>7. v.out = u.out /\ v.next = u.next /\ (v.err = NoFailure => u.err = NoFailure)
    BY <2>6 DEF Checked
  <2>8. Moves(w, z, rest, a) /\ Upgrades(z, a, q, e)
    BY <1>1, <1>2, <1>5, <1>12, <2>1, <2>3, <2>6, <2>7, UpgradeRests
  <2> QED BY <2>8 DEF Goal
<1>15. CASE e.st \in {"E", "M"} /\ e.owner # c
  <2>1. e.sharers = {e.owner} /\ e.owner \in Nat
    <3>1. e.sharers = {e.owner} /\ e.sharers \subseteq Llcs
      BY <1>3, <1>4, <1>15 DEF FrontFacts, DirEntry
    <3> QED BY <3>1, DirectoryAssumption
  <2>2. Min(Sharers(w, a)) # c
    BY <1>6, <1>15, <2>1, MinOfOne
  <2>3. z = Send(w, e.owner, "FLUSH_REQ", a, NoData)
    BY <1>6, <1>15, <2>2 DEF processUpgradeReq
  <2> HIDE DEF c, f, y, u
  <2>4. Asked(w, rest, a, q, e, rep, "FLUSH_REQ", {e.owner})
    BY <1>1, <1>3, <1>5, <1>11, <1>15, <2>1 DEF Asked, MustAnswer, Blockers, Asks
  <2>5. Waits(w, z, rest, a)
    BY <1>11, <2>3, <2>4, AskedOneRests
  <2> QED BY <2>5 DEF Goal, Waits
<1>16. CASE e.st = "S" /\ e.sharers = {c}
  <2>1. z = processNextReq(u, a)
    BY <1>6, <1>9, <1>16 DEF processUpgradeReq, UpgradeDone
  <2> HIDE DEF c, f, y, u
  <2>2. Apart(u, u, a)
    BY <1>10 DEF Apart, At
  <2>3. Moves(w, z, rest, a) /\ Upgrades(z, a, q, e)
    BY <1>1, <1>2, <1>5, <1>10, <1>12, <1>16, <2>1, <2>2, UpgradeRests
  <2> QED BY <2>3 DEF Goal
<1>17. CASE e.st = "S" /\ e.sharers # {c} /\ c \in e.sharers
  <2>1. z = SendAll(w, e.sharers \ {c}, "INV_REQ", a)
    BY <1>6, <1>17 DEF processUpgradeReq, UpgradeDone, InvalidateOthers
  <2> HIDE DEF c, f, y, u
  <2>2. Asked(w, rest, a, q, e, rep, "INV_REQ", e.sharers \ {c})
    BY <1>1, <1>3, <1>5, <1>11, <1>17 DEF Asked, MustAnswer, Blockers, Asks
  <2>3. Waits(w, z, rest, a)
    BY <1>11, <2>1, <2>2, AskedAllRests
  <2> QED BY <2>3 DEF Goal, Waits
<1>18. CASE e.st = "S" /\ e.sharers # {c} /\ c \notin e.sharers
  <2> DEFINE others == e.sharers \ {c}
             first == Min(others)
             cs == others \ {first}
             v == SendAll(w, cs, "INV_REQ", a)
  <2>1. z = Send(v, first, "FLUSH_REQ", a, NoData)
    BY <1>6, <1>18 DEF processUpgradeReq, UpgradeDone, InvalidateOthers
  <2>2. v = SendAll(w, cs, "INV_REQ", a) /\ others = e.sharers \ {c} /\ cs = others \ {first}
    OBVIOUS
  <2> HIDE DEF c, f, y, u, others, first, cs, v
  <2>3. MayAsk(w, rest, a, q, e, "INV_REQ", cs)
    BY DEF MayAsk
  <2>4. Fine(v, rest)
    <3>1. Goes(v, rest, a)
      BY <1>3, <2>2, <2>3, AskedAll
    <3> QED BY <3>1 DEF Goes
  <2>5. MustAnswer(q, e, cs \union {first})
    BY <1>1, <1>3, <1>5, <1>13, <1>18, <2>2 DEF MustAnswer, Blockers, EntryServed
  <2>6. Waits(w, z, rest, a)
    BY <1>11, <2>1, <2>2, <2>4, <2>5, AskedTwiceRests
  <2> QED BY <2>6 DEF Goal, Waits
<1>19. CASE e.st = "U"
  <2> DEFINE data == IF buf = NoData THEN Head(q).buf ELSE buf
             g == Granting(e, c, "M")
             x == SetE(w, a, g)
  <2>1. z = retrieveDataAndSend(Grant(w, a, c, "M"), "EX_REP", c, a, data)
    BY <1>6, <1>19 DEF processUpgradeReq
  <2>2. /\ g = Granting(e, c, "M") /\ x = SetE(w, a, g) /\ data \in Data
        /\ (buf = NoData /\ Head(q).buf = NoData => data = NoData)
    BY <1>5
  <2> HIDE DEF c, f, y, u, data, g, x
  <2>3. /\ Grant(w, a, c, "M") = x /\ g \in DirEntry /\ g.sharers = e.sharers \union {c}
        /\ g.st = "M"
    BY <1>3, <1>5, <2>2, GrantIs
  <2>4. At(x, a, q, g, rep) /\ Apart(w, x, a) /\ Quiet(w, x)
    BY <1>3, <2>2, <2>3, AtEntry
  <2>5. MayRetrieve(q, e, g, data) /\ "EX_REP" \in DataReps
    BY <1>1, <1>3, <1>5, <2>3 DEF MayRetrieve, EntryServed, DataReps
  <2>6. z = retrieveDataAndSend(x, "EX_REP", c, a, data)
    BY <2>1, <2>3
  <2>7. Moves(w, z, rest, a) /\ (z.next = TRUE => data # NoData)
    BY <1>1, <1>3, <1>12, <2>2, <2>4, <2>5, <2>6, RetrievedRests
  <2> QED BY <2>2, <2>7 DEF Goal
<1> QED BY <1>3, <1>14, <1>15, <1>16, <1>17, <1>18, <1>19

-----------------------------------------------------------------------------
(* A replaced entry: everybody who is listed is asked, or it is gone.          *)
LEMMA NullifyRests ==
  ASSUME NEW w, NEW rest, NEW a, NEW q, NEW e, NEW rep, Ready(w, rest, a, q, e, rep),
         LastingAt(w, rest, a), Head(q).t = "NULLIFY_REQ",
         NEW z, z = processNullifyReq(w, a), z.err = NoFailure
  PROVE  Rests(z, rest, a)
<1>1. /\ Fine(w, rest) /\ At(w, a, q, e, rep) /\ HasEntry(w, a) /\ w.next = FALSE
      /\ q # <<>> /\ ~Head(q).wait /\ (Granted(q) => e.st = "S") /\ Calm(w, rest, a)
      /\ e.st \in {"U", "S", "E", "M"} /\ NoData \in Data /\ a \in Addrs /\ e \in DirEntry
  BY ReadyParts
<1>2. FrontFacts(q, e, rep)
  BY ReadyFront
<1>3. Dstate(w, a) = e.st /\ Sharers(w, a) = e.sharers /\ w.d.e[a] = e
  BY <1>1, AtFront
<1>4. Head(q).c \notin Llcs
  <2>1. 1 \in DOMAIN q /\ Head(q) = q[1]
    BY <1>1, <1>2, Popped DEF FrontFacts
  <2>2. q[1].c = NoCore
    BY <1>2, <2>1 DEF FrontFacts, FrontWaits
  <2> QED BY <2>1, <2>2, NoCoreIsNone
<1>5. ~Granted(q) /\ e.sharers \subseteq Llcs
  BY <1>1, <1>2 DEF FrontFacts, DirEntry
<1>6. Starts(w, rest, a, q, e, rep) /\ HasAsserted(w, w, a, q, e, rep)
  BY <1>1 DEF Starts, HasAsserted
<1>7. Lasting(a, q, e, Out(w), rest)
  BY <1>1 DEF LastingAt, At
<1>8. CASE e.st \in {"E", "M"}
  <2>1. z = Send(w, e.owner, "FLUSH_REQ", a, NoData)
    BY <1>3, <1>8 DEF processNullifyReq
  <2>2. Asked(w, rest, a, q, e, rep, "FLUSH_REQ", {e.owner})
    BY <1>1, <1>2, <1>4, <1>5, <1>6, <1>8 DEF Asked, MustAnswer, Blockers, Asks, FrontFacts
  <2>3. Waits(w, z, rest, a)
    BY <1>6, <2>1, <2>2, AskedOneRests
  <2> QED BY <2>3 DEF Waits, Moves
<1>9. CASE e.st = "S"
  <2>1. z = SendAll(w, e.sharers, "INV_REQ", a)
    BY <1>3, <1>9 DEF processNullifyReq
  <2>2. Asked(w, rest, a, q, e, rep, "INV_REQ", e.sharers)
    BY <1>1, <1>4, <1>5, <1>6, <1>7, <1>9 DEF Asked, MustAnswer, Blockers, Asks, EntryServed, Lasting
  <2>3. Waits(w, z, rest, a)
    BY <1>6, <2>1, <2>2, AskedAllRests
  <2> QED BY <2>3 DEF Waits, Moves
<1>10. CASE e.st = "U"
  <2> DEFINE v == Dropped(w, a)
             cond == a \in w.d.replaced
             u == Assert_(v, cond, "invalidateDirectoryEntry")
             p == Tail(q)
             ss == Out(w)
  <2>1. z = processNextReq(u, a)
    BY <1>3, <1>10 DEF processNullifyReq, Dropped
  <2>2. v = Dropped(w, a) /\ p = Tail(q) /\ ss = Out(w)
    OBVIOUS
  <2>3. u = Assert_(v, cond, "invalidateDirectoryEntry")
    OBVIOUS
  <2> HIDE DEF v, cond, u, p, ss
  <2>4. At(v, a, q, e, rep) /\ DropsOnly(w, v, a)
    BY <1>1, <2>2, DroppedSet
  <2>5. "invalidateDirectoryEntry" \in Failures
    BY DEF Failures
  <2>6. At(u, a, q, e, rep) /\ Apart(v, u, a) /\ Checked(v, u, cond)
    BY <2>3, <2>4, <2>5, AtAssert
  <2>7. At(z, a, p, e, rep) /\ Apart(u, z, a) /\ Finished(u, z, p)
    BY <1>1, <2>1, <2>2, <2>6, AtNext
  <2>8. u.err = NoFailure
    BY <2>7 DEF Finished
  <2>9. u = v
    BY <2>6, <2>8 DEF Checked
  <2>10. z.out = w.out /\ (z.next = TRUE <=> p # <<>>)
    BY <2>4, <2>7, <2>9 DEF Quiet, Finished, DropsOnly
  <2>11. Out(z) = ss
    BY <2>2, <2>10, OutSame
  <2>12. Lasting(a, q, e, ss, rest) /\ q \in Seq(DirReq)
    BY <1>1, <1>7, <2>2 DEF At
  <2>13. \A k \in Llcs : AskingIn(k, a, p, ss, rest)
    <3>1. /\ Head(q) = q[1]
          /\ \A i \in DOMAIN q : i # 1 => i - 1 \in DOMAIN p /\ q[i] = p[i - 1]
      BY <1>1, <2>2, <2>12, Popped
    <3>2. \A k \in Llcs : Queued(q, k) => Queued(p, k)
      BY <1>4, <3>1 DEF Queued
    <3> QED BY <2>12, <3>2 DEF Lasting, Remembered, AskingIn, Asking
  <2>14. Unbuffered(p)
    BY <1>1, <2>2, <2>12, TailUnbuffered DEF Lasting, Remembered
  <2>15. Lasting(a, p, e, ss, rest)
    BY <2>12, <2>13, <2>14 DEF Lasting, Remembered, Unbuffered, OthersUnbuffered
  <2>16. z.next = FALSE => FrontServed(a, p, e, rep, ss, rest)
    BY <2>10 DEF FrontServed
  <2> QED BY <2>7, <2>11, <2>14, <2>15, <2>16, RestsAt
<1> QED BY <1>1, <1>8, <1>9, <1>10

-----------------------------------------------------------------------------
(* A line whose messages are alike is served as before; and the lines that the   *)
(* directory does not work on are.                                          *)
ServedAt(z, rest, b) == LastingAt(z, rest, b) /\ FrontServedAt(z, rest, b)
OthersServed(z, rest, a) == \A b \in Addrs \ {a} : ServedAt(z, rest, b)
AllServed(z, rest) == \A b \in Addrs : ServedAt(z, rest, b)

LEMMA AlikeServes ==
  ASSUME NEW a, NEW ss, NEW rr, NEW zz, NEW yy, AlikeAll(ss, zz, a), AlikeAll(rr, yy, a),
         NEW q, NEW e, e.sharers \subseteq Llcs, NEW rep
  PROVE  /\ \A k \in Llcs : AwaitedIn(k, a, ss, rr) => AwaitedIn(k, a, zz, yy)
         /\ Lasting(a, q, e, ss, rr) => Lasting(a, q, e, zz, yy)
         /\ FrontServed(a, q, e, rep, ss, rr) => FrontServed(a, q, e, rep, zz, yy)
<1>1. ASSUME NEW k \in Llcs PROVE AwaitedIn(k, a, ss, rr) => AwaitedIn(k, a, zz, yy)
  <2> DEFINE s == ss[k]
             z == zz[k]
             copy == cache[k][a].st # "I"
  <2>1. Alike(s, z, a) /\ copy \in BOOLEAN
    BY DEF AlikeAll
  <2>2. Has(yy[k], Answering, a) <=> Has(rr[k], Answering, a)
    BY DEF AlikeAll, Alike
  <2> HIDE DEF s, z, copy
  <2>3. Live(z, Asks, a, copy) <=> Live(s, Asks, a, copy)
    BY <2>1, AlikeLive
  <2> QED BY <2>2, <2>3 DEF AwaitedIn, Awaited, s, z, copy
<1>2. \A k \in Llcs : AskingIn(k, a, q, ss, rr) => AskingIn(k, a, q, zz, yy)
  BY DEF AskingIn, Asking, AlikeAll, Alike
<1>3. Lasting(a, q, e, ss, rr) => Lasting(a, q, e, zz, yy)
  BY <1>2 DEF Lasting, Remembered
<1>4. FrontServed(a, q, e, rep, ss, rr) => FrontServed(a, q, e, rep, zz, yy)
  BY <1>1 DEF FrontServed, Blockers
<1> QED BY <1>1, <1>3, <1>4

LEMMA SameServes ==
  ASSUME NEW w, NEW z, NEW b \in Addrs, NEW rest, NEW rr2, w \in Works,
         z.d.q[b] = w.d.q[b], z.d.e[b] = w.d.e[b], z.d.reply[b] = w.d.reply[b],
         NEW ss, ss = Out(w), NEW zz, zz = Out(z), AlikeAll(ss, zz, b), AlikeAll(rest, rr2, b)
  PROVE  /\ LastingAt(w, rest, b) => LastingAt(z, rr2, b)
         /\ FrontServedAt(w, rest, b) => FrontServedAt(z, rr2, b)
<1> DEFINE q == w.d.q[b]
           e == w.d.e[b]
           rep == w.d.reply[b]
<1>1. e.sharers \subseteq Llcs
  BY FieldTypes DEF DirEntry
<1>2. /\ LastingAt(w, rest, b) <=> Lasting(b, q, e, ss, rest)
      /\ FrontServedAt(w, rest, b) <=> FrontServed(b, q, e, rep, ss, rest)
      /\ LastingAt(z, rr2, b) <=> Lasting(b, q, e, zz, rr2)
      /\ FrontServedAt(z, rr2, b) <=> FrontServed(b, q, e, rep, zz, rr2)
  BY DEF LastingAt, FrontServedAt
<1> HIDE DEF q, e, rep
<1> QED BY <1>1, <1>2, AlikeServes

LEMMA OthersStay ==
  ASSUME NEW w \in Works, NEW z, NEW a, NEW rest, OnlyAt(w, z, a), OthersServed(w, rest, a)
  PROVE  OthersServed(z, rest, a)
<1>1. ASSUME NEW b \in Addrs \ {a} PROVE ServedAt(z, rest, b)
  <2> DEFINE ss == Out(w)
             zz == Out(z)
  <2>1. /\ z.d.q[b] = w.d.q[b] /\ z.d.e[b] = w.d.e[b] /\ z.d.reply[b] = w.d.reply[b]
        /\ ss = Out(w) /\ zz = Out(z) /\ AlikeAll(ss, zz, b)
    BY DEF OnlyAt, AlikeAll
  <2>2. AlikeAll(rest, rest, b)
    BY AlikeSelf DEF AlikeAll
  <2> HIDE DEF ss, zz
  <2>3. ServedAt(w, rest, b)
    BY DEF OthersServed
  <2> QED BY <2>1, <2>2, <2>3, SameServes DEF ServedAt
<1> QED BY <1>1 DEF OthersServed

(* An entry is claimed: nothing is lost. *)
LEMMA GotServes ==
  ASSUME NEW w, NEW rest, NEW a, NEW q, NEW e, NEW rep, Fine(w, rest), At(w, a, q, e, rep),
         NEW z, NEW f, Got(w, z, a, q, e, rep, f)
  PROVE  /\ EntryServed(e) => EntryServed(f)
         /\ LastingAt(w, rest, a) => LastingAt(z, rest, a)
         /\ FrontServedAt(w, rest, a) => FrontServedAt(z, rest, a)
         /\ OthersServed(w, rest, a) => OthersServed(z, rest, a)
<1> DEFINE known == HasEntry(w, a)
           ss == Out(w)
<1>1. known = HasEntry(w, a) /\ ss = Out(w)
  OBVIOUS
<1> HIDE DEF known, ss
<1>2. LineAt(w, rest, a, q, e, rep, known, ss)
  BY <1>1, FineLine
<1>3. ~known => e.st = "U"
  BY <1>2 DEF LineAt, LineOK, LineInv
<1>4. /\ At(z, a, q, f, rep) /\ f.st = e.st /\ f.sharers = e.sharers /\ Quiet(w, z)
      /\ OthersAs(w, z, a) /\ (known => f = e)
  BY <1>1 DEF Got, Blank
<1>5. Out(z) = ss
  BY <1>1, <1>4, OutSame DEF Quiet
<1>6. EntryServed(e) => EntryServed(f)
  BY <1>3, <1>4 DEF EntryServed
<1>7. LastingAt(w, rest, a) => LastingAt(z, rest, a)
  BY <1>1, <1>4, <1>5, <1>6 DEF LastingAt, Lasting, At
<1>8. FrontServedAt(w, rest, a) => FrontServedAt(z, rest, a)
  <2>1. Blockers(q, f) = Blockers(q, e)
    BY <1>4 DEF Blockers
  <2>2. FrontServed(a, q, e, rep, ss, rest) => FrontServed(a, q, f, rep, ss, rest)
    BY <2>1 DEF FrontServed
  <2> QED BY <1>1, <1>4, <1>5, <2>2 DEF FrontServedAt, At
<1>9. OthersServed(w, rest, a) => OthersServed(z, rest, a)
  <2>1. \A b \in Addrs \ {a} : ServedAt(w, rest, b) => ServedAt(z, rest, b)
    BY <1>1, <1>4, <1>5 DEF OthersAs, ServedAt, LastingAt, FrontServedAt
  <2> QED BY <2>1 DEF OthersServed
<1> QED BY <1>6, <1>7, <1>8, <1>9

(* Entry v makes room for a: it has one request, nobody else's.                 *)
LEMMA ReplacedServes ==
  ASSUME NEW w, NEW rest, NEW a, NEW q, NEW e, NEW rep, Fine(w, rest), At(w, a, q, e, rep),
         ~HasEntry(w, a), LastingAt(w, rest, a), OthersServed(w, rest, a),
         NEW v \in Replaceable(w), NEW x, x = Replace(w, v, a)
  PROVE  /\ LastingAt(x, rest, v) /\ LastingAt(x, rest, a)
         /\ \A b \in Addrs \ {a} : b # v => ServedAt(x, rest, b)
<1> DEFINE f == NewEntry(w.d.junk)
           p == Append(<<>>, Nullify)
           g == w.d.e[v]
           ss == Out(w)
<1>1. f = NewEntry(w.d.junk) /\ p = Append(<<>>, Nullify) /\ g = w.d.e[v] /\ ss = Out(w)
  OBVIOUS
<1>2. \A i \in DOMAIN p : i = 1
  OBVIOUS
<1> HIDE DEF f, p, g, ss
<1>3. w \in Works /\ a \in Addrs /\ w.d \in Directory
  BY FieldTypes DEF At
<1>4. v \in w.d.slots /\ w.d.q[v] = <<>> /\ v \in Addrs /\ v # a
  BY <1>3 DEF Replaceable, HasEntry, Directory
<1>5. ReplacesOnly(w, x, v, a, f)
  BY <1>1, <1>3, <1>4, ReplaceSet
<1>6. /\ x.d.q[v] = p /\ x.d.e[v] = g /\ x.d.q[a] = q /\ x.d.e[a] = f /\ f.st = "U"
      /\ Quiet(w, x) /\ x.d.reply = w.d.reply
  BY <1>1, <1>3, <1>4, <1>5 DEF ReplacesOnly, At
<1>7. Out(x) = ss
  BY <1>1, <1>6, OutSame DEF Quiet
<1>8. LastingAt(x, rest, v)
  <2>1. ServedAt(w, rest, v)
    BY <1>4 DEF OthersServed
  <2>2. Lasting(v, <<>>, g, ss, rest)
    BY <1>1, <1>4, <2>1 DEF ServedAt, LastingAt
  <2>3. \A k : Queued(<<>>, k) => Queued(p, k)
    BY DEF Queued
  <2>4. Lasting(v, p, g, ss, rest)
    BY <1>2, <2>2, <2>3 DEF Lasting, Remembered, OthersUnbuffered, AskingIn, Asking
  <2> QED BY <1>6, <1>7, <2>4 DEF LastingAt
<1>9. LastingAt(x, rest, a)
  <2>1. Lasting(a, q, e, ss, rest)
    BY <1>1 DEF LastingAt, At
  <2>2. Lasting(a, q, f, ss, rest)
    BY <1>6, <2>1 DEF Lasting, EntryServed
  <2> QED BY <1>6, <1>7, <2>2 DEF LastingAt
<1>10. ASSUME NEW b \in Addrs \ {a}, b # v PROVE ServedAt(x, rest, b)
  <2>1. x.d.q[b] = w.d.q[b] /\ x.d.e[b] = w.d.e[b] /\ x.d.reply[b] = w.d.reply[b]
    BY <1>5, <1>10 DEF ReplacesOnly
  <2>2. ServedAt(w, rest, b)
    BY DEF OthersServed
  <2> QED BY <1>1, <1>7, <2>1, <2>2 DEF ServedAt, LastingAt, FrontServedAt
<1> QED BY <1>8, <1>9, <1>10

LEMMA EntryThereServes ==
  ASSUME NEW w, NEW rest, NEW a, NEW q, NEW e, NEW rep, Fine(w, rest), At(w, a, q, e, rep),
         w.next = FALSE, sys \in Systems, LastingAt(w, rest, a), OthersServed(w, rest, a),
         NEW z, z = WithEntry(w, a), z.err = NoFailure
  PROVE  LastingAt(z, rest, a) /\ OthersServed(z, rest, a)
<1> DEFINE y == getDirectoryEntry(w, a)
<1>1. y = getDirectoryEntry(w, a) /\ z = OrAllocate(y, a)
  BY DEF WithEntry
<1> HIDE DEF y
<1>2. Fine(y, rest) /\ \E f : Got(w, y, a, q, e, rep, f)
  BY <1>1, EntryGot
<1>3. PICK f : Got(w, y, a, q, e, rep, f)
  BY <1>2
<1>4. At(y, a, q, f, rep) /\ Quiet(w, y)
      /\ (~HasEntry(y, a) => y = w /\ Cardinality(w.d.slots) >= DirWays)
  BY <1>3 DEF Got
<1>5. y.next = FALSE
  BY <1>4 DEF Quiet
<1>6. LastingAt(y, rest, a) /\ OthersServed(y, rest, a)
  BY <1>3, GotServes
<1>7. CASE HasEntry(y, a)
  <2>1. z = y
    BY <1>1, <1>7 DEF OrAllocate
  <2> QED BY <1>6, <2>1
<1>8. CASE ~HasEntry(y, a)
  <2> DEFINE cs == Candidates(y)
             v == IF y.victim \in cs THEN y.victim ELSE CHOOSE x \in cs : TRUE
             x == Replace(y, v, a)
  <2>1. z = processDirectoryEntryAllocationReq(y, a)
    BY <1>1, <1>8 DEF OrAllocate
  <2>2. cs # {}
    <3>1. ASSUME cs = {} PROVE FALSE
      <4>1. z = Assert_(y, FALSE, "no directory entry to be replaced")
        BY <2>1, <3>1 DEF processDirectoryEntryAllocationReq
      <4>2. "no directory entry to be replaced" \in Failures
        BY DEF Failures
      <4>3. Checked(y, z, FALSE)
        BY <1>4, <4>1, <4>2, AtAssert
      <4> QED BY <4>3 DEF Checked
    <3> QED BY <3>1
  <2>3. z = processNullifyReq(x, v) /\ x = Replace(y, v, a)
    BY <2>1, <2>2 DEF processDirectoryEntryAllocationReq
  <2>4. v \in Replaceable(y)
    BY <2>2 DEF Candidates
  <2> HIDE DEF cs, v, x
  <2>5. ToNullify(x, rest, v) /\ RoomMade(y, x, v, a, q, f, rep)
    <3>1. Cardinality(y.d.slots) >= DirWays
      BY <1>4, <1>8
    <3> QED BY <1>2, <1>4, <1>5, <1>8, <2>3, <2>4, <3>1, Replaced
  <2>6. PICK p, g, new : Ready(x, rest, v, p, g, new) /\ Head(p).t = "NULLIFY_REQ" /\ Tail(p) = <<>>
    BY <2>5 DEF ToNullify
  <2>7. PICK h : At(x, a, q, h, rep) /\ Blank(h, f) /\ Quiet(y, x) /\ a \in x.d.slots /\ a # v
    BY <2>5 DEF RoomMade
  <2>8. Goes(z, rest, v) /\ Nullified(x, z, v, p)
    BY <2>3, <2>6, NullifyDone
  <2>9. OnlyAt(x, z, v) /\ z.next # TRUE /\ z \in Works /\ x \in Works /\ a \in Addrs /\ v \in Addrs
    BY <2>6, <2>7, <2>8 DEF Nullified, Goes, Fine, At, Ready
  <2>10. z.next = FALSE
    BY <2>9 DEF Works
  <2>11. /\ LastingAt(x, rest, v) /\ LastingAt(x, rest, a)
         /\ \A b \in Addrs \ {a} : b # v => ServedAt(x, rest, b)
    BY <1>2, <1>4, <1>6, <1>8, <2>3, <2>4, ReplacedServes
  <2>12. ServedAt(z, rest, v)
    <3>1. Rests(z, rest, v)
      BY <2>3, <2>6, <2>11, NullifyRests
    <3> QED BY <2>10, <3>1 DEF Rests, ServedAt
  <2>13. ASSUME NEW b \in Addrs, b # v
         PROVE  /\ LastingAt(x, rest, b) => LastingAt(z, rest, b)
                /\ FrontServedAt(x, rest, b) => FrontServedAt(z, rest, b)
    <3> DEFINE ss == Out(x)
               zz == Out(z)
    <3>1. /\ z.d.q[b] = x.d.q[b] /\ z.d.e[b] = x.d.e[b] /\ z.d.reply[b] = x.d.reply[b]
          /\ ss = Out(x) /\ zz = Out(z) /\ AlikeAll(ss, zz, b)
      BY <2>9, <2>13 DEF OnlyAt, AlikeAll
    <3>2. AlikeAll(rest, rest, b)
      BY AlikeSelf DEF AlikeAll
    <3> HIDE DEF ss, zz
    <3> QED BY <2>9, <3>1, <3>2, SameServes
  <2>14. LastingAt(z, rest, a)
    BY <2>7, <2>9, <2>11, <2>13
  <2>15. OthersServed(z, rest, a)
    BY <2>11, <2>12, <2>13 DEF OthersServed, ServedAt
  <2> QED BY <2>14, <2>15
<1> QED BY <1>7, <1>8

-----------------------------------------------------------------------------
(* The next request is started, and the one after it at most.                   *)
LEMMA StartedServes ==
  ASSUME NEW w, NEW rest, NEW a, NEW q, NEW e, NEW rep, Fine(w, rest), At(w, a, q, e, rep),
         Restart(w, rest, a), sys \in Systems, LastingAt(w, rest, a), Unbuffered(q),
         OthersServed(w, rest, a), NEW z, z = StartReq(w, a), z.err = NoFailure
  PROVE  /\ Rests(z, rest, a) /\ OthersServed(z, rest, a)
         /\ z.next = TRUE => Upgrades(z, a, q, e)
<1> DEFINE x == [w EXCEPT !.next = FALSE]
           y == WithEntry(x, a)
<1>1. x = [w EXCEPT !.next = FALSE] /\ y = WithEntry(x, a)
      /\ z = IF y.err # NoFailure THEN y ELSE processFront(y, a)
  BY DEF StartReq
<1> HIDE DEF x, y
<1>2. w \in Works /\ q = w.d.q[a] /\ q # <<>> /\ ~Granted(q) /\ Calm(w, rest, a) /\ q \in Seq(DirReq)
  BY DEF At, Restart
<1>3. Kept(w, x) /\ x.d = w.d /\ x.out = w.out /\ x.err = w.err /\ x.next = FALSE
  BY <1>1, <1>2, NextSet
<1>4. At(x, a, q, e, rep) /\ Out(x) = Out(w)
  BY <1>3, AtSame, OutSame
<1>5. Fine(x, rest)
  BY <1>3, <1>4 DEF Fine, FineAt, Kept, HasEntry
<1>6. Calm(x, rest, a)
  BY <1>2, <1>4 DEF Calm
<1>7. y.err = NoFailure /\ z = processFront(y, a)
  <2>1. y.err # NoFailure => z = y
    BY <1>1
  <2> QED BY <1>1, <2>1
<1>8. LastingAt(x, rest, a) /\ OthersServed(x, rest, a)
  BY <1>3, <1>4 DEF LastingAt, OthersServed, ServedAt, FrontServedAt
<1>9. Entered(x, y, rest, a, q, e, rep)
  BY <1>1, <1>3, <1>4, <1>5, <1>7, EntryThere
<1>10. LastingAt(y, rest, a) /\ OthersServed(y, rest, a)
  BY <1>1, <1>3, <1>4, <1>5, <1>7, <1>8, EntryThereServes
<1>11. PICK f : At(y, a, q, f, rep) /\ Blank(f, e)
  BY <1>9 DEF Entered
<1>12. Fine(y, rest) /\ HasEntry(y, a) /\ y.next = FALSE /\ Calm(y, rest, a) /\ y \in Works
  BY <1>6, <1>9 DEF Entered, Fine
<1>13. Ready(y, rest, a, q, f, rep)
  BY <1>2, <1>11, <1>12 DEF Ready, Granted
<1>14. FrontReq(y, a) = Head(q)
  BY <1>11, AtFront
<1>15. Head(q).t \in {"EX_REQ", "SH_REQ", "UPGRADE_REQ", "NULLIFY_REQ"} /\ NoData \in Data
  <2>1. Head(q) \in DirReq
    BY <1>2, Popped
  <2> QED BY <2>1 DEF DirReq, Reqs, Data
<1>16. Head(q).buf = NoData
  BY <1>2, Popped DEF Unbuffered
<1>17. Goal(y, z, rest, a, q, f, NoData)
  <2>1. CASE Head(q).t = "EX_REQ"
    <3>1. z = processExReq(y, a, NoData)
      BY <1>7, <1>14, <2>1 DEF processFront
    <3> QED BY <1>10, <1>13, <1>15, <2>1, <3>1, ExRests
  <2>2. CASE Head(q).t = "SH_REQ"
    <3>1. z = processShReq(y, a, NoData)
      BY <1>7, <1>14, <2>2 DEF processFront
    <3>2. RememberedAt(y, rest, a) /\ Writable(f, NoData)
      BY <1>10, <1>11 DEF LastingAt, Lasting, RememberedAt, Writable, At
    <3>3. MaxHwSharers \in Nat
      BY DirectoryAssumption DEF MaxHwSharers
    <3> QED BY <1>13, <1>15, <2>2, <3>1, <3>2, <3>3, ShRests
  <2>3. CASE Head(q).t = "UPGRADE_REQ"
    <3>1. z = processUpgradeReq(y, a, NoData)
      BY <1>7, <1>14, <2>3 DEF processFront
    <3> QED BY <1>10, <1>13, <1>15, <2>3, <3>1, UpRests
  <2>4. CASE Head(q).t = "NULLIFY_REQ"
    <3>1. z = Assert_(y, FALSE, "Unrecognized Request")
      BY <1>7, <1>14, <2>4 DEF processFront
    <3>2. "Unrecognized Request" \in Failures
      BY DEF Failures
    <3>3. Checked(y, z, FALSE)
      BY <1>11, <3>1, <3>2, AtAssert
    <3> QED BY <3>3 DEF Checked
  <2> QED BY <1>15, <2>1, <2>2, <2>3, <2>4
<1>18. OnlyAt(y, z, a) /\ Rests(z, rest, a) /\ (z.next = TRUE => Upgrades(z, a, q, f))
  BY <1>16, <1>17 DEF Goal, Moves
<1>19. OthersServed(z, rest, a)
  BY <1>10, <1>12, <1>18, OthersStay
<1>20. Upgrades(z, a, q, f) => Upgrades(z, a, q, e)
  BY <1>11 DEF Blank, Upgrades
<1> QED BY <1>18, <1>19, <1>20

(* processNextReqFromL2Cache: everybody waits for something again.              *)
LEMMA SettledServes ==
  ASSUME NEW w, NEW rest, NEW a, NEW q, NEW e, NEW rep, Goes(w, rest, a), At(w, a, q, e, rep),
         sys \in Systems, Rests(w, rest, a), OthersServed(w, rest, a),
         NEW z, z = Settle(w, a), z.err = NoFailure
  PROVE  AllServed(z, rest)
<1> DEFINE first == StartReq(w, a)
<1>1. first = StartReq(w, a)
  OBVIOUS
<1>2. w.next \in BOOLEAN /\ a \in Addrs /\ q \in Seq(DirReq) /\ w.d.q[a] = q /\ w.err = NoFailure
  BY SettledErr DEF At, Works
<1>3. ASSUME NEW y, y.next = FALSE, Rests(y, rest, a), OthersServed(y, rest, a)
      PROVE  AllServed(y, rest)
  <2>1. ServedAt(y, rest, a)
    BY <1>3 DEF Rests, ServedAt
  <2> QED BY <1>3, <2>1 DEF AllServed, OthersServed
<1>4. CASE w.next = FALSE
  <2>1. z = w
    BY <1>4 DEF Settle, GoesOn
  <2> QED BY <1>3, <1>4, <2>1
<1>5. CASE w.next = TRUE
  <2>1. z = IF GoesOn(first) THEN StartReq(first, a) ELSE first
    BY <1>2, <1>5 DEF Settle, GoesOn
  <2>2. Fine(w, rest) /\ Restart(w, rest, a)
    BY <1>5 DEF Goes
  <2>3. LastingAt(w, rest, a) /\ Unbuffered(q)
    BY <1>2, <1>5 DEF Rests
  <2> HIDE DEF first
  <2>4. first.err = NoFailure
    BY <2>1 DEF GoesOn
  <2>5. Goes(first, rest, a)
    BY <1>1, <2>2, <2>4, Started
  <2>6. /\ Rests(first, rest, a) /\ OthersServed(first, rest, a)
        /\ first.next = TRUE => Upgrades(first, a, q, e)
    BY <1>1, <2>2, <2>3, <2>4, StartedServes
  <2>7. first \in Works
    BY <2>5 DEF Goes, Fine
  <2>8. CASE first.next = TRUE
    <3> DEFINE p == first.d.q[a]
               f == first.d.e[a]
               new == first.d.reply[a]
    <3>1. Fine(first, rest)
      BY <2>5 DEF Goes
    <3>2. At(first, a, p, f, new)
      BY <1>2, <2>7, FieldTypes DEF At
    <3>3. Restart(first, rest, a)
      BY <2>5, <2>8 DEF Goes
    <3>4. z = StartReq(first, a)
      BY <2>1, <2>4, <2>8 DEF GoesOn
    <3>5. p = Tail(q) /\ f.sharers = {Head(q).c}
      BY <2>6, <2>8 DEF Upgrades
    <3>6. LastingAt(first, rest, a) /\ Unbuffered(p)
      BY <2>6, <2>8 DEF Rests
    <3>7. p # <<>> /\ q # <<>>
      BY <1>2, <2>2, <3>3 DEF Restart
    <3> HIDE DEF p, f, new
    <3>8. /\ Rests(z, rest, a) /\ OthersServed(z, rest, a)
          /\ z.next = TRUE => Upgrades(z, a, p, f)
      BY <2>6, <3>1, <3>2, <3>3, <3>4, <3>6, StartedServes
    <3>9. ~Upgrades(z, a, p, f)
      <4>1. Head(p) = q[2] /\ Head(q) = q[1] /\ 1 \in DOMAIN q /\ 2 \in DOMAIN q
        <5>1. /\ Head(q) = q[1] /\ 1 \in DOMAIN q /\ p \in Seq(DirReq)
              /\ \A i \in DOMAIN p : i + 1 \in DOMAIN q /\ p[i] = q[i + 1]
          BY <1>2, <3>5, <3>7, Popped
        <5>2. Head(p) = p[1] /\ 1 \in DOMAIN p
          BY <3>7, <5>1, Popped
        <5> QED BY <5>1, <5>2
      <4>2. Head(q).c \in Llcs
        <5>1. f \in DirEntry
          BY <3>2 DEF At
        <5> QED BY <3>5, <5>1 DEF DirEntry
      <4>3. Unique(q, Head(q).c)
        <5> DEFINE known == HasEntry(w, a)
                   ss == Out(w)
        <5>1. LineAt(w, rest, a, q, e, rep, known, ss)
          BY <2>2, FineLine
        <5> QED BY <4>2, <5>1 DEF LineAt, LineOK, PairInv, OneRequest
      <4>4. Head(p).c # Head(q).c
        BY <4>1, <4>3 DEF Unique
      <4> QED BY <3>5, <4>4 DEF Upgrades
    <3>10. z.next = FALSE
      <4>1. Goes(z, rest, a)
        <5>1. z.err = NoFailure
          OBVIOUS
        <5> QED BY <3>1, <3>2, <3>3, <3>4, <5>1, Started
      <4>2. z.next \in BOOLEAN
        BY <4>1 DEF Goes, Fine, Works
      <4> QED BY <3>8, <3>9, <4>2
    <3> QED BY <1>3, <3>8, <3>10
  <2>9. CASE first.next = FALSE
    <3>1. z = first
      BY <2>1, <2>9 DEF GoesOn
    <3> QED BY <1>3, <2>6, <2>9, <3>1
  <2>10. first.next \in BOOLEAN
    BY <2>7 DEF Works
  <2> QED BY <2>8, <2>9, <2>10
<1> QED BY <1>2, <1>4, <1>5

-----------------------------------------------------------------------------
(* A message about the line has been taken: nobody else has, and its sender has    *)
(* not lost what it has to do with the message.                              *)
LEMMA TakenServes ==
  ASSUME NEW a, NEW ss, NEW rr \in [Llcs -> Seq(ToDirMsg)], NEW rr2, NEW d \in Llcs, Taken(rr, rr2, d),
         rr[d] # <<>>, NEW m, m = Head(rr[d]), NEW k \in Llcs
  PROVE  /\ AwaitedIn(k, a, ss, rr) /\ (k = d => m.t \notin Answering) => AwaitedIn(k, a, ss, rr2)
         /\ \A p : AskingIn(k, a, p, ss, rr) /\ (k = d => m.t \notin Reqs) => AskingIn(k, a, p, ss, rr2)
<1>1. ASSUME NEW T, Has(rr[k], T, a), k = d => m.t \notin T PROVE Has(rr2[k], T, a)
  <2>1. CASE k = d
    <3> DEFINE s == rr[k]
    <3>1. rr2[k] = Tail(s) /\ s # <<>> /\ s \in Seq(ToDirMsg) /\ m = Head(s) /\ Has(s, T, a)
      BY <1>1, <2>1 DEF Taken
    <3> HIDE DEF s
    <3>2. Has(s, T, a) <=> On(Head(s), T, a) \/ Has(Tail(s), T, a)
      BY <3>1, PopHas
    <3> QED BY <1>1, <2>1, <3>1, <3>2 DEF On
  <2>2. CASE k # d
    BY <1>1, <2>2 DEF Taken
  <2> QED BY <2>1, <2>2
<1> QED BY <1>1 DEF AwaitedIn, Awaited, AskingIn, Asking

LEMMA OthersTaken ==
  ASSUME NEW w \in Works, NEW a, NEW rr \in [Llcs -> Seq(ToDirMsg)], NEW rr2, NEW d \in Llcs,
         Taken(rr, rr2, d), rr[d] # <<>>, Head(rr[d]).a = a, OthersServed(w, rr, a)
  PROVE  OthersServed(w, rr2, a)
<1>1. ASSUME NEW b \in Addrs \ {a} PROVE ServedAt(w, rr2, b)
  <2> DEFINE ss == Out(w)
  <2>1. ss = Out(w) /\ AlikeAll(ss, ss, b)
    BY AlikeSelf DEF AlikeAll
  <2>2. AlikeAll(rr, rr2, b)
    <3>1. ASSUME NEW k \in Llcs PROVE Alike(rr[k], rr2[k], b)
      <4>1. CASE k = d
        <5>1. rr2[k] = Tail(rr[k]) /\ rr[k] \in Seq(ToDirMsg) /\ rr[k] # <<>> /\ Head(rr[k]).a # b
          BY <4>1 DEF Taken
        <5> QED BY <5>1, PopOther
      <4>2. CASE k # d
        <5>1. rr2[k] = rr[k]
          BY <4>2 DEF Taken
        <5> QED BY <5>1, AlikeSelf
      <4> QED BY <4>1, <4>2
    <3> QED BY <3>1 DEF AlikeAll
  <2> HIDE DEF ss
  <2>3. ServedAt(w, rr, b)
    BY DEF OthersServed
  <2> QED BY <2>1, <2>2, <2>3, SameServes DEF ServedAt
<1> QED BY <1>1 DEF OthersServed

(* A request joins the queue. *)
LEMMA QueueFills ==
  ASSUME NEW q \in Seq(DirReq), NEW y \in DirReq, y.buf = NoData, NEW p, p = Append(q, y)
  PROVE  /\ OthersUnbuffered(q) => OthersUnbuffered(p)
         /\ q = <<>> => Unbuffered(p)
<1>1. /\ DOMAIN p = DOMAIN q \union {Len(q) + 1} /\ p[Len(q) + 1] = y
      /\ \A i \in DOMAIN q : p[i] = q[i]
  BY Pushed
<1>2. q = <<>> => DOMAIN q = {}
  OBVIOUS
<1> QED BY <1>1, <1>2 DEF OthersUnbuffered, Unbuffered
LEMMA LinedUp ==
  ASSUME NEW a, NEW q \in Seq(DirReq), NEW f, NEW rep, NEW ss, NEW rr \in [Llcs -> Seq(ToDirMsg)], NEW rr2,
         NEW d \in Llcs, Taken(rr, rr2, d), rr[d] # <<>>, NEW m, m = Head(rr[d]), m.t \in Reqs,
         NEW x \in DirReq, ~x.wait, x.from = NoCore, x.buf = NoData, x.c = d, NEW p, p = Append(q, x),
         f.sharers \subseteq Llcs, Lasting(a, q, f, ss, rr)
  PROVE  /\ Lasting(a, p, f, ss, rr2)
         /\ q # <<>> /\ FrontServed(a, q, f, rep, ss, rr) => FrontServed(a, p, f, rep, ss, rr2)
<1>1. /\ p \in Seq(DirReq) /\ p # <<>> /\ (Granted(p) <=> Granted(q))
      /\ q # <<>> => Head(p) = Head(q)
      /\ \A k : Queued(p, k) <=> Queued(q, k) \/ x.c = k
  BY QueuePushed
<1>2. m.t \notin Answering
  BY AsksAre
<1>3. \A k \in Llcs : AwaitedIn(k, a, ss, rr) => AwaitedIn(k, a, ss, rr2)
  BY <1>2, TakenServes
<1>4. ASSUME NEW k \in Llcs PROVE AskingIn(k, a, p, ss, rr2)
  <2>1. CASE k = d
    BY <1>1, <2>1 DEF AskingIn, Asking
  <2>2. CASE k # d
    <3>1. AskingIn(k, a, q, ss, rr)
      BY DEF Lasting, Remembered
    <3>2. AskingIn(k, a, q, ss, rr2)
      BY <2>2, <3>1, TakenServes
    <3> QED BY <1>1, <3>2 DEF AskingIn, Asking
  <2> QED BY <2>1, <2>2
<1>5. OthersUnbuffered(p)
  BY QueueFills DEF Lasting, Remembered
<1>6. Lasting(a, p, f, ss, rr2)
  BY <1>4, <1>5 DEF Lasting, Remembered
<1>7. q # <<>> => Blockers(p, f) = Blockers(q, f) /\ Blockers(q, f) \subseteq Llcs
  BY <1>1 DEF Blockers
<1>8. q # <<>> /\ FrontServed(a, q, f, rep, ss, rr) => FrontServed(a, p, f, rep, ss, rr2)
  BY <1>1, <1>3, <1>7 DEF FrontServed
<1> QED BY <1>6, <1>8

LEMMA EnqueuedServes ==
  ASSUME NEW w, NEW rr, NEW rr2, NEW d, NEW a, NEW q, NEW e, NEW rep,
         Arriving(w, rr, rr2, d, a, q, e, rep), AllServed(w, rr), NEW m, m = Head(rr[d]), m.t \in Reqs,
         sys \in Systems, NEW z, z = EnqueueReq(w, d, m), z.err = NoFailure
  PROVE  Rests(z, rr2, a) /\ OthersServed(z, rr2, a)
<1> DEFINE x == Request(m.t, d)
           y == getDirectoryEntry(w, a)
           p == Append(q, x)
           v == SetQ(y, a, p)
           ss == Out(y)
<1>1. /\ Fine(w, rr) /\ At(w, a, q, e, rep) /\ w.next = FALSE /\ d \in Llcs
      /\ rr2 \in [Llcs -> Seq(ToDirMsg)] /\ Taken(rr, rr2, d)
      /\ rr[d] # <<>> /\ m \in ToDirMsg /\ m.a = a
  BY DEF Arriving
<1>2. x \in DirReq /\ ~x.wait /\ x.from = NoCore /\ x.buf = NoData /\ x.c = d /\ x.t = m.t
  BY <1>1 DEF Request, DirReq, Cores, Data, Reqs
<1>3. y = getDirectoryEntry(w, a) /\ p = Append(q, x) /\ v = SetQ(y, a, p) /\ ss = Out(y)
  OBVIOUS
<1>4. Fine(y, rr) /\ \E f : Got(w, y, a, q, e, rep, f)
  BY <1>1, <1>3, EntryGot
<1>5. PICK f : Got(w, y, a, q, e, rep, f)
  BY <1>4
<1>6. At(y, a, q, f, rep) /\ Quiet(w, y)
  BY <1>5 DEF Got
<1>7. y.d.q[a] = q /\ w.d.q[a] = q /\ q \in Seq(DirReq) /\ a \in Addrs /\ f.sharers \subseteq Llcs
  BY <1>1, <1>6 DEF At, DirEntry
<1>8. z = IF q = <<>> THEN StartReq(v, a) ELSE v
  BY <1>1, <1>7 DEF EnqueueReq, SetQ
<1> HIDE DEF x, y, p, v, ss
<1>9. p \in Seq(DirReq) /\ p # <<>> /\ (Granted(p) <=> Granted(q))
  BY <1>2, <1>3, <1>7, QueuePushed
<1>10. At(v, a, p, f, rep) /\ Apart(y, v, a) /\ Quiet(y, v)
  BY <1>3, <1>6, <1>9, AtQueue
<1>11. LastingAt(w, rr, a) /\ FrontServedAt(w, rr, a) /\ OthersServed(w, rr, a)
  BY <1>7 DEF AllServed, ServedAt, OthersServed
<1>12. LastingAt(y, rr, a) /\ FrontServedAt(y, rr, a) /\ OthersServed(y, rr, a)
  BY <1>1, <1>5, <1>11, GotServes
<1>13. rr \in [Llcs -> Seq(ToDirMsg)] /\ y \in Works /\ v \in Works
  BY <1>1, <1>4, <1>10 DEF Fine, At
<1>14. Lasting(a, q, f, ss, rr) /\ FrontServed(a, q, f, rep, ss, rr)
  BY <1>3, <1>6, <1>12 DEF LastingAt, FrontServedAt, At
<1>15. /\ Lasting(a, p, f, ss, rr2)
       /\ q # <<>> /\ FrontServed(a, q, f, rep, ss, rr) => FrontServed(a, p, f, rep, ss, rr2)
  BY <1>1, <1>2, <1>3, <1>7, <1>13, <1>14, LinedUp
<1>16. Out(v) = ss
  BY <1>3, <1>10, OutSame DEF Quiet
<1>17. OnlyAt(y, v, a)
  BY <1>10, ApartOnly DEF Quiet
<1>18. OthersServed(v, rr2, a)
  <2>1. OthersServed(v, rr, a)
    BY <1>12, <1>13, <1>17, OthersStay
  <2>2. Head(rr[d]).a = a
    BY <1>1
  <2> QED BY <1>1, <1>13, <2>1, <2>2, OthersTaken
<1>19. CASE q # <<>>
  <2>1. z = v /\ z.next = FALSE
    BY <1>1, <1>6, <1>8, <1>10, <1>19 DEF Quiet
  <2>2. FrontServed(a, p, f, rep, ss, rr2)
    BY <1>14, <1>15, <1>19
  <2>3. Rests(z, rr2, a)
    BY <1>10, <1>15, <1>16, <2>1, <2>2, RestsAt
  <2> QED BY <1>18, <2>1, <2>3
<1>20. CASE q = <<>>
  <2>1. z = StartReq(v, a)
    BY <1>8, <1>20
  <2>2. Unbuffered(p)
    BY <1>2, <1>3, <1>7, <1>20, QueueFills
  <2>3. LastingAt(v, rr2, a)
    BY <1>10, <1>15, <1>16 DEF LastingAt, At
  <2> DEFINE known == HasEntry(y, a)
  <2>4. known = HasEntry(y, a)
    OBVIOUS
  <2> HIDE DEF known
  <2>5. LineAt(y, rr, a, q, f, rep, known, ss)
    BY <1>3, <1>4, <1>6, <2>4, FineLine
  <2>6. LineOK(a, q, f, rep, known, ss, rr)
    BY <2>5 DEF LineAt
  <2>7. LineOK(a, p, f, rep, known, ss, rr2)
    <3>1. /\ x.c \in Llcs /\ rr[x.c] # <<>> /\ Head(rr[x.c]).a = a /\ Head(rr[x.c]).t = x.t
          /\ x.t \in Reqs /\ Taken(rr, rr2, x.c)
      BY <1>1, <1>2
    <3>2. LineOK(a, Append(q, x), f, rep, known, ss, rr2)
      BY <1>2, <1>13, <2>6, <3>1, LineAsks
    <3> QED BY <1>3, <3>2
  <2>8. HasEntry(v, a) = known
    BY <1>10, <2>4 DEF Apart, Quiet, HasEntry
  <2>9. FineAt(v, rr2, a)
    BY <1>10, <1>16, <2>7, <2>8 DEF FineAt, At
  <2>10. Fine(v, rr2)
    BY <1>1, <1>4, <1>7, <1>17, <2>9, TakenFine
  <2>11. NoWriteBack(a, ss, rr)
    BY <1>20, <2>6, WhenNoWriteBack
  <2>12. NoWriteBack(a, ss, rr2)
    BY <1>1, <1>13, <2>11, QueueCalm
  <2>13. Calm(v, rr2, a)
    BY <1>16, <2>12 DEF Calm
  <2>14. ~Granted(p) /\ v.d.q[a] = p
    BY <1>9, <1>10, <1>20 DEF Granted, At
  <2>15. Restart(v, rr2, a)
    BY <1>9, <2>13, <2>14 DEF Restart
  <2> QED BY <1>10, <1>18, <2>1, <2>2, <2>3, <2>10, <2>15, StartedServes
<1> QED BY <1>19, <1>20

-----------------------------------------------------------------------------
(* DRAM has answered. *)
LEMMA ReadTakenServes ==
  ASSUME NEW w, NEW rest, NEW a, NEW q, NEW e, NEW rep, At(w, a, q, e, rep),
         NEW p \in Seq(Filled), NEW z, z = SetR(w, a, p), LastingAt(w, rest, a), OthersServed(w, rest, a)
  PROVE  LastingAt(z, rest, a) /\ OthersServed(z, rest, a)
<1>1. At(z, a, q, e, p) /\ Apart(w, z, a) /\ Quiet(w, z)
  BY AtReply
<1>2. Out(z) = Out(w) /\ w \in Works
  BY <1>1, OutSame DEF Quiet, At
<1>3. OnlyAt(w, z, a)
  BY <1>1, ApartOnly DEF Quiet
<1>4. LastingAt(z, rest, a)
  BY <1>1, <1>2 DEF LastingAt, At
<1> QED BY <1>2, <1>3, <1>4, OthersStay

LEMMA DramServes ==
  ASSUME NEW w, NEW rest, NEW a, NEW q, NEW e, Fine(w, rest), At(w, a, q, e, <<>>),
         GrantedFacts(q, e), NEW data \in Filled, LastingAt(w, rest, a),
         NEW z, z = DramReplied(w, a, data), z.err = NoFailure
  PROVE  Moves(w, z, rest, a)
<1> DEFINE c == Head(q).c
           t == IF Head(q).t = "SH_REQ" /\ e.st # "E" THEN "SH_REP" ELSE "EX_REP"
           ok == CASE Head(q).t = "SH_REQ" -> e.st \in {"S", "E"}
                   [] Head(q).t = "EX_REQ" -> e.st = "M"
                   [] OTHER          -> Head(q).t = "UPGRADE_REQ"
           cond == ok /\ HasEntry(w, a)
           v == Assert_(w, cond, "DRAM reply in a wrong state")
           u == Send(v, c, t, a, data)
           m == Msg(t, a, data)
           p == Tail(q)
<1>1. FrontReq(w, a) = Head(q) /\ Dstate(w, a) = e.st /\ w.d.q[a] = q
  BY AtFront
<1>2. q # <<>> /\ a \in Addrs /\ c \in Llcs
  BY DEF GrantedFacts, At
<1>3. z = processNextReq(u, a)
  BY <1>1, <1>2 DEF DramReplied
<1>4. v = Assert_(w, cond, "DRAM reply in a wrong state")
  OBVIOUS
<1>5. u = Send(v, c, t, a, data) /\ m = Msg(t, a, data) /\ p = Tail(q) /\ c = Head(q).c
  OBVIOUS
<1>6. t \in DataReps
  BY DEF DataReps
<1> HIDE DEF cond, ok, v, u, m, p, c, t
<1>7. m \in ToCacheMsg /\ m.a = a /\ m.t \in Reps
  BY <1>2, <1>5, <1>6, Messages DEF DataReps, Reps, Filled
<1>8. "DRAM reply in a wrong state" \in Failures
  BY DEF Failures
<1>9. At(v, a, q, e, <<>>) /\ Apart(w, v, a) /\ Checked(w, v, cond)
  BY <1>4, <1>8, AtAssert
<1>10. At(u, a, q, e, <<>>) /\ Apart(v, u, a) /\ Delivered(v, u, c, m)
  BY <1>7, <1>9, <1>5, AtSend
<1>11. At(z, a, p, e, <<>>) /\ Apart(u, z, a) /\ Finished(u, z, p)
  BY <1>2, <1>3, <1>10, <1>5, AtNext
<1>12. u.err = NoFailure /\ z.out = u.out /\ (z.next = TRUE <=> p # <<>>)
  BY <1>11 DEF Finished
<1>13. v.err = NoFailure /\ Sends(v, u, {c}, m)
  BY <1>10, <1>12 DEF Delivered
<1>14. v = w
  BY <1>9, <1>13 DEF Checked
<1>15. Sends(w, u, {c}, m)
  BY <1>13, <1>14
<1>16. Sends(w, z, {c}, m)
  BY <1>12, <1>15, SendsBefore
<1>17. Apart(w, z, a)
  BY <1>9, <1>10, <1>11, ApartChain
<1>18. EntryServed(e) /\ RememberedAt(w, rest, a)
  BY DEF LastingAt, Lasting, RememberedAt, At
<1> QED BY <1>2, <1>5, <1>7, <1>11, <1>12, <1>16, <1>17, <1>18, AnswerRests

LEMMA DramDoneServes ==
  ASSUME NEW w, NEW rest, NEW a, NEW q, NEW e, NEW rep, Fine(w, rest), At(w, a, q, e, rep),
         rep # <<>>, sys \in Systems, AllServed(w, rest),
         NEW z, z = processDRAMReply(w, a), z.err = NoFailure
  PROVE  AllServed(z, rest)
<1> DEFINE x == SetR(w, a, Tail(rep))
           y == getDirectoryEntry(x, a)
           data == Head(rep)
           u == DramReplied(y, a, data)
<1>1. x = SetR(w, a, Tail(rep)) /\ y = getDirectoryEntry(x, a) /\ u = DramReplied(y, a, data)
  OBVIOUS
<1>2. w.d.reply[a] = rep /\ data \in Filled /\ Tail(rep) \in Seq(Filled) /\ a \in Addrs
  <2>1. rep \in Seq(Filled) /\ w.d.reply[a] = rep
    BY DEF At
  <2> QED BY <2>1 DEF At
<1>3. z = Settle(u, a)
  BY <1>2 DEF processDRAMReply, SetR
<1> HIDE DEF x, y, data, u
<1>4. /\ Fine(x, rest) /\ At(x, a, q, e, <<>>) /\ Quiet(w, x) /\ HasEntry(x, a)
      /\ Calm(x, rest, a) /\ GrantedFacts(q, e)
  BY <1>1, ReadTaken
<1>5. y = x
  <2>1. \E f : Got(x, y, a, q, e, <<>>, f)
    BY <1>1, <1>4, EntryGot
  <2> QED BY <1>4, <2>1 DEF Got
<1>6. u.err = NoFailure
  BY <1>3, SettledErr
<1>7. Goes(u, rest, a)
  BY <1>1, <1>2, <1>4, <1>5, <1>6, DramAnswers
<1>8. At(u, a, u.d.q[a], u.d.e[a], u.d.reply[a])
  <2>1. u \in Works
    BY <1>7 DEF Goes, Fine
  <2> QED BY <1>2, <2>1, FieldTypes DEF At
<1>9. LastingAt(w, rest, a) /\ OthersServed(w, rest, a)
  BY <1>2 DEF AllServed, ServedAt, OthersServed
<1>10. LastingAt(x, rest, a) /\ OthersServed(x, rest, a)
  <2> DEFINE new == Tail(rep)
  <2>1. new \in Seq(Filled) /\ x = SetR(w, a, new)
    BY <1>1, <1>2
  <2> HIDE DEF new
  <2>2. At(w, a, q, e, rep)
    OBVIOUS
  <2> QED BY <1>9, <2>1, <2>2, ReadTakenServes
<1>11. Moves(x, u, rest, a)
  BY <1>1, <1>2, <1>4, <1>5, <1>6, <1>10, DramServes
<1>12. Rests(u, rest, a) /\ OthersServed(u, rest, a)
  <2>1. x \in Works /\ OnlyAt(x, u, a) /\ Rests(u, rest, a)
    BY <1>4, <1>11 DEF Fine, Moves
  <2> QED BY <1>10, <2>1, OthersStay
<1> QED BY <1>3, <1>7, <1>8, <1>12, SettledServes

-----------------------------------------------------------------------------
(* A copy is given up: the entry lists its cache no more, nor does it name it the  *)
(* forwarder; the front request waits for the others.                         *)
Thinned(f, e, d) == Left(f, e, d) /\ f.fwd \in {e.fwd, NoCore} /\ f.fwd # d
StillWaits(q, f, d) ==
    q # <<>> => /\ Granted(q) => KeepsWaiting(Head(q), d)
                /\ ~Granted(q) => Head(q).t # "SH_REQ" /\ Blockers(q, f) # {}

LEMMA ThinnedServes ==
  ASSUME NEW a, NEW q, NEW e, NEW f, NEW rep, NEW ss, NEW rr \in [Llcs -> Seq(ToDirMsg)], NEW rr2,
         NEW d \in Llcs, Taken(rr, rr2, d), rr[d] # <<>>, NEW m, m = Head(rr[d]), m.t \in Gives,
         e.sharers \subseteq Llcs, Thinned(f, e, d), Lasting(a, q, e, ss, rr)
  PROVE  /\ Lasting(a, q, f, ss, rr2)
         /\ StillWaits(q, f, d) /\ FrontServed(a, q, e, rep, ss, rr) => FrontServed(a, q, f, rep, ss, rr2)
<1>1. m.t \notin Reqs
  BY AsksAre DEF Gives, Reqs
<1>2. \A k \in Llcs : /\ AwaitedIn(k, a, ss, rr) /\ k # d => AwaitedIn(k, a, ss, rr2)
                      /\ AskingIn(k, a, q, ss, rr) => AskingIn(k, a, q, ss, rr2)
  BY <1>1, TakenServes
<1>3. f.sharers = e.sharers \ {d} /\ f.st = IF f.sharers = {} THEN "U" ELSE e.st
  BY DEF Thinned, Left
<1>4. EntryServed(f)
  BY <1>3 DEF Lasting, EntryServed, Thinned
<1>5. Lasting(a, q, f, ss, rr2)
  BY <1>2, <1>4 DEF Lasting, Remembered
<1>6. Blockers(q, f) = Blockers(q, e) \ {d} /\ Blockers(q, e) \subseteq Llcs
  BY <1>3 DEF Blockers
<1>7. StillWaits(q, f, d) /\ FrontServed(a, q, e, rep, ss, rr) => FrontServed(a, q, f, rep, ss, rr2)
  <2> SUFFICES ASSUME StillWaits(q, f, d), FrontServed(a, q, e, rep, ss, rr), q # <<>>
               PROVE  FrontServed(a, q, f, rep, ss, rr2)
    BY DEF FrontServed
  <2>1. CASE Granted(q)
    <3>1. Head(q).wait \/ (Head(q).from # NoCore /\ d # Head(q).from)
      BY <2>1 DEF StillWaits, KeepsWaiting
    <3> QED BY <1>2, <2>1, <3>1 DEF FrontServed
  <2>2. CASE ~Granted(q)
    <3>1. Head(q).t # "SH_REQ" /\ Blockers(q, f) # {} /\ ~Head(q).wait /\ Head(q).from = NoCore
      BY <2>2 DEF StillWaits, Granted
    <3>2. \A k \in Blockers(q, f) : AwaitedIn(k, a, ss, rr2)
      BY <1>2, <1>6, <2>2, <3>1 DEF FrontServed
    <3> QED BY <3>1, <3>2 DEF FrontServed
  <2> QED BY <2>1, <2>2
<1> QED BY <1>5, <1>7

LEMMA GivenServes ==
  ASSUME NEW w, NEW rr, NEW rr2, NEW d, NEW a, NEW q, NEW e, NEW rep,
         Arriving(w, rr, rr2, d, a, q, e, rep), AllServed(w, rr),
         NEW m, m = Head(rr[d]), m.t \in Gives,
         NEW z, NEW f, EntryOnly(w, z, a, q, f, rep), Thinned(f, e, d)
  PROVE  /\ LastingAt(z, rr2, a) /\ OthersServed(z, rr2, a)
         /\ StillWaits(q, f, d) => FrontServedAt(z, rr2, a)
<1> DEFINE ss == Out(w)
<1>1. ss = Out(w)
  OBVIOUS
<1> HIDE DEF ss
<1>2. /\ Fine(w, rr) /\ At(w, a, q, e, rep) /\ d \in Llcs /\ Taken(rr, rr2, d)
      /\ rr[d] # <<>> /\ m.a = a /\ a \in Addrs /\ w \in Works
  BY DEF Arriving, At
<1>3. rr \in [Llcs -> Seq(ToDirMsg)]
  BY <1>2 DEF Fine
<1>4. At(z, a, q, f, rep) /\ Apart(w, z, a) /\ z.out = w.out
  BY DEF EntryOnly
<1>5. Out(z) = ss /\ OnlyAt(w, z, a) /\ z \in Works
  BY <1>1, <1>4, OutSame, ApartOnly DEF At
<1>6. LastingAt(w, rr, a) /\ FrontServedAt(w, rr, a) /\ OthersServed(w, rr, a)
  BY <1>2 DEF AllServed, ServedAt, OthersServed
<1>7. Lasting(a, q, e, ss, rr) /\ FrontServed(a, q, e, rep, ss, rr) /\ e.sharers \subseteq Llcs
  BY <1>1, <1>2, <1>6 DEF LastingAt, FrontServedAt, At, DirEntry
<1>8. /\ Lasting(a, q, f, ss, rr2)
      /\ StillWaits(q, f, d) /\ FrontServed(a, q, e, rep, ss, rr) => FrontServed(a, q, f, rep, ss, rr2)
  BY <1>2, <1>3, <1>7, ThinnedServes
<1>9. OthersServed(z, rr2, a)
  <2>1. OthersServed(z, rr, a)
    BY <1>2, <1>5, <1>6, OthersStay
  <2>2. Head(rr[d]).a = a
    BY <1>2
  <2> QED BY <1>2, <1>3, <1>5, <2>1, <2>2, OthersTaken
<1> QED BY <1>4, <1>5, <1>7, <1>8, <1>9 DEF LastingAt, FrontServedAt, At

(* The entry after INV_REP and FLUSH_REP. *)

LEMMA RemovedIs ==
  ASSUME NEW w, NEW a, NEW q, NEW e, NEW rep, At(w, a, q, e, rep), NEW d \in Llcs,
         NEW z, z = removeSharer(w, a, d), NEW f, f = Leaving(e, d)
  PROVE  EntryOnly(w, z, a, q, f, rep) /\ Left(f, e, d) /\ f.fwd = e.fwd
<1>1. EntryOnly(w, z, a, q, f, rep) /\ Left(f, e, d)
  BY Removed
<1>2. f.fwd = e.fwd
  BY DEF At, DirEntry, Leaving
<1> QED BY <1>1, <1>2

LEMMA InvalidatedThinned ==
  ASSUME NEW w, NEW a, NEW q, NEW e, NEW rep, At(w, a, q, e, rep), NEW d \in Llcs,
         NEW z, z = Invalidated(w, d, a)
  PROVE  \E f \in DirEntry : EntryOnly(w, z, a, q, f, rep) /\ Thinned(f, e, d)
<1> DEFINE cond == HasEntry(w, a) /\ Dstate(w, a) \in {"S", "E"}
           v == Assert_(w, cond, "Ooops")
           u == removeSharer(v, a, d)
           g == Leaving(e, d)
           f == [g EXCEPT !.fwd = IF @ = d THEN NoCore ELSE @]
<1>1. v = Assert_(w, cond, "Ooops")
  OBVIOUS
<1>2. u = removeSharer(v, a, d) /\ g = Leaving(e, d) /\ f = [g EXCEPT !.fwd = IF @ = d THEN NoCore ELSE @]
  OBVIOUS
<1>3. z = ClearFwd(u, a, d)
  BY DEF Invalidated, ClearFwd
<1> HIDE DEF cond, v, u, g, f
<1>4. "Ooops" \in Failures
  BY DEF Failures
<1>5. EntryOnly(w, v, a, q, e, rep)
  BY <1>1, <1>4, EntryAsserted
<1>6. At(v, a, q, e, rep)
  BY <1>5, EntryOnlyAt
<1>7. EntryOnly(v, u, a, q, g, rep) /\ Left(g, e, d) /\ g.fwd = e.fwd
  BY <1>2, <1>6, RemovedIs
<1>8. EntryOnly(w, u, a, q, g, rep)
  BY <1>5, <1>7, EntryOnlyChain
<1>9. At(u, a, q, g, rep)
  BY <1>8, EntryOnlyAt
<1>10. u.d.e[a] = g /\ g \in DirEntry
  BY <1>9 DEF At
<1>11. f \in DirEntry /\ f.st = g.st /\ f.sharers = g.sharers /\ f.fwd = IF g.fwd = d THEN NoCore ELSE g.fwd
  BY <1>2, <1>10 DEF DirEntry, Cores
<1>12. z = SetE(u, a, f)
  BY <1>2, <1>3, <1>10 DEF ClearFwd, SetE
<1>13. EntryOnly(u, z, a, q, f, rep)
  BY <1>9, <1>11, <1>12, EntryChanged
<1>14. EntryOnly(w, z, a, q, f, rep)
  BY <1>8, <1>13, EntryOnlyChain
<1>15. Thinned(f, e, d)
  BY <1>7, <1>11, NoCoreIsNone DEF Thinned, Left
<1> QED BY <1>11, <1>14, <1>15

LEMMA FlushedThinned ==
  ASSUME NEW w, NEW a, NEW q, NEW e, NEW rep, At(w, a, q, e, rep), NEW d \in Llcs,
         NEW z, z = Flushed(w, d, a)
  PROVE  \E f \in DirEntry : EntryOnly(w, z, a, q, f, rep) /\ Thinned(f, e, d)
<1> DEFINE cond == HasEntry(w, a)
           v == Assert_(w, cond, "flush without entry")
           u == removeSharer(v, a, d)
           cond2 == Dstate(u, a) \in {"U", "S"}
           x == Assert_(u, cond2, "flush leaves sharers")
           g == Leaving(e, d)
           y == SetFwd(x, a)
           h == NoFwd(g)
           f == NoOwner(h)
<1>1. v = Assert_(w, cond, "flush without entry")
  OBVIOUS
<1>2. u = removeSharer(v, a, d) /\ g = Leaving(e, d)
  OBVIOUS
<1>3. x = Assert_(u, cond2, "flush leaves sharers")
  OBVIOUS
<1>4. y = SetFwd(x, a) /\ h = NoFwd(g) /\ f = NoOwner(h)
  OBVIOUS
<1>5. z = SetOwner(y, a)
  BY DEF Flushed, SetOwner, SetFwd
<1> HIDE DEF cond, v, u, g, cond2, x, y, h, f
<1>6. "flush without entry" \in Failures
  BY DEF Failures
<1>7. "flush leaves sharers" \in Failures
  BY DEF Failures
<1>8. EntryOnly(w, v, a, q, e, rep)
  BY <1>1, <1>6, EntryAsserted
<1>9. At(v, a, q, e, rep)
  BY <1>8, EntryOnlyAt
<1>10. EntryOnly(v, u, a, q, g, rep) /\ Left(g, e, d)
  BY <1>2, <1>9, RemovedIs
<1>11. EntryOnly(w, u, a, q, g, rep)
  BY <1>8, <1>10, EntryOnlyChain
<1>12. At(u, a, q, g, rep)
  BY <1>11, EntryOnlyAt
<1>13. EntryOnly(u, x, a, q, g, rep)
  BY <1>3, <1>7, <1>12, EntryAsserted
<1>14. EntryOnly(w, x, a, q, g, rep)
  BY <1>11, <1>13, EntryOnlyChain
<1>15. At(x, a, q, g, rep) /\ g \in DirEntry
  BY <1>10, <1>14, EntryOnlyAt DEF Left
<1>16. h \in DirEntry /\ h.st = g.st /\ h.sharers = g.sharers /\ h.fwd = NoCore
  BY <1>4, <1>15, FieldsCleared DEF NoFwd, DirEntry
<1>17. f \in DirEntry /\ f.st = g.st /\ f.sharers = g.sharers /\ f.fwd = NoCore
  BY <1>4, <1>16, FieldsCleared DEF NoOwner, DirEntry
<1>18. y = SetE(x, a, h)
  BY <1>4, <1>15, FieldSet
<1>19. EntryOnly(x, y, a, q, h, rep)
  BY <1>15, <1>16, <1>18, EntryChanged
<1>20. EntryOnly(w, y, a, q, h, rep)
  BY <1>14, <1>19, EntryOnlyChain
<1>21. At(y, a, q, h, rep)
  BY <1>20, EntryOnlyAt
<1>22. z = SetE(y, a, f)
  BY <1>4, <1>5, <1>21, FieldSet
<1>23. EntryOnly(y, z, a, q, f, rep)
  BY <1>17, <1>21, <1>22, EntryChanged
<1>24. EntryOnly(w, z, a, q, f, rep)
  BY <1>20, <1>23, EntryOnlyChain
<1>25. Thinned(f, e, d)
  BY <1>10, <1>17, NoCoreIsNone DEF Thinned, Left
<1> QED BY <1>17, <1>24, <1>25

LEMMA WrittenBackIs ==
  ASSUME NEW w, NEW a, NEW q, NEW e, NEW rep, At(w, a, q, e, rep), NEW d \in Llcs,
         NEW z, z = WrittenBack(w, d, a)
  PROVE  \E f \in DirEntry : /\ EntryOnly(w, z, a, q, f, rep)
                             /\ f.st = "S" /\ f.sharers = e.sharers /\ f.fwd = e.fwd
<1> DEFINE cond == HasEntry(w, a) /\ d \in Sharers(w, a)
           v == Assert_(w, cond, "WB_REP of no sharer")
           y == SetOwner(v, a)
           g == NoOwner(e)
           f == InShared(g)
<1>1. v = Assert_(w, cond, "WB_REP of no sharer")
  OBVIOUS
<1>2. y = SetOwner(v, a) /\ g = NoOwner(e) /\ f = InShared(g) /\ e \in DirEntry
  BY DEF At
<1>3. z = SetShared(y, a)
  BY DEF WrittenBack, SetOwner, SetShared
<1> HIDE DEF cond, v, y, g, f
<1>4. "WB_REP of no sharer" \in Failures
  BY DEF Failures
<1>5. EntryOnly(w, v, a, q, e, rep)
  BY <1>1, <1>4, EntryAsserted
<1>6. At(v, a, q, e, rep)
  BY <1>5, EntryOnlyAt
<1>7. g \in DirEntry /\ g.sharers = e.sharers /\ g.fwd = e.fwd
  BY <1>2, FieldsCleared DEF NoOwner, DirEntry
<1>8. f \in DirEntry /\ f.st = "S" /\ f.sharers = e.sharers /\ f.fwd = e.fwd
  BY <1>2, <1>7, FieldsCleared DEF InShared, DirEntry
<1>9. y = SetE(v, a, g)
  BY <1>2, <1>6, FieldSet
<1>10. EntryOnly(v, y, a, q, g, rep)
  BY <1>6, <1>7, <1>9, EntryChanged
<1>11. EntryOnly(w, y, a, q, g, rep)
  BY <1>5, <1>10, EntryOnlyChain
<1>12. At(y, a, q, g, rep)
  BY <1>11, EntryOnlyAt
<1>13. z = SetE(y, a, f)
  BY <1>2, <1>3, <1>12, FieldSet
<1>14. EntryOnly(y, z, a, q, f, rep)
  BY <1>8, <1>12, <1>13, EntryChanged
<1>15. EntryOnly(w, z, a, q, f, rep)
  BY <1>11, <1>14, EntryOnlyChain
<1> QED BY <1>8, <1>15

-----------------------------------------------------------------------------
(* The front request goes on, or waits for the others.                           *)
LEMMA MovesServe ==
  ASSUME NEW w \in Works, NEW z, NEW rest, NEW a, Moves(w, z, rest, a), OthersServed(w, rest, a)
  PROVE  Rests(z, rest, a) /\ OthersServed(z, rest, a)
  BY OthersStay DEF Moves

LEMMA GoalServes ==
  ASSUME NEW w \in Works, NEW z, NEW rest, NEW a, NEW q, NEW e, NEW buf, Goal(w, z, rest, a, q, e, buf),
         OthersServed(w, rest, a)
  PROVE  Rests(z, rest, a) /\ OthersServed(z, rest, a)
  BY MovesServe DEF Goal

LEMMA NullifyServes ==
  ASSUME NEW w, NEW rest, NEW a, NEW q, NEW e, NEW rep, Ready(w, rest, a, q, e, rep),
         LastingAt(w, rest, a), OthersServed(w, rest, a), Head(q).t = "NULLIFY_REQ",
         NEW z, z = processNullifyReq(w, a), z.err = NoFailure
  PROVE  Rests(z, rest, a) /\ OthersServed(z, rest, a)
<1>1. Rests(z, rest, a)
  BY NullifyRests
<1>2. OnlyAt(w, z, a)
  BY NullifyDone DEF Nullified
<1>3. w \in Works
  BY DEF Ready, At
<1> QED BY <1>1, <1>2, <1>3, OthersStay

LEMMA ListedServed ==
  ASSUME NEW w, NEW rest, NEW d, NEW a, NEW q, NEW f, NEW rep, Given(w, rest, d, a, q, f, rep),
         LastingAt(w, rest, a), q # <<>>, f.st # "U",
         Head(q).t \in {"EX_REQ", "NULLIFY_REQ"} \/ (Head(q).t = "UPGRADE_REQ" /\ ~(f.sharers \subseteq {Head(q).c}))
  PROVE  StillWaits(q, f, d)
<1>1. At(w, a, q, f, rep) /\ f.st = "S" /\ ~Granted(q)
  BY DEF Given
<1>2. Ready(w, rest, a, q, f, rep)
  BY GivenReady
<1>3. FrontFacts(q, f, rep)
  BY <1>2, ReadyFront
<1>4. f.sharers # {} /\ f.sharers \subseteq Llcs
  BY <1>1 DEF LastingAt, Lasting, EntryServed, At, DirEntry
<1>5. CASE Head(q).t = "EX_REQ"
  BY <1>1, <1>3, <1>4, <1>5 DEF StillWaits, FrontFacts, Fetches, Blockers
<1>6. CASE Head(q).t = "NULLIFY_REQ"
  <2>1. 1 \in DOMAIN q /\ Head(q) = q[1]
    BY <1>3, Popped DEF FrontFacts
  <2>2. Head(q).c = NoCore
    BY <1>3, <1>6, <2>1 DEF FrontFacts, FrontWaits
  <2> QED BY <1>1, <1>4, <1>6, <2>2, NoCoreIsNone DEF StillWaits, Blockers
<1>7. CASE Head(q).t = "UPGRADE_REQ" /\ ~(f.sharers \subseteq {Head(q).c})
  BY <1>1, <1>7 DEF StillWaits, Blockers
<1> QED BY <1>5, <1>6, <1>7

LEMMA AfterInvServes ==
  ASSUME sys \in Systems, NEW w, NEW rest, NEW d, NEW a, NEW q, NEW f, NEW rep, Given(w, rest, d, a, q, f, rep),
         LastingAt(w, rest, a), OthersServed(w, rest, a),
         StillWaits(q, f, d) => FrontServedAt(w, rest, a),
         NEW z, z = AfterInv(w, d, a), z.err = NoFailure
  PROVE  Rests(z, rest, a) /\ OthersServed(z, rest, a)
<1>1. /\ At(w, a, q, f, rep) /\ w.d.q[a] = q /\ FrontReq(w, a) = Head(q) /\ Dstate(w, a) = f.st
      /\ Sharers(w, a) = f.sharers /\ f.st \in {"U", "S"} /\ NoData \in Data
      /\ q # <<>> => Head(q).t \in Reqs \union {"NULLIFY_REQ"}
  BY GivenParts
<1>2. w \in Works /\ w.next = FALSE
  BY <1>1 DEF At, Given
<1>3. CASE z = w /\ StillWaits(q, f, d)
  BY <1>2, <1>3 DEF Rests
<1>4. CASE q # <<>> /\ Head(q).t = "EX_REQ"
  <2>1. CASE f.st = "U"
    <3>1. Ready(w, rest, a, q, f, rep)
      BY <1>4, GivenReady
    <3>2. z = processExReq(w, a, NoData)
      BY <1>1, <1>4, <2>1 DEF AfterInv
    <3>3. Goal(w, z, rest, a, q, f, NoData)
      BY <1>1, <1>4, <3>1, <3>2, ExRests
    <3> QED BY <1>2, <3>3, GoalServes
  <2>2. CASE f.st # "U"
    <3>1. z = w
      BY <1>1, <1>4, <2>2 DEF AfterInv
    <3> QED BY <1>3, <1>4, <2>2, <3>1, ListedServed
  <2> QED BY <2>1, <2>2
<1>5. CASE q # <<>> /\ Head(q).t = "UPGRADE_REQ"
  <2>1. CASE f.sharers \subseteq {Head(q).c}
    <3>1. Ready(w, rest, a, q, f, rep)
      BY <1>5, GivenReady
    <3>2. z = processUpgradeReq(w, a, NoData)
      BY <1>1, <1>5, <2>1 DEF AfterInv
    <3>3. Goal(w, z, rest, a, q, f, NoData)
      BY <1>1, <1>5, <3>1, <3>2, UpRests
    <3> QED BY <1>2, <3>3, GoalServes
  <2>2. CASE ~(f.sharers \subseteq {Head(q).c})
    <3>1. z = w
      BY <1>1, <1>5, <2>2 DEF AfterInv
    <3>2. f.st # "U"
      <4>1. Ready(w, rest, a, q, f, rep)
        BY <1>5, GivenReady
      <4>2. FrontFacts(q, f, rep)
        BY <4>1, ReadyFront
      <4> QED BY <2>2, <4>2 DEF FrontFacts
    <3> QED BY <1>3, <1>5, <2>2, <3>1, <3>2, ListedServed
  <2> QED BY <2>1, <2>2
<1>6. CASE q # <<>> /\ Head(q).t = "SH_REQ"
  <2>1. CASE ~KeepsWaiting(Head(q), d)
    <3>1. Ready(w, rest, a, q, f, rep)
      BY <1>6, <2>1, GivenReady
    <3>2. z = processShReq(w, a, NoData)
      BY <1>1, <1>6, <2>1 DEF AfterInv
    <3>3. RememberedAt(w, rest, a) /\ Writable(f, NoData)
      BY <1>1 DEF LastingAt, Lasting, RememberedAt, Writable, At
    <3>4. MaxHwSharers \in Nat
      BY DirectoryAssumption DEF MaxHwSharers
    <3>5. Goal(w, z, rest, a, q, f, NoData)
      BY <1>1, <1>6, <3>1, <3>2, <3>3, <3>4, ShRests
    <3> QED BY <1>2, <3>5, GoalServes
  <2>2. CASE KeepsWaiting(Head(q), d)
    <3>1. z = w
      BY <1>1, <1>6, <2>2 DEF AfterInv
    <3>2. Granted(q)
      BY <1>6, <2>2 DEF Granted, KeepsWaiting
    <3>3. StillWaits(q, f, d)
      BY <2>2, <3>2 DEF StillWaits
    <3> QED BY <1>3, <3>1, <3>3
  <2> QED BY <2>1, <2>2
<1>7. CASE q # <<>> /\ Head(q).t = "NULLIFY_REQ"
  <2>1. CASE f.st = "U"
    <3>1. Ready(w, rest, a, q, f, rep)
      BY <1>7, GivenReady
    <3>2. z = processNullifyReq(w, a)
      BY <1>1, <1>7, <2>1 DEF AfterInv
    <3> QED BY <1>7, <3>1, <3>2, NullifyServes
  <2>2. CASE f.st # "U"
    <3>1. z = w
      BY <1>1, <1>7, <2>2 DEF AfterInv
    <3> QED BY <1>3, <1>7, <2>2, <3>1, ListedServed
  <2> QED BY <2>1, <2>2
<1>8. CASE q = <<>>
  <2>1. z = w /\ StillWaits(q, f, d)
    BY <1>1, <1>8 DEF AfterInv, StillWaits
  <2> QED BY <1>3, <2>1
<1> QED BY <1>1, <1>4, <1>5, <1>6, <1>7, <1>8 DEF Reqs

(* What was flushed is kept with the upgrade that waits for more.              *)
LEMMA BufferedServes ==
  ASSUME NEW w, NEW rest, NEW a, NEW q, NEW f, NEW rep, At(w, a, q, f, rep), w.next = FALSE,
         q # <<>>, LastingAt(w, rest, a), OthersServed(w, rest, a), FrontServedAt(w, rest, a),
         NEW data \in Data, NEW z, z = KeepBuf(w, a, data)
  PROVE  Rests(z, rest, a) /\ OthersServed(z, rest, a)
<1> DEFINE p == MarkBuf(q, data)
           ss == Out(w)
<1>1. w.d.q[a] = q /\ q \in Seq(DirReq) /\ w \in Works
  BY DEF At
<1>2. z = SetQ(w, a, p)
  BY <1>1 DEF KeepBuf, SetQ, MarkBuf
<1>3. p = MarkBuf(q, data) /\ ss = Out(w)
  OBVIOUS
<1> HIDE DEF p, ss
<1>4. Marks(p, q) /\ p[1].from = q[1].from /\ p[1].wait = q[1].wait
  BY <1>1, <1>3, MarkedBuf
<1>5. p \in Seq(DirReq) /\ p # <<>>
  BY <1>4 DEF Marks
<1>6. At(z, a, p, f, rep) /\ Apart(w, z, a) /\ Quiet(w, z)
  BY <1>2, <1>5, AtQueue
<1>7. Out(z) = ss /\ OnlyAt(w, z, a) /\ z.next = FALSE
  BY <1>3, <1>6, OutSame, ApartOnly DEF Quiet
<1>8. Lasting(a, q, f, ss, rest) /\ FrontServed(a, q, f, rep, ss, rest)
  BY <1>3 DEF LastingAt, FrontServedAt, At
<1>9. /\ OthersUnbuffered(q) => OthersUnbuffered(p)
      /\ \A k : AskingIn(k, a, q, ss, rest) => AskingIn(k, a, p, ss, rest)
  BY <1>1, <1>4, MarkedServes
<1>10. Lasting(a, p, f, ss, rest)
  BY <1>8, <1>9 DEF Lasting, Remembered
<1>11. Head(p).from = Head(q).from /\ Head(p).wait = Head(q).wait /\ Head(p).c = Head(q).c
       /\ Head(p).t = Head(q).t
  BY <1>4 DEF Marks
<1>12. FrontServed(a, p, f, rep, ss, rest)
  <2>1. Blockers(p, f) = Blockers(q, f) /\ (Granted(p) <=> Granted(q))
    BY <1>5, <1>11 DEF Blockers, Granted
  <2> QED BY <1>8, <1>11, <2>1 DEF FrontServed
<1>13. Rests(z, rest, a)
  BY <1>6, <1>7, <1>10, <1>12, RestsAt
<1> QED BY <1>1, <1>7, <1>13, OthersStay

LEMMA MemoryServes ==
  ASSUME NEW w, NEW rest, NEW a, NEW q, NEW f, NEW rep, At(w, a, q, f, rep), NEW data \in Filled,
         NEW z, z = sendDataToDram(w, a, data)
  PROVE  /\ LastingAt(w, rest, a) => LastingAt(z, rest, a)
         /\ FrontServedAt(w, rest, a) => FrontServedAt(z, rest, a)
         /\ OthersServed(w, rest, a) => OthersServed(z, rest, a)
<1>1. At(z, a, q, f, rep) /\ Apart(w, z, a) /\ Quiet(w, z)
  BY AtMemory
<1>2. OnlyAt(w, z, a) /\ w \in Works /\ Out(z) = Out(w)
  BY <1>1, ApartOnly, OutSame DEF Quiet, At
<1>3. OthersServed(w, rest, a) => OthersServed(z, rest, a)
  BY <1>2, OthersStay
<1> QED BY <1>1, <1>2, <1>3 DEF LastingAt, FrontServedAt, At

LEMMA AfterFlushServes ==
  ASSUME sys \in Systems, NEW w, NEW rest, NEW d, NEW a, NEW q, NEW f, NEW rep, Given(w, rest, d, a, q, f, rep),
         LastingAt(w, rest, a), OthersServed(w, rest, a),
         StillWaits(q, f, d) => FrontServedAt(w, rest, a), FlushGives(q, f),
         f.st = "S" => Head(q).c \notin f.sharers, NEW data \in Filled,
         NEW z, z = AfterFlush(w, a, data), z.err = NoFailure
  PROVE  Rests(z, rest, a) /\ OthersServed(z, rest, a)
<1> DEFINE v == sendDataToDram(w, a, data)
<1>1. /\ At(w, a, q, f, rep) /\ w.d.q[a] = q /\ FrontReq(w, a) = Head(q) /\ Dstate(w, a) = f.st
      /\ Sharers(w, a) = f.sharers /\ f.st \in {"U", "S"} /\ data \in Data
      /\ q # <<>> => Head(q).t \in Reqs \union {"NULLIFY_REQ"}
  BY GivenParts DEF Filled
<1>2. v = sendDataToDram(w, a, data)
  OBVIOUS
<1> HIDE DEF v
<1>3. Given(v, rest, d, a, q, f, rep)
  BY <1>2, GivenMemory
<1>4. /\ LastingAt(v, rest, a) /\ OthersServed(v, rest, a)
      /\ FrontServedAt(w, rest, a) => FrontServedAt(v, rest, a)
  BY <1>1, <1>2, MemoryServes
<1>5. w \in Works /\ v \in Works /\ w.next = FALSE /\ v.next = FALSE /\ At(v, a, q, f, rep)
  BY <1>1, <1>3 DEF At, Given
<1>6. q # <<>> /\ Head(q).t = "SH_REQ" => ~KeepsWaiting(Head(q), d)
  <2>1. q # <<>> /\ Head(q).t = "SH_REQ" => ~Granted(q)
    BY DEF FlushGives, Given
  <2> QED BY <2>1 DEF Granted, KeepsWaiting
<1>7. CASE q = <<>>
  <2>1. z = v /\ StillWaits(q, f, d)
    BY <1>1, <1>2, <1>7 DEF AfterFlush, StillWaits
  <2> QED BY <1>4, <1>5, <2>1 DEF Rests
<1>8. CASE q # <<>> /\ Head(q).t = "EX_REQ"
  <2>1. Ready(w, rest, a, q, f, rep)
    BY <1>8, GivenReady
  <2>2. z = processExReq(w, a, data)
    BY <1>1, <1>8 DEF AfterFlush
  <2>3. Goal(w, z, rest, a, q, f, data)
    BY <1>1, <1>8, <2>1, <2>2, ExRests
  <2> QED BY <1>5, <2>3, GoalServes
<1>9. CASE q # <<>> /\ Head(q).t = "SH_REQ"
  <2>1. Ready(v, rest, a, q, f, rep)
    BY <1>3, <1>6, <1>9, GivenReady
  <2>2. z = processShReq(v, a, data)
    BY <1>1, <1>2, <1>9 DEF AfterFlush
  <2>3. RememberedAt(v, rest, a) /\ Writable(f, data)
    BY <1>4, <1>5 DEF LastingAt, Lasting, RememberedAt, Writable, At
  <2>4. MaxHwSharers \in Nat
    BY DirectoryAssumption DEF MaxHwSharers
  <2>5. Goal(v, z, rest, a, q, f, data)
    BY <1>1, <1>9, <2>1, <2>2, <2>3, <2>4, ShRests
  <2> QED BY <1>4, <1>5, <2>5, GoalServes
<1>10. CASE q # <<>> /\ Head(q).t = "UPGRADE_REQ"
  <2>1. CASE f.st = "U"
    <3>1. Ready(w, rest, a, q, f, rep)
      BY <1>10, GivenReady
    <3>2. z = processUpgradeReq(w, a, data)
      BY <1>1, <1>10, <2>1 DEF AfterFlush
    <3>3. Goal(w, z, rest, a, q, f, data)
      BY <1>1, <1>10, <3>1, <3>2, UpRests
    <3> QED BY <1>5, <3>3, GoalServes
  <2>2. CASE f.st # "U"
    <3>1. z = KeepBuf(w, a, data)
      BY <1>1, <1>10, <2>2 DEF AfterFlush, KeepBuf
    <3>2. f.st = "S" /\ f.sharers # {}
      BY <1>1, <2>2 DEF LastingAt, Lasting, EntryServed, At
    <3>3. ~(f.sharers \subseteq {Head(q).c})
      BY <3>2
    <3>4. StillWaits(q, f, d)
      BY <1>10, <2>2, <3>3, ListedServed
    <3> QED BY <1>1, <1>5, <1>10, <3>1, <3>4, BufferedServes
  <2> QED BY <2>1, <2>2
<1>11. CASE q # <<>> /\ Head(q).t = "NULLIFY_REQ"
  <2>1. Ready(v, rest, a, q, f, rep)
    BY <1>3, <1>11, GivenReady
  <2>2. z = processNullifyReq(v, a)
    BY <1>1, <1>2, <1>11 DEF AfterFlush
  <2> QED BY <1>4, <1>11, <2>1, <2>2, NullifyServes
<1> QED BY <1>1, <1>7, <1>8, <1>9, <1>10, <1>11 DEF Reqs

-----------------------------------------------------------------------------
(* An answer has been handled: the line's requests are served again.              *)
LEMMA InvHandledServes ==
  ASSUME NEW w, NEW rr, NEW rr2, NEW d, NEW a, NEW q, NEW e, NEW rep,
         Arriving(w, rr, rr2, d, a, q, e, rep), AllServed(w, rr), NEW m, m = Head(rr[d]),
         m.t = "INV_REP", sys \in Systems, NEW z, z = processInvRep(w, d, a), z.err = NoFailure
  PROVE  Rests(z, rr2, a) /\ OthersServed(z, rr2, a)
<1> DEFINE y == getDirectoryEntry(w, a)
           v == Invalidated(w, d, a)
<1>1. y = getDirectoryEntry(w, a) /\ v = Invalidated(w, d, a)
  OBVIOUS
<1>2. z = AfterInv(Invalidated(y, d, a), d, a)
  BY DEF processInvRep
<1> HIDE DEF y, v
<1>3. Fine(w, rr) /\ At(w, a, q, e, rep) /\ d \in Llcs
  BY DEF Arriving
<1>4. PICK f \in DirEntry : EntryOnly(w, v, a, q, f, rep) /\ Thinned(f, e, d)
  BY <1>1, <1>3, InvalidatedThinned
<1>5. LeftBehind(w, v, a, q, e, rep, d)
  BY <1>4 DEF LeftBehind, Thinned
<1>6. m.t \in Gives
  BY DEF Gives
<1>7. HasEntry(w, a) /\ \E g : Given(v, rr2, d, a, q, g, rep)
  BY <1>5, <1>6, GivenFine
<1>8. PICK g : Given(v, rr2, d, a, q, g, rep)
  BY <1>7
<1>9. g = f
  BY <1>4, <1>8 DEF EntryOnly, Given, At
<1>10. y = w
  <2>1. \E h : Got(w, y, a, q, e, rep, h)
    BY <1>1, <1>3, EntryGot
  <2> QED BY <1>7, <2>1 DEF Got
<1>11. z = AfterInv(v, d, a)
  BY <1>1, <1>2, <1>10
<1>12. /\ LastingAt(v, rr2, a) /\ OthersServed(v, rr2, a)
       /\ StillWaits(q, f, d) => FrontServedAt(v, rr2, a)
  BY <1>4, <1>6, GivenServes
<1> QED BY <1>8, <1>9, <1>11, <1>12, AfterInvServes

(* A flush that leaves sharers behind is for an upgrade whose copy is gone.       *)
LEMMA FlushedFor ==
  ASSUME NEW w, NEW rr, NEW rr2, NEW d, NEW a, NEW q, NEW e, NEW rep,
         Arriving(w, rr, rr2, d, a, q, e, rep), NEW m, m = Head(rr[d]), m.t = "FLUSH_REP",
         NEW f, Left(f, e, d)
  PROVE  f.st = "S" => Head(q).c \notin f.sharers
<1> DEFINE known == HasEntry(w, a)
           ss == Out(w)
           s == rr[d]
<1>1. known = HasEntry(w, a) /\ ss = Out(w) /\ s = rr[d]
  OBVIOUS
<1> HIDE DEF known, ss, s
<1>2. Fine(w, rr) /\ At(w, a, q, e, rep) /\ d \in Llcs /\ s # <<>> /\ m.a = a
  BY <1>1 DEF Arriving
<1>3. LineOK(a, q, e, rep, known, ss, rr) /\ s \in Seq(ToDirMsg)
  BY <1>1, <1>2, FineLine DEF LineAt
<1>4. PairInv(d, a, cache[d][a].st, waiters[d][a], ss[d], s, q, e)
  BY <1>1, <1>2, <1>3 DEF LineOK
<1>5. Has(s, {"FLUSH_REP"}, a)
  <2>1. 1 \in DOMAIN s /\ Head(s) = s[1]
    BY <1>2, <1>3, Popped
  <2> QED BY <1>1, <1>2, <2>1 DEF Has, On
<1>6. e.st \in {"E", "M"} \/ Head(q).c \notin e.sharers
  BY <1>4, <1>5 DEF PairInv, FlushUnderWay, UpgradeWithoutCopy
<1> QED BY <1>6 DEF Left

LEMMA FlushHandledServes ==
  ASSUME NEW w, NEW rr, NEW rr2, NEW d, NEW a, NEW q, NEW e, NEW rep,
         Arriving(w, rr, rr2, d, a, q, e, rep), AllServed(w, rr), NEW m, m = Head(rr[d]),
         m.t = "FLUSH_REP", sys \in Systems, NEW data \in Filled,
         NEW z, z = processFlushRep(w, d, a, data), z.err = NoFailure
  PROVE  Rests(z, rr2, a) /\ OthersServed(z, rr2, a)
<1> DEFINE y == getDirectoryEntry(w, a)
           v == Flushed(w, d, a)
<1>1. y = getDirectoryEntry(w, a) /\ v = Flushed(w, d, a)
  OBVIOUS
<1>2. z = AfterFlush(Flushed(y, d, a), a, data)
  BY DEF processFlushRep
<1> HIDE DEF y, v
<1>3. Fine(w, rr) /\ At(w, a, q, e, rep) /\ d \in Llcs
  BY DEF Arriving
<1>4. PICK f \in DirEntry : EntryOnly(w, v, a, q, f, rep) /\ Thinned(f, e, d)
  BY <1>1, <1>3, FlushedThinned
<1>5. LeftBehind(w, v, a, q, e, rep, d)
  BY <1>4 DEF LeftBehind, Thinned
<1>6. m.t \in Gives
  BY DEF Gives
<1>7. /\ HasEntry(w, a)
      /\ \E g : Given(v, rr2, d, a, q, g, rep) /\ (m.t = "FLUSH_REP" => FlushGives(q, g))
  BY <1>5, <1>6, GivenFine
<1>8. PICK g : Given(v, rr2, d, a, q, g, rep) /\ FlushGives(q, g)
  BY <1>7
<1>9. g = f
  BY <1>4, <1>8 DEF EntryOnly, Given, At
<1>10. y = w
  <2>1. \E h : Got(w, y, a, q, e, rep, h)
    BY <1>1, <1>3, EntryGot
  <2> QED BY <1>7, <2>1 DEF Got
<1>11. z = AfterFlush(v, a, data)
  BY <1>1, <1>2, <1>10
<1>12. /\ LastingAt(v, rr2, a) /\ OthersServed(v, rr2, a)
       /\ StillWaits(q, f, d) => FrontServedAt(v, rr2, a)
  BY <1>4, <1>6, GivenServes
<1>13. f.st = "S" => Head(q).c \notin f.sharers
  <2>1. Left(f, e, d)
    BY <1>4 DEF Thinned
  <2> QED BY <2>1, FlushedFor
<1> QED BY <1>8, <1>9, <1>11, <1>12, <1>13, AfterFlushServes

(* What a write-back leaves may be read by the front request.                    *)
LEMMA WrittenServes ==
  ASSUME NEW w, NEW rr, NEW rr2, NEW d, NEW a, NEW q, NEW e, NEW rep,
         Arriving(w, rr, rr2, d, a, q, e, rep), AllServed(w, rr), NEW m, m = Head(rr[d]),
         m.t = "WB_REP", NEW data \in Filled, NEW z, NEW f, EntryOnly(w, z, a, q, f, rep),
         f.st = "S", f.sharers = e.sharers, f.fwd = e.fwd
  PROVE  RememberedAt(z, rr2, a) /\ Writable(f, data) /\ OthersServed(z, rr2, a)
<1> DEFINE known == HasEntry(w, a)
           ss == Out(w)
           s == rr[d]
<1>1. known = HasEntry(w, a) /\ ss = Out(w) /\ s = rr[d]
  OBVIOUS
<1> HIDE DEF known, ss, s
<1>2. /\ Fine(w, rr) /\ At(w, a, q, e, rep) /\ d \in Llcs /\ Taken(rr, rr2, d)
      /\ s # <<>> /\ m.a = a /\ a \in Addrs /\ w \in Works
  BY <1>1 DEF Arriving, At
<1>3. LineOK(a, q, e, rep, known, ss, rr) /\ s \in Seq(ToDirMsg)
  BY <1>1, <1>2, FineLine DEF LineAt
<1>4. rr \in [Llcs -> Seq(ToDirMsg)]
  BY <1>2 DEF Fine
<1>5. At(z, a, q, f, rep) /\ Apart(w, z, a) /\ z.out = w.out
  BY DEF EntryOnly
<1>6. Out(z) = ss /\ OnlyAt(w, z, a) /\ z \in Works
  BY <1>1, <1>5, OutSame, ApartOnly DEF At
<1>7. LastingAt(w, rr, a) /\ OthersServed(w, rr, a)
  BY <1>2 DEF AllServed, ServedAt, OthersServed
<1>8. EntryServed(e) /\ Remembered(a, q, ss, rr)
  BY <1>1, <1>2, <1>7 DEF LastingAt, Lasting, At
<1>9. m.t \notin Reqs
  BY DEF Reqs
<1>10. ASSUME NEW k \in Llcs PROVE AskingIn(k, a, q, ss, rr2)
  <2>1. AskingIn(k, a, q, ss, rr) /\ rr[d] # <<>>
    BY <1>1, <1>2, <1>8 DEF Remembered
  <2> QED BY <1>2, <1>4, <1>9, <2>1, TakenServes
<1>11. RememberedAt(z, rr2, a)
  <2>1. Remembered(a, q, ss, rr2)
    BY <1>8, <1>10 DEF Remembered
  <2> QED BY <1>5, <1>6, <2>1 DEF RememberedAt, At
<1>12. Has(s, {"WB_REP"}, a)
  <2>1. 1 \in DOMAIN s /\ Head(s) = s[1]
    BY <1>2, <1>3, Popped
  <2> QED BY <1>1, <1>2, <2>1 DEF Has, On
<1>13. d \in e.sharers
  <2>1. PairInv(d, a, cache[d][a].st, waiters[d][a], ss[d], s, q, e)
    BY <1>1, <1>2, <1>3 DEF LineOK
  <2> QED BY <1>12, <2>1 DEF PairInv, WriteBackUnderWay
<1>14. /\ e.st \in {"U", "S", "E", "M"} /\ e.sharers \subseteq Llcs
       /\ e.st \in {"E", "M"} => e.sharers = {e.owner}
       /\ e.st = "U" => e.sharers = {}
  BY <1>3 DEF LineOK, LineInv, DirEntry
<1>15. Writable(f, data)
  <2>1. CASE e.st = "S"
    BY <1>8, <2>1 DEF EntryServed, Writable
  <2>2. CASE e.st \in {"E", "M"}
    <3>1. e.owner \in Llcs /\ f.sharers = {e.owner}
      BY <1>13, <1>14, <2>2
    <3>2. data # NoData
      BY DEF Filled
    <3> QED BY <3>1, <3>2 DEF Writable
  <2> QED BY <1>13, <1>14, <2>1, <2>2
<1>16. OthersServed(z, rr2, a)
  <2>1. OthersServed(z, rr, a)
    BY <1>2, <1>6, <1>7, OthersStay
  <2>2. Head(rr[d]).a = a /\ rr[d] # <<>>
    BY <1>1, <1>2
  <2> QED BY <1>2, <1>4, <1>6, <2>1, <2>2, OthersTaken
<1> QED BY <1>11, <1>15, <1>16

LEMMA WbHandledServes ==
  ASSUME NEW w, NEW rr, NEW rr2, NEW d, NEW a, NEW q, NEW e, NEW rep,
         Arriving(w, rr, rr2, d, a, q, e, rep), AllServed(w, rr), NEW m, m = Head(rr[d]),
         m.t = "WB_REP", sys \in Systems, NEW data \in Filled,
         NEW z, z = processWbRep(w, d, a, data), z.err = NoFailure
  PROVE  Rests(z, rr2, a) /\ OthersServed(z, rr2, a)
<1> DEFINE y == getDirectoryEntry(w, a)
           v == WrittenBack(w, d, a)
<1>1. y = getDirectoryEntry(w, a) /\ v = WrittenBack(w, d, a)
  OBVIOUS
<1>2. z = AfterWb(WrittenBack(y, d, a), a, data)
  BY DEF processWbRep
<1> HIDE DEF y, v
<1>3. Fine(w, rr) /\ At(w, a, q, e, rep) /\ d \in Llcs
  BY DEF Arriving
<1>4. PICK f \in DirEntry : /\ EntryOnly(w, v, a, q, f, rep)
                            /\ f.st = "S" /\ f.sharers = e.sharers /\ f.fwd = e.fwd
  BY <1>1, <1>3, WrittenBackIs
<1>5. SharedBehind(w, v, a, q, e, rep)
  BY <1>4 DEF SharedBehind
<1>6. HasEntry(w, a) /\ q # <<>> /\ Head(q).t = "SH_REQ" /\ \E g : Ready(v, rr2, a, q, g, rep)
  BY <1>5, WrittenReady
<1>7. PICK g : Ready(v, rr2, a, q, g, rep)
  BY <1>6
<1>8. y = w
  <2>1. \E h : Got(w, y, a, q, e, rep, h)
    BY <1>1, <1>3, EntryGot
  <2> QED BY <1>6, <2>1 DEF Got
<1>9. At(v, a, q, g, rep) /\ g = f /\ v \in Works
  BY <1>4, <1>7 DEF EntryOnly, Ready, At
<1>10. v.d.q[a] = q /\ FrontReq(v, a) = Head(q)
  BY <1>9, AtFront
<1>11. z = processShReq(v, a, data)
  BY <1>1, <1>2, <1>6, <1>8, <1>10 DEF AfterWb
<1>12. RememberedAt(v, rr2, a) /\ Writable(f, data) /\ OthersServed(v, rr2, a)
  BY <1>4, WrittenServes
<1>13. MaxHwSharers \in Nat /\ data \in Data
  BY DirectoryAssumption DEF MaxHwSharers, Filled
<1>14. Goal(v, z, rr2, a, q, f, data)
  BY <1>6, <1>7, <1>9, <1>11, <1>12, <1>13, ShRests
<1> QED BY <1>9, <1>12, <1>14, GoalServes

(* handleMsgFromL2Cache. *)
LEMMA MessageServes ==
  ASSUME NEW w, NEW rr, NEW rr2, NEW d, NEW a, NEW q, NEW e, NEW rep,
         Arriving(w, rr, rr2, d, a, q, e, rep), AllServed(w, rr), NEW m, m = Head(rr[d]),
         sys \in Systems, NEW z, z = handleMsgFromL2Cache(w, d, m), z.err = NoFailure
  PROVE  AllServed(z, rr2)
<1> DEFINE y == Handled(w, d, m)
<1>1. m \in ToDirMsg /\ m.a = a /\ a \in Addrs
  BY DEF Arriving, At
<1>2. /\ m.t \in Reqs \union Gives \union {"WB_REP"} /\ m.data \in Data
      /\ m.t \in {"FLUSH_REP", "WB_REP"} => m.data \in Filled
  BY <1>1 DEF ToDirMsg, Filled
<1>3. y = Handled(w, d, m) /\ z = Settle(y, a)
  BY <1>1 DEF handleMsgFromL2Cache
<1> HIDE DEF y
<1>4. y.err = NoFailure
  BY <1>3, SettledErr
<1>5. Goes(y, rr2, a) /\ Rests(y, rr2, a) /\ OthersServed(y, rr2, a)
  <2>1. CASE m.t \in Reqs
    <3>1. y = EnqueueReq(w, d, m)
      BY <1>3, <2>1 DEF Handled, Reqs
    <3>2. Goes(y, rr2, a)
      BY <1>4, <2>1, <3>1, Enqueued
    <3> QED BY <1>4, <2>1, <3>1, <3>2, EnqueuedServes
  <2>2. CASE m.t = "INV_REP"
    <3>1. y = processInvRep(w, d, a)
      BY <1>1, <1>3, <2>2 DEF Handled
    <3>2. Goes(y, rr2, a)
      BY <1>4, <2>2, <3>1, InvHandled
    <3> QED BY <1>4, <2>2, <3>1, <3>2, InvHandledServes
  <2>3. CASE m.t = "FLUSH_REP"
    <3>1. y = processFlushRep(w, d, a, m.data)
      BY <1>1, <1>3, <2>3 DEF Handled
    <3>2. Goes(y, rr2, a)
      BY <1>2, <1>4, <2>3, <3>1, FlushHandled
    <3> QED BY <1>2, <1>4, <2>3, <3>1, <3>2, FlushHandledServes
  <2>4. CASE m.t = "WB_REP"
    <3>1. y = processWbRep(w, d, a, m.data)
      BY <1>1, <1>3, <2>4 DEF Handled
    <3>2. Goes(y, rr2, a)
      BY <1>2, <1>4, <2>4, <3>1, WbHandled
    <3> QED BY <1>2, <1>4, <2>4, <3>1, <3>2, WbHandledServes
  <2> QED BY <1>2, <2>1, <2>2, <2>3, <2>4 DEF Gives
<1>6. At(y, a, y.d.q[a], y.d.e[a], y.d.reply[a])
  <2>1. y \in Works
    BY <1>5 DEF Goes, Fine
  <2> QED BY <1>1, <2>1, FieldTypes DEF At
<1> QED BY <1>3, <1>5, <1>6, SettledServes


-----------------------------------------------------------------------------
(* A step of a cache or of the directory, for one cache and one line: whoever was    *)
(* awaited is, and whoever was asking is.                                        *)
PairKept(a, st, ws, s, r, st2, ws2, s2, r2) ==
    /\ Awaited(a, st, s, r) => Awaited(a, st2, s2, r2)
    /\ \A q, k : Asking(a, ws, s, r, q, k) => Asking(a, ws2, s2, r2, q, k)
Lasts(r, r2, a) == \A T : Has(r, T, a) => Has(r2, T, a)

LEMMA PairChain ==
  ASSUME NEW a, NEW st, NEW ws, NEW s, NEW r, NEW st1, NEW ws1, NEW s1, NEW r1,
         NEW st2, NEW ws2, NEW s2, NEW r2,
         PairKept(a, st, ws, s, r, st1, ws1, s1, r1), PairKept(a, st1, ws1, s1, r1, st2, ws2, s2, r2)
  PROVE  PairKept(a, st, ws, s, r, st2, ws2, s2, r2)
  BY DEF PairKept

LEMMA AlikeAsks ==
  ASSUME NEW s, NEW z, NEW a, Alike(s, z, a), NEW copy \in BOOLEAN
  PROVE  Live(z, Asks, a, copy) <=> Live(s, Asks, a, copy)
  BY AlikeLive

LEMMA PairKeptAlike ==
  ASSUME NEW a, NEW st, NEW ws, NEW s, NEW r, NEW st2, NEW s2, NEW r2,
         Alike(s, s2, a), Alike(r, r2, a), (st # "I") = (st2 # "I")
  PROVE  PairKept(a, st, ws, s, r, st2, ws, s2, r2)
<1> DEFINE copy == st # "I"
<1>1. copy \in BOOLEAN /\ copy = (st # "I") /\ copy = (st2 # "I")
  OBVIOUS
<1> HIDE DEF copy
<1>2. Live(s2, Asks, a, copy) <=> Live(s, Asks, a, copy)
  BY <1>1, AlikeAsks
<1>3. \A T : (Has(s2, T, a) <=> Has(s, T, a)) /\ (Has(r2, T, a) <=> Has(r, T, a))
  BY DEF Alike
<1>4. Awaited(a, st, s, r) => Awaited(a, st2, s2, r2)
  BY <1>1, <1>2, <1>3 DEF Awaited
<1>5. \A q, k : Asking(a, ws, s, r, q, k) => Asking(a, ws, s2, r2, q, k)
  BY <1>3 DEF Asking
<1> QED BY <1>4, <1>5 DEF PairKept

(* A request of the directory's is not forgotten, unless it is taken.             *)
LEMMA StillLive ==
  ASSUME NEW s \in Seq(ToCacheMsg), s # <<>>, NEW a, NEW T, NEW old \in BOOLEAN, NEW new \in BOOLEAN,
         old => new /\ ~On(Head(s), T, a), On(Head(s), DataReps, a) => new
  PROVE  Live(s, T, a, old) => Live(Tail(s), T, a, new)
<1> DEFINE z == Tail(s)
           m == Head(s)
<1>1. /\ m = s[1] /\ 1 \in DOMAIN s
      /\ \A i \in DOMAIN s : i # 1 => i - 1 \in DOMAIN z /\ s[i] = z[i - 1]
      /\ DOMAIN s \subseteq Nat /\ \A i \in DOMAIN s : i >= 1
  BY Popped
<1>2. \A U : Has(s, U, a) <=> On(m, U, a) \/ Has(z, U, a)
  BY PopHas
<1>3. m = Head(s) /\ z = Tail(s)
  OBVIOUS
<1> HIDE DEF z, m
<1>4. Behind(s, DataReps, T, a) => Behind(z, DataReps, T, a) \/ (On(m, DataReps, a) /\ Has(z, T, a))
  <2> SUFFICES ASSUME NEW i \in DOMAIN s, NEW j \in DOMAIN s, i < j, On(s[i], DataReps, a), On(s[j], T, a)
               PROVE  Behind(z, DataReps, T, a) \/ (On(m, DataReps, a) /\ Has(z, T, a))
    BY DEF Behind
  <2>1. j # 1 /\ j - 1 \in DOMAIN z /\ On(z[j - 1], T, a)
    BY <1>1
  <2>2. CASE i = 1
    BY <1>1, <2>1, <2>2 DEF Has
  <2>3. CASE i # 1
    <3>1. i - 1 \in DOMAIN z /\ On(z[i - 1], DataReps, a) /\ i - 1 < j - 1
      BY <1>1, <2>3
    <3> QED BY <2>1, <3>1 DEF Behind
  <2> QED BY <2>2, <2>3
<1> QED BY <1>2, <1>3, <1>4 DEF Live

(* A message to the cache is taken.                                            *)
LEMMA PairTaken ==
  ASSUME NEW a, NEW st, NEW ws, NEW s \in Seq(ToCacheMsg), NEW r, NEW st2, NEW ws2, NEW r2,
         s # <<>>, st # "I" => st2 # "I" /\ ~On(Head(s), Asks, a),
         On(Head(s), DataReps, a) => st2 # "I", Lasts(r, r2, a),
         ws2 = <<>> \/ Has(r2, Reqs, a) \/ (ws2 = ws /\ ~On(Head(s), Reps, a))
  PROVE  PairKept(a, st, ws, s, r, st2, ws2, Tail(s), r2)
<1> DEFINE z == Tail(s)
           old == st # "I"
           new == st2 # "I"
<1>1. /\ old \in BOOLEAN /\ old = (st # "I") /\ new \in BOOLEAN /\ new = (st2 # "I")
      /\ old => new /\ ~On(Head(s), Asks, a)
      /\ On(Head(s), DataReps, a) => new
  OBVIOUS
<1> HIDE DEF old, new
<1>2. Live(s, Asks, a, old) => Live(z, Asks, a, new)
  BY <1>1, StillLive
<1>3. Has(s, Reps, a) <=> On(Head(s), Reps, a) \/ Has(z, Reps, a)
  BY PopHas
<1> HIDE DEF z
<1>4. Awaited(a, st, s, r) => Awaited(a, st2, z, r2)
  BY <1>1, <1>2 DEF Awaited, Lasts
<1>5. \A q, k : Asking(a, ws, s, r, q, k) => Asking(a, ws2, z, r2, q, k)
  BY <1>3 DEF Asking, Lasts
<1> QED BY <1>4, <1>5 DEF PairKept, z

(* The cache has answered.                                                     *)
LEMMA PairReplied ==
  ASSUME NEW a, NEW st, NEW ws, NEW s, NEW r, NEW st2, NEW s2, NEW r2,
         Has(r2, Answering, a), Lasts(r, r2, a), Has(s, Reps, a) => Has(s2, Reps, a)
  PROVE  PairKept(a, st, ws, s, r, st2, ws, s2, r2)
<1>1. Awaited(a, st2, s2, r2)
  BY DEF Awaited
<1>2. \A q, k : Asking(a, ws, s, r, q, k) => Asking(a, ws, s2, r2, q, k)
  BY DEF Asking, Lasts
<1> QED BY <1>1, <1>2 DEF PairKept

(* A message to the directory joins the others. *)
LEMMA PairSends ==
  ASSUME NEW r \in Seq(ToDirMsg), NEW m \in ToDirMsg, NEW a
  PROVE  /\ Lasts(r, Append(r, m), a)
         /\ \A T : On(m, T, a) => Has(Append(r, m), T, a)
  BY PushHas DEF Lasts

(* The queue with older data. *)
QueueServes(q, p) ==
    /\ QueueAged(q, p)
    /\ \A i \in 1 .. Len(q) : q[i].buf = NoData => p[i].buf = NoData

LEMMA QueueServesSelf == ASSUME NEW q \in Seq(DirReq) PROVE QueueServes(q, q)
  BY QueueAgedSelf DEF QueueServes

LEMMA QueueServesOld ==
  ASSUME NEW q \in Seq(DirReq), NEW p, p = OldReqs(q)
  PROVE  QueueServes(q, p)
<1>1. QueueAged(q, p)
  BY QueueOld
<1>2. /\ p = [i \in 1 .. Len(q) |-> p[i]] /\ Len(q) \in Nat
      /\ \A i \in 1 .. Len(q) : q[i] \in DirReq /\ p[i] = [q[i] EXCEPT !.buf = Old(@)]
  BY DEF OldReqs
<1>3. ASSUME NEW m \in DirReq, m.buf = NoData, NEW x, x = [m EXCEPT !.buf = Old(@)] PROVE x.buf = NoData
  BY <1>3 DEF Old, DirReq
<1>4. ASSUME NEW i \in 1 .. Len(q), q[i].buf = NoData PROVE p[i].buf = NoData
  BY <1>2, <1>3, <1>4
<1> QED BY <1>1, <1>4 DEF QueueServes

(* What the pairs keep, the line keeps.                                        *)
LEMMA ServesKept ==
  ASSUME NEW a \in Addrs, NEW q \in Seq(DirReq), NEW e \in DirEntry, NEW rep, NEW ss, NEW rr,
         Served(a, q, e, rep, ss, rr), UNCHANGED sys,
         \A k \in Llcs : PairKept(a, cache[k][a].st, waiters[k][a], ss[k], rr[k],
                                  cache'[k][a].st, waiters'[k][a], toCache'[k], toDir'[k]),
         dir'.e[a] = e, NEW p, p = dir'.q[a], QueueServes(q, p),
         NEW new, new = dir'.reply[a], rep # <<>> => new # <<>>
  PROVE  LineServes(a)'
<1> DEFINE zz == toCache'
           yy == toDir'
           AwaitedNext(k) == Awaited(a, cache'[k][a].st, zz[k], yy[k])
           AskingNext(k) == Asking(a, waiters'[k][a], zz[k], yy[k], p, k)
<1>1. ASSUME NEW k \in Llcs PROVE AwaitedIn(k, a, ss, rr) => AwaitedNext(k)
  BY DEF PairKept, AwaitedIn
<1>2. /\ p \in Seq(DirReq) /\ Len(p) = Len(q) /\ DOMAIN p = 1 .. Len(q) /\ DOMAIN q = 1 .. Len(q)
      /\ \A i \in 1 .. Len(q) : p[i].c = q[i].c
      /\ \A i \in 1 .. Len(q) : q[i].buf = NoData => p[i].buf = NoData
  BY DEF QueueServes, QueueAged
<1>3. ASSUME NEW k \in Llcs PROVE AskingIn(k, a, q, ss, rr) => AskingNext(k)
  <2>1. Queued(q, k) => Queued(p, k)
    BY <1>2 DEF Queued
  <2>2. Asking(a, waiters[k][a], ss[k], rr[k], q, k) => Asking(a, waiters'[k][a], zz[k], yy[k], q, k)
    BY DEF PairKept
  <2> QED BY <2>1, <2>2 DEF AskingIn, Asking
<1>4. EntryServed(e)' /\ OthersUnbuffered(p)' /\ \A k \in Llcs : AskingNext(k)
  <2>1. EntryServed(e) /\ OthersUnbuffered(q) /\ \A k \in Llcs : AskingIn(k, a, q, ss, rr)
    BY DEF Served, Lasting, Remembered
  <2>2. EntryServed(e)'
    BY <2>1 DEF EntryServed, Protocol, MaxHwSharers
  <2>3. OthersUnbuffered(p)'
    BY <1>2, <2>1 DEF OthersUnbuffered
  <2> QED BY <1>3, <2>1, <2>2, <2>3
<1>5. FrontServed(a, q, e, rep, ss, rr) /\ e.sharers \subseteq Llcs
  BY DEF Served, DirEntry
<1>6. q # <<>> => /\ Head(p).c = Head(q).c /\ Head(p).t = Head(q).t /\ Head(p).wait = Head(q).wait
                  /\ Head(p).from = Head(q).from /\ (Granted(p) <=> Granted(q))
  BY QueueAgedFront DEF QueueServes
<1>7. p # <<>> =>
        /\ Head(p).wait => new # <<>>
        /\ ~Head(p).wait /\ Head(p).from # NoCore => Head(p).from \in Llcs /\ AwaitedNext(Head(p).from)
        /\ ~Granted(p) /\ Head(p).t = "SH_REQ" => \E k \in Blockers(p, e) : AwaitedNext(k)
        /\ ~Granted(p) /\ Head(p).t # "SH_REQ" =>
               /\ Blockers(p, e) # {}
               /\ \A k \in Blockers(p, e) : AwaitedNext(k)
  <2> SUFFICES ASSUME p # <<>>
               PROVE  /\ Head(p).wait => new # <<>>
                      /\ ~Head(p).wait /\ Head(p).from # NoCore =>
                             Head(p).from \in Llcs /\ AwaitedNext(Head(p).from)
                      /\ ~Granted(p) /\ Head(p).t = "SH_REQ" => \E k \in Blockers(p, e) : AwaitedNext(k)
                      /\ ~Granted(p) /\ Head(p).t # "SH_REQ" =>
                             /\ Blockers(p, e) # {}
                             /\ \A k \in Blockers(p, e) : AwaitedNext(k)
    OBVIOUS
  <2>1. q # <<>>
    BY <1>2
  <2>2. Blockers(p, e) = Blockers(q, e) /\ Blockers(q, e) \subseteq Llcs
    BY <1>5, <1>6, <2>1 DEF Blockers
  <2> HIDE DEF AwaitedNext
  <2> QED BY <1>1, <1>5, <1>6, <2>1, <2>2 DEF FrontServed
<1>8. Remembered(a, dir.q[a], toCache, toDir)'
  BY <1>4 DEF Remembered, AskingIn
<1>9. FrontServed(a, dir.q[a], dir.e[a], dir.reply[a], toCache, toDir)'
  BY <1>7 DEF FrontServed, AwaitedIn
<1> QED BY <1>4, <1>8, <1>9 DEF LineServes, Served, Lasting


-----------------------------------------------------------------------------
(* Every line is served, at every step.                                        *)
Serves == \A a \in Addrs : LineServes(a)
DirServes(d, g) ==
    /\ g.e = d.e
    /\ \A b \in Addrs : QueueServes(d.q[b], g.q[b]) /\ (d.reply[b] # <<>> => g.reply[b] # <<>>)
AllKept ==
    \A b \in Addrs, k \in Llcs :
        PairKept(b, cache[k][b].st, waiters[k][b], toCache[k], toDir[k],
                 cache'[k][b].st, waiters'[k][b], toCache'[k], toDir'[k])
KeptAfter(c, lines, s, r) ==
    \A b \in Addrs : PairKept(b, cache[c][b].st, waiters[c][b], toCache[c], toDir[c],
                              lines[b].st, waiters'[c][b], s, r)

LEMMA PairsServe ==
  ASSUME IInv, Serves, UNCHANGED sys, DirServes(dir, dir'), AllKept
  PROVE  Serves'
<1> SUFFICES ASSUME NEW a \in Addrs PROVE LineServes(a)'
  BY DEF Serves
<1> DEFINE q == dir.q[a]
           e == dir.e[a]
           rep == dir.reply[a]
           p == dir'.q[a]
           new == dir'.reply[a]
<1>1. q \in Seq(DirReq) /\ e \in DirEntry
  BY CacheTypes DEF Directory
<1>2. Served(a, q, e, rep, toCache, toDir)
  BY DEF Serves, LineServes
<1>3. dir'.e[a] = e /\ p = dir'.q[a] /\ new = dir'.reply[a] /\ QueueServes(q, p)
      /\ (rep # <<>> => new # <<>>)
  BY DEF DirServes
<1>4. \A k \in Llcs : PairKept(a, cache[k][a].st, waiters[k][a], toCache[k], toDir[k],
                               cache'[k][a].st, waiters'[k][a], toCache'[k], toDir'[k])
  BY DEF AllKept
<1> HIDE DEF q, e, rep, p, new
<1> QED BY <1>1, <1>2, <1>3, <1>4, ServesKept

LEMMA DirServesSelf ==
  ASSUME NEW d \in Directory PROVE DirServes(d, d)
<1>1. \A b \in Addrs : d.q[b] \in Seq(DirReq)
  BY DEF Directory
<1> QED BY <1>1, QueueServesSelf DEF DirServes

LEMMA DirServesOld ==
  ASSUME NEW d \in Directory, NEW a \in Addrs, NEW g, g = OldDir(d, a)
  PROVE  DirServes(d, g)
<1> DEFINE newQ == OldReqs(d.q[a])
           newReply == [i \in DOMAIN d.reply[a] |-> Stale]
<1>1. d.reply \in [Addrs -> Seq(Filled)] /\ d.q \in [Addrs -> Seq(DirReq)]
  BY DEF Directory
<1>2. newReply \in Seq(Filled) /\ Len(newReply) = Len(d.reply[a])
  BY <1>1, RepliesOld
<1>3. QueueServes(d.q[a], newQ)
  BY <1>1, QueueServesOld
<1>4. g = [d EXCEPT !.mem[a] = Stale, !.reply[a] = newReply, !.q[a] = newQ]
  BY DEF OldDir
<1>5. d.reply[a] # <<>> => newReply # <<>>
  <2>1. d.reply[a] \in Seq(Filled)
    BY <1>1
  <2> HIDE DEF newReply
  <2> QED BY <1>2, <2>1
<1> HIDE DEF newReply, newQ
<1>6. g.e = d.e /\ g.q = [d.q EXCEPT ![a] = newQ] /\ g.reply = [d.reply EXCEPT ![a] = newReply]
  BY <1>4 DEF Directory
<1>7. ASSUME NEW b \in Addrs
      PROVE  QueueServes(d.q[b], g.q[b]) /\ (d.reply[b] # <<>> => g.reply[b] # <<>>)
  <2>1. CASE b = a
    <3>1. g.q[b] = newQ /\ g.reply[b] = newReply
      BY <1>1, <1>6, <2>1
    <3> QED BY <1>3, <1>5, <2>1, <3>1
  <2>2. CASE b # a
    <3>1. g.q[b] = d.q[b] /\ g.reply[b] = d.reply[b] /\ d.q[b] \in Seq(DirReq)
      BY <1>1, <1>6, <2>2
    <3> QED BY <3>1, QueueServesSelf
  <2> QED BY <2>1, <2>2
<1> QED BY <1>6, <1>7 DEF DirServes

LEMMA ServesStay ==
  ASSUME IInv, Serves, UNCHANGED <<sys, cache, waiters, toDir, toCache, dir>>
  PROVE  Serves'
<1>1. DirServes(dir, dir')
  <2>1. dir \in Directory /\ dir' = dir
    BY CacheTypes
  <2> QED BY <2>1, DirServesSelf
<1>2. ASSUME NEW b \in Addrs, NEW k \in Llcs
      PROVE  PairKept(b, cache[k][b].st, waiters[k][b], toCache[k], toDir[k],
                      cache'[k][b].st, waiters'[k][b], toCache'[k], toDir'[k])
  BY DEF PairKept
<1>3. AllKept
  BY <1>2 DEF AllKept
<1> QED BY <1>1, <1>3, PairsServe

(* The directory works on one message, or on what DRAM has read.                  *)
LEMMA DirStepServes ==
  ASSUME IInv, Serves, NEW z, NEW rest, z.err = NoFailure => Fine(z, rest) /\ AllServed(z, rest),
         DirStep(z, rest), UNCHANGED sys
  PROVE  Serves'
<1>1. CASE z.err # NoFailure
  BY <1>1, ServesStay DEF DirStep, Stop
<1>2. CASE z.err = NoFailure
  <2>1. /\ dir' = z.d /\ toDir' = rest
        /\ toCache' = [c \in Llcs |-> toCache[c] \o z.out[c]]
        /\ UNCHANGED <<cache, waiters>>
    BY <1>2 DEF DirStep
  <2>2. toCache' = Out(z)
    BY <2>1 DEF Out
  <2>3. z \in Works /\ AllServed(z, rest)
    BY <1>2 DEF Fine
  <2> SUFFICES ASSUME NEW a \in Addrs PROVE LineServes(a)'
    BY DEF Serves
  <2> DEFINE q == z.d.q[a]
             e == z.d.e[a]
             rep == z.d.reply[a]
             ss == Out(z)
  <2>4. q \in Seq(DirReq) /\ e \in DirEntry
    BY <2>3, FieldTypes
  <2>5. Served(a, q, e, rep, ss, rest)
    BY <2>3 DEF AllServed, ServedAt, LastingAt, FrontServedAt, Served
  <2>6. \A k \in Llcs : PairKept(a, cache[k][a].st, waiters[k][a], ss[k], rest[k],
                                 cache'[k][a].st, waiters'[k][a], toCache'[k], toDir'[k])
    BY <2>1, <2>2 DEF PairKept
  <2>7. dir'.e[a] = e /\ q = dir'.q[a] /\ rep = dir'.reply[a]
    BY <2>1
  <2> HIDE DEF q, e, rep, ss
  <2>8. QueueServes(q, q)
    BY <2>4, QueueServesSelf
  <2> QED BY <2>4, <2>5, <2>6, <2>7, <2>8, ServesKept
<1> QED BY <1>1, <1>2

LEMMA WorkServed ==
  ASSUME IInv, Serves, NEW v \in Addrs, NEW o \in Llcs, NEW w, w = Working(dir, v, o)
  PROVE  AllServed(w, toDir)
<1>1. w.d = dir /\ w.out = [c \in Llcs |-> <<>>]
  BY DEF Working
<1>2. Out(w) = toCache
  <2>1. toCache \in [Llcs -> Seq(ToCacheMsg)]
    BY CacheTypes
  <2>2. ASSUME NEW k \in Llcs PROVE toCache[k] \o w.out[k] = toCache[k]
    BY <1>1, <2>1, EmptyAfter
  <2> QED BY <2>1, <2>2 DEF Out
<1>3. ASSUME NEW b \in Addrs PROVE ServedAt(w, toDir, b)
  <2>1. Served(b, dir.q[b], dir.e[b], dir.reply[b], toCache, toDir)
    BY DEF Serves, LineServes
  <2> QED BY <1>1, <1>2, <2>1 DEF ServedAt, LastingAt, FrontServedAt, Served
<1> QED BY <1>3 DEF AllServed

LEMMA DirHandlesServes ==
  ASSUME IInv, Serves, NEW c \in Llcs, NEW v \in Addrs, NEW o \in Llcs, DirHandles(c, v, o)
  PROVE  Serves'
<1> DEFINE w == Working(dir, v, o)
           m == Head(toDir[c])
           z == handleMsgFromL2Cache(w, c, m)
           rest == [toDir EXCEPT ![c] = Tail(@)]
<1>1. toDir[c] # <<>> /\ DirStep(z, rest) /\ UNCHANGED sys
  BY DEF DirHandles
<1>2. w = Working(dir, v, o) /\ m = Head(toDir[c]) /\ z = handleMsgFromL2Cache(w, c, m)
  OBVIOUS
<1>3. /\ sys \in Systems /\ toDir \in [Llcs -> Seq(ToDirMsg)]
  BY DEF IInv, Types
<1>4. toDir[c] \in Seq(ToDirMsg) /\ m \in ToDirMsg /\ m.a \in Addrs
  <2>1. toDir[c] \in Seq(ToDirMsg)
    BY <1>3
  <2>2. m \in ToDirMsg
    BY <1>1, <2>1, Popped
  <2> QED BY <2>1, <2>2 DEF ToDirMsg
<1>5. rest \in [Llcs -> Seq(ToDirMsg)] /\ Taken(toDir, rest, c)
  BY <1>1, <1>3, <1>4 DEF Taken
<1> HIDE DEF w, m, z, rest
<1>6. Fine(w, toDir) /\ w.next = FALSE /\ AllServed(w, toDir)
  BY <1>2, WorkBegins, WorkServed
<1> DEFINE a == m.a
           q == w.d.q[a]
           e == w.d.e[a]
           rep == w.d.reply[a]
<1>7. At(w, a, q, e, rep)
  <2>1. w \in Works
    BY <1>6 DEF Fine
  <2> QED BY <1>4, <2>1, FieldTypes DEF At
<1>8. Arriving(w, toDir, rest, c, a, q, e, rep)
  BY <1>1, <1>2, <1>4, <1>5, <1>6, <1>7 DEF Arriving
<1> HIDE DEF a, q, e, rep
<1>9. z.err = NoFailure => Fine(z, rest) /\ AllServed(z, rest)
  BY <1>2, <1>3, <1>6, <1>8, MessageHandled, MessageServes
<1> QED BY <1>1, <1>9, DirStepServes

LEMMA DramRepliesServes ==
  ASSUME IInv, Serves, NEW a \in Addrs, NEW v \in Addrs, NEW o \in Llcs, DramReplies(a, v, o)
  PROVE  Serves'
<1> DEFINE w == Working(dir, v, o)
           z == processDRAMReply(w, a)
           q == w.d.q[a]
           e == w.d.e[a]
           rep == w.d.reply[a]
<1>1. dir.reply[a] # <<>> /\ DirStep(z, toDir) /\ UNCHANGED sys
  BY DEF DramReplies
<1>2. w = Working(dir, v, o) /\ z = processDRAMReply(w, a) /\ q = w.d.q[a] /\ e = w.d.e[a]
      /\ rep = w.d.reply[a]
  OBVIOUS
<1>3. sys \in Systems
  BY DEF IInv, Types
<1> HIDE DEF w, z, q, e, rep
<1>4. Fine(w, toDir) /\ w.d = dir /\ AllServed(w, toDir)
  BY <1>2, WorkBegins, WorkServed
<1>5. At(w, a, q, e, rep)
  <2>1. w \in Works
    BY <1>4 DEF Fine
  <2> QED BY <1>2, <2>1, FieldTypes DEF At
<1>6. rep # <<>>
  BY <1>1, <1>2, <1>4
<1>7. z.err = NoFailure => Fine(z, toDir) /\ AllServed(z, toDir)
  BY <1>2, <1>3, <1>4, <1>5, <1>6, DramDone, DramDoneServes
<1> QED BY <1>1, <1>7, DirStepServes

-----------------------------------------------------------------------------
(* A step of a cache. *)
LEMMA StepServesMoved ==
  ASSUME IInv, Serves, NEW c \in Llcs, NEW lines, NEW out,
         cache' = [k \in Llcs |-> IF k = c THEN lines ELSE cache[k]],
         toDir' = [k \in Llcs |-> IF k = c THEN toDir[k] \o out ELSE toDir[k]],
         dir' = dir, UNCHANGED sys, OthersKept(c, toCache'),
         KeptAfter(c, lines, toCache'[c], toDir[c] \o out)
  PROVE  Serves'
<1>1. ASSUME NEW b \in Addrs, NEW k \in Llcs
      PROVE  PairKept(b, cache[k][b].st, waiters[k][b], toCache[k], toDir[k],
                      cache'[k][b].st, waiters'[k][b], toCache'[k], toDir'[k])
  <2>1. CASE k = c
    <3>1. cache'[k] = lines /\ toDir'[k] = toDir[c] \o out
      BY <2>1
    <3>2. PairKept(b, cache[c][b].st, waiters[c][b], toCache[c], toDir[c],
                   lines[b].st, waiters'[c][b], toCache'[c], toDir[c] \o out)
      BY DEF KeptAfter
    <3> QED BY <2>1, <3>1, <3>2
  <2>2. CASE k # c
    <3>1. /\ cache'[k] = cache[k] /\ toDir'[k] = toDir[k]
          /\ toCache'[k] = toCache[k] /\ waiters'[k] = waiters[k]
      BY <2>2 DEF OthersKept
    <3> QED BY <3>1 DEF PairKept
  <2> QED BY <2>1, <2>2
<1>2. AllKept
  BY <1>1 DEF AllKept
<1>3. DirServes(dir, dir')
  BY CacheTypes, DirServesSelf
<1> QED BY <1>2, <1>3, PairsServe

LEMMA StepServesPlain ==
  ASSUME IInv, Serves, NEW c \in Llcs, NEW lines \in [Addrs -> CacheLine], NEW out,
         CacheStep(c, lines, out, {}), UNCHANGED sys, OthersKept(c, toCache'),
         KeptAfter(c, lines, toCache'[c], toDir[c] \o out)
  PROVE  Serves'
<1>1. Types
  BY DEF IInv
<1>2. /\ cache' = [k \in Llcs |-> IF k = c THEN lines ELSE cache[k]]
      /\ toDir' = [k \in Llcs |-> IF k = c THEN toDir[k] \o out ELSE toDir[k]]
      /\ dir' = dir
  BY <1>1, StepPlain
<1> QED BY <1>2, StepServesMoved

(* A step that writes: what it moves, and then older data everywhere else. *)
LEMMA StepServesStore ==
  ASSUME IInv, Serves, NEW c \in Llcs, NEW lines \in [Addrs -> CacheLine], NEW out \in Seq(ToDirMsg),
         NEW a \in Addrs, lines[a].st \in {"E", "M"},
         CacheStep(c, lines, out, {a}), UNCHANGED sys,
         NEW ss \in [Llcs -> Seq(ToCacheMsg)], OthersKept(c, ss),
         toCache' = [k \in Llcs |-> OldMsgs(ss[k], a)],
         KeptAfter(c, lines, ss[c], toDir[c] \o out)
  PROVE  Serves'
<1>1. /\ cache \in [Llcs -> [Addrs -> CacheLine]] /\ toDir \in [Llcs -> Seq(ToDirMsg)]
      /\ dir \in Directory
  BY CacheTypes
<1> DEFINE rr == [k \in Llcs |-> IF k = c THEN toDir[k] \o out ELSE toDir[k]]
           mine == [x \in Addrs |-> IF x = a THEN Line("M", Fresh) ELSE lines[x]]
           others(k) == [x \in Addrs |-> IF x = a THEN [cache[k][x] EXCEPT !.data = Old(@)]
                                                  ELSE cache[k][x]]
<1>2. /\ cache' = [k \in Llcs |-> IF k = c THEN mine ELSE others(k)]
      /\ toDir' = [k \in Llcs |-> OldMsgs(rr[k], a)]
      /\ dir' = OldDir(dir, a)
  BY StepStore
<1>3. rr \in [Llcs -> Seq(ToDirMsg)] /\ rr[c] = toDir[c] \o out /\ \A k \in Llcs : k # c => rr[k] = toDir[k]
  BY <1>1
<1>4. \A b \in Addrs : (mine[b].st # "I") = (lines[b].st # "I")
  BY WrittenLine
<1>5. ASSUME NEW k \in Llcs, NEW b \in Addrs PROVE others(k)[b].st = cache[k][b].st
  <2>1. cache[k][b] \in CacheLine
    BY <1>1
  <2> QED BY <2>1, LineOld
<1>6. ASSUME NEW k \in Llcs, NEW b \in Addrs
      PROVE  Alike(ss[k], toCache'[k], b) /\ Alike(rr[k], toDir'[k], b)
  <2>1. toCache'[k] = OldMsgs(ss[k], a) /\ toDir'[k] = OldMsgs(rr[k], a)
    BY <1>2
  <2>2. ss[k] \in Seq(ToCacheMsg) /\ rr[k] \in Seq(ToDirMsg)
    BY <1>3
  <2> HIDE DEF rr
  <2> QED BY <2>1, <2>2, OldToDir, OldToCache
<1>7. DirServes(dir, dir')
  BY <1>1, <1>2, DirServesOld
<1> HIDE DEF rr, mine, others
<1>8. ASSUME NEW b \in Addrs, NEW k \in Llcs
      PROVE  PairKept(b, cache[k][b].st, waiters[k][b], toCache[k], toDir[k],
                      cache'[k][b].st, waiters'[k][b], toCache'[k], toDir'[k])
  <2>1. Alike(ss[k], toCache'[k], b) /\ Alike(rr[k], toDir'[k], b)
    BY <1>6
  <2>2. CASE k = c
    <3>1. PairKept(b, cache[c][b].st, waiters[c][b], toCache[c], toDir[c],
                   lines[b].st, waiters'[c][b], ss[c], rr[c])
      BY <1>3 DEF KeptAfter
    <3>2. cache'[c] = mine
      BY <1>2
    <3>3. (lines[b].st # "I") = (cache'[c][b].st # "I")
      BY <1>4, <3>2
    <3>4. PairKept(b, lines[b].st, waiters'[c][b], ss[c], rr[c],
                   cache'[c][b].st, waiters'[c][b], toCache'[c], toDir'[c])
      BY <2>1, <2>2, <3>3, PairKeptAlike
    <3>5. PairKept(b, cache[c][b].st, waiters[c][b], toCache[c], toDir[c],
                   cache'[c][b].st, waiters'[c][b], toCache'[c], toDir'[c])
      BY <3>1, <3>4, PairChain
    <3> QED BY <2>2, <3>5
  <2>3. CASE k # c
    <3>1. cache'[k] = others(k) /\ rr[k] = toDir[k] /\ ss[k] = toCache[k] /\ waiters'[k] = waiters[k]
      BY <1>2, <1>3, <2>3 DEF OthersKept
    <3>2. cache'[k][b].st = cache[k][b].st
      BY <1>5, <3>1
    <3> QED BY <2>1, <3>1, <3>2, PairKeptAlike
  <2> QED BY <2>2, <2>3
<1>9. AllKept
  BY <1>8 DEF AllKept
<1> QED BY <1>7, <1>9, PairsServe

LEMMA PairSame ==
  ASSUME NEW a, NEW st, NEW ws, NEW s, NEW r PROVE PairKept(a, st, ws, s, r, st, ws, s, r)
  BY DEF PairKept

(* A write to a line that is writable here. *)
LEMMA WriteHitServes ==
  ASSUME IInv, Serves, NEW th \in Threads, NEW a \in Addrs, WriteHit(th, a) PROVE Serves'
<1> DEFINE c == LlcOf[th]
<1>1. c \in Llcs
  BY ThreadsCache
<1>2. /\ cache[c][a].st \in {"E", "M"}
      /\ CacheStep(c, cache[c], <<>>, {a})
      /\ toCache' = [k \in Llcs |-> OldMsgs(toCache[k], a)]
      /\ UNCHANGED <<sys, waiters, failed>>
  BY DEF WriteHit
<1> HIDE DEF c
<1>3. /\ cache[c] \in [Addrs -> CacheLine]
      /\ toDir[c] \in Seq(ToDirMsg) /\ toCache \in [Llcs -> Seq(ToCacheMsg)]
  BY <1>1, CacheTypes
<1>4. toDir[c] \o <<>> = toDir[c] /\ <<>> \in Seq(ToDirMsg)
  BY <1>3, NothingSent
<1>5. OthersKept(c, toCache)
  BY <1>2 DEF OthersKept
<1> DEFINE lines == cache[c]
           out == <<>>
<1>6. KeptAfter(c, lines, toCache[c], toDir[c] \o out)
  <2>1. lines = cache[c] /\ toDir[c] \o out = toDir[c] /\ waiters' = waiters
    BY <1>2, <1>4
  <2> HIDE DEF lines, out
  <2> QED BY <2>1, PairSame DEF KeptAfter
<1>7. /\ lines \in [Addrs -> CacheLine] /\ out \in Seq(ToDirMsg) /\ lines[a].st \in {"E", "M"}
      /\ CacheStep(c, lines, out, {a})
  BY <1>2, <1>3, <1>4
<1> HIDE DEF lines, out
<1> QED BY <1>1, <1>2, <1>3, <1>5, <1>6, <1>7, StepServesStore

(* A thread joins those who wait, or is the first and sends a request.            *)
LEMMA PairWaits ==
  ASSUME NEW a, NEW st, NEW ws, NEW s, NEW r, NEW st2, NEW ws2, NEW r2,
         (st # "I") = (st2 # "I"), Lasts(r, r2, a), ws # <<>> \/ Has(r2, Reqs, a)
  PROVE  PairKept(a, st, ws, s, r, st2, ws2, s, r2)
<1>1. Awaited(a, st, s, r) => Awaited(a, st2, s, r2)
  BY DEF Awaited, Lasts
<1>2. \A q, k : Asking(a, ws, s, r, q, k) => Asking(a, ws2, s, r2, q, k)
  BY DEF Asking, Lasts
<1> QED BY <1>1, <1>2 DEF PairKept

WaitsHere(c, a, lines, out) ==
    \A vs : vs # <<>> => PairKept(a, cache[c][a].st, waiters[c][a], toCache[c], toDir[c],
                                  lines[a].st, vs, toCache[c], toDir[c] \o out)

LEMMA MissMovesServes ==
  ASSUME IInv, Serves, NEW c \in Llcs, NEW a \in Addrs, NEW x \in Waiter,
         NEW lines \in [Addrs -> CacheLine], NEW out \in Seq(ToDirMsg),
         MissStep(c, a, x, lines, out), OtherLines(c, a, lines, out), WaitsHere(c, a, lines, out)
  PROVE  Serves'
<1>1. /\ cache \in [Llcs -> [Addrs -> CacheLine]] /\ waiters \in WaitersType
      /\ toDir \in [Llcs -> Seq(ToDirMsg)] /\ toCache \in [Llcs -> Seq(ToCacheMsg)]
  BY CacheTypes
<1>2. /\ cache' = [k \in Llcs |-> IF k = c THEN lines ELSE cache[k]]
      /\ toDir' = [k \in Llcs |-> IF k = c THEN toDir[k] \o out ELSE toDir[k]]
      /\ UNCHANGED <<sys, toCache, dir>>
  BY <1>1 DEF MissStep
<1>3. waiters[c] \in [Addrs -> Seq(Waiter)] /\ waiters[c][a] \in Seq(Waiter)
  BY <1>1 DEF WaitersType
<1> DEFINE ws == Append(waiters[c][a], x)
<1>4. ws \in Seq(Waiter) /\ ws # <<>>
  BY <1>3, QueueGrows, Zenon
<1>5. waiters' = [waiters EXCEPT ![c] = [waiters[c] EXCEPT ![a] = ws]]
  BY DEF MissStep
<1> HIDE DEF ws
<1>6. /\ waiters'[c][a] = ws
      /\ \A b \in Addrs : b # a => waiters'[c][b] = waiters[c][b]
      /\ \A k \in Llcs : k # c => waiters'[k] = waiters[k]
  BY <1>1, <1>3, <1>4, <1>5 DEF WaitersType
<1>7. OthersKept(c, toCache')
  BY <1>2, <1>6 DEF OthersKept
<1>8. ASSUME NEW b \in Addrs
      PROVE  PairKept(b, cache[c][b].st, waiters[c][b], toCache[c], toDir[c],
                      lines[b].st, waiters'[c][b], toCache'[c], toDir[c] \o out)
  <2>1. CASE b = a
    BY <1>2, <1>4, <1>6, <2>1 DEF WaitsHere
  <2>2. CASE b # a
    <3>1. Alike(toDir[c], toDir[c] \o out, b) /\ lines[b] = cache[c][b]
      BY <2>2 DEF OtherLines
    <3>2. PairKept(b, cache[c][b].st, waiters[c][b], toCache[c], toDir[c],
                   lines[b].st, waiters[c][b], toCache[c], toDir[c] \o out)
      BY <3>1, AlikeSelf, PairKeptAlike
    <3> QED BY <1>2, <1>6, <2>2, <3>2
  <2> QED BY <2>1, <2>2
<1>9. KeptAfter(c, lines, toCache'[c], toDir[c] \o out)
  BY <1>8 DEF KeptAfter
<1> QED BY <1>2, <1>7, <1>9, StepServesMoved

LEMMA MissSendsServes ==
  ASSUME IInv, Serves, NEW c \in Llcs, NEW a \in Addrs, NEW x \in Waiter,
         NEW lines \in [Addrs -> CacheLine], NEW m \in ToDirMsg, m.a = a, m.t \in Reqs,
         MissSent(c, a, x, lines, m), MissLines(c, a, lines, m)
  PROVE  Serves'
<1>0. /\ \A b \in Addrs : b # a => lines[b] = cache[c][b]
      /\ (cache[c][a].st # "I") = (lines[a].st # "I")
  BY DEF MissLines
<1>1. toDir[c] \in Seq(ToDirMsg)
  BY CacheTypes
<1> DEFINE out == <<m>>
<1>2. toDir[c] \o out = Append(toDir[c], m) /\ out \in Seq(ToDirMsg)
  BY <1>1, OneSent
<1> HIDE DEF out
<1>3. MissStep(c, a, x, lines, out)
  BY <1>2 DEF MissStep, MissSent
<1>4. ASSUME NEW b \in Addrs, b # a
      PROVE  lines[b] = cache[c][b] /\ Alike(toDir[c], toDir[c] \o out, b)
  <2>1. Alike(toDir[c], Append(toDir[c], m), b)
    BY <1>1, <1>4, PushOther
  <2> QED BY <1>0, <1>2, <1>4, <2>1
<1>5. Lasts(toDir[c], toDir[c] \o out, a) /\ Has(toDir[c] \o out, Reqs, a)
  <2>1. On(m, Reqs, a)
    BY DEF On
  <2> QED BY <1>1, <1>2, <2>1, PairSends
<1>6. OtherLines(c, a, lines, out) /\ WaitsHere(c, a, lines, out)
  BY <1>0, <1>4, <1>5, PairWaits DEF OtherLines, WaitsHere
<1> QED BY <1>2, <1>3, <1>6, MissMovesServes

LEMMA MissJoinsServes ==
  ASSUME IInv, Serves, NEW c \in Llcs, NEW a \in Addrs, NEW x \in Waiter, waiters[c][a] # <<>>,
         waiters' = [waiters EXCEPT ![c][a] = Append(@, x)],
         UNCHANGED <<sys, cache, toDir, toCache, dir>>
  PROVE  Serves'
<1>1. /\ cache \in [Llcs -> [Addrs -> CacheLine]] /\ toDir \in [Llcs -> Seq(ToDirMsg)]
      /\ toDir[c] \in Seq(ToDirMsg) /\ cache[c] \in [Addrs -> CacheLine]
  BY CacheTypes
<1> DEFINE out == <<>>
           lines == cache[c]
<1>2. toDir[c] \o out = toDir[c] /\ out \in Seq(ToDirMsg)
  BY <1>1, NothingSent
<1> HIDE DEF out
<1>3. MissStep(c, a, x, lines, out)
  BY <1>1, <1>2 DEF MissStep
<1>4. lines \in [Addrs -> CacheLine] /\ lines = cache[c]
  BY <1>1
<1> HIDE DEF lines
<1>5. OtherLines(c, a, lines, out)
  BY <1>2, <1>4, AlikeSelf DEF OtherLines
<1>6. WaitsHere(c, a, lines, out)
  <2>1. Lasts(toDir[c], toDir[c], a)
    BY DEF Lasts
  <2> QED BY <1>2, <1>4, <2>1, PairWaits DEF WaitsHere
<1> QED BY <1>2, <1>3, <1>4, <1>5, <1>6, MissMovesServes

LEMMA MissServes ==
  ASSUME IInv, Serves, NEW th \in Threads, NEW a \in Addrs, NEW ex \in BOOLEAN, Miss(th, a, ex)
  PROVE  Serves'
<1> DEFINE c == LlcOf[th]
           st == cache[c][a].st
           first == waiters[c][a] = <<>>
           t == CASE ex /\ st = "S" -> "UPGRADE_REQ"
                  [] ex /\ st # "S" -> "EX_REQ"
                  [] ~ex            -> "SH_REQ"
           fails == first /\ t = "EX_REQ" /\ st # "I"
           x == [th |-> th, ex |-> ex]
           m == Msg(t, a, NoData)
<1>1. c \in Llcs
  BY ThreadsCache
<1>2. /\ ~Permissible(st, ex) /\ UNCHANGED sys
      /\ fails => UNCHANGED <<cache, waiters, toDir, toCache, dir>>
      /\ ~fails => /\ waiters' = [waiters EXCEPT ![c][a] = Append(@, x)]
                   /\ toDir' = IF first THEN [toDir EXCEPT ![c] = Append(@, m)] ELSE toDir
                   /\ cache' = IF first /\ t = "UPGRADE_REQ" THEN [cache EXCEPT ![c][a].st = "SU"]
                                                             ELSE cache
                   /\ UNCHANGED <<toCache, dir>>
  <2> HIDE DEF c
  <2> QED BY DEF Miss, Stop, c
<1>3. x \in Waiter
  BY DEF Waiter
<1>4. cache \in [Llcs -> [Addrs -> CacheLine]] /\ cache[c] \in [Addrs -> CacheLine] /\ st \in CStates
  <2>1. cache \in [Llcs -> [Addrs -> CacheLine]]
    BY CacheTypes
  <2> QED BY <1>1, <2>1 DEF CacheLine
<1>5. t \in Reqs /\ (t # "UPGRADE_REQ" => t \in Fetches) /\ (t = "UPGRADE_REQ" => st = "S")
  BY DEF Reqs, Fetches
<1>6. m \in ToDirMsg /\ m.a = a /\ m.t = t
  <2> HIDE DEF t
  <2> QED BY <1>5 DEF Msg, ToDirMsg, Data, Reqs
<1>7. first => st # "SU"
  <2>1. PairInv(c, a, st, waiters[c][a], toCache[c], toDir[c], dir.q[a], dir.e[a])
    BY <1>1, PairsHere DEF PairHere
  <2> QED BY <2>1 DEF PairInv, SomebodyWaits
<1>8. ~fails /\ first /\ t # "UPGRADE_REQ" => st = "I"
  BY <1>2, <1>4, <1>7 DEF Permissible, CStates
<1> HIDE DEF c, st, t, x, m
<1>9. CASE fails
  <2>1. UNCHANGED <<sys, cache, waiters, toDir, toCache, dir>>
    BY <1>2, <1>9
  <2> QED BY <2>1, ServesStay
<1>10. CASE ~fails /\ ~first
  <2>1. /\ waiters' = [waiters EXCEPT ![c][a] = Append(@, x)] /\ waiters[c][a] # <<>>
        /\ UNCHANGED <<sys, cache, toDir, toCache, dir>>
    BY <1>2, <1>10
  <2> QED BY <1>1, <1>3, <2>1, MissJoinsServes
<1>11. CASE ~fails /\ first /\ t = "UPGRADE_REQ"
  <2> DEFINE lines == [cache[c] EXCEPT ![a].st = "SU"]
  <2>1. "SU" \in CStates /\ cache[c][a].st = "S"
    BY <1>5, <1>11 DEF CStates, st
  <2>2. /\ lines \in [Addrs -> CacheLine] /\ lines[a].st = "SU"
        /\ \A b \in Addrs : b # a => lines[b] = cache[c][b]
    <3>1. lines = [cache[c] EXCEPT ![a].st = "SU"]
      OBVIOUS
    <3> HIDE DEF lines
    <3> QED BY <1>4, <2>1, <3>1, StateSet
  <2>3. cache' = [cache EXCEPT ![c] = lines]
    BY <1>2, <1>11
  <2> HIDE DEF lines
  <2>4. /\ waiters' = [waiters EXCEPT ![c][a] = Append(@, x)] /\ waiters[c][a] = <<>>
        /\ toDir' = [toDir EXCEPT ![c] = Append(@, m)] /\ UNCHANGED <<sys, toCache, dir>>
    BY <1>2, <1>11
  <2>5. m.t = "UPGRADE_REQ"
    BY <1>6, <1>11
  <2>6. MissSent(c, a, x, lines, m) /\ MissLines(c, a, lines, m)
    BY <2>1, <2>2, <2>3, <2>4, <2>5 DEF MissSent, MissLines
  <2> QED BY <1>1, <1>3, <1>5, <1>6, <2>2, <2>6, MissSendsServes
<1>12. CASE ~fails /\ first /\ t # "UPGRADE_REQ"
  <2> DEFINE lines == cache[c]
  <2>1. m.t \in Fetches /\ cache[c][a].st = "I" /\ lines[a].st = "I"
    BY <1>5, <1>6, <1>8, <1>12 DEF st
  <2>2. /\ lines \in [Addrs -> CacheLine] /\ cache' = [cache EXCEPT ![c] = lines]
        /\ \A b \in Addrs : b # a => lines[b] = cache[c][b]
    BY <1>2, <1>4, <1>12
  <2> HIDE DEF lines
  <2>3. /\ waiters' = [waiters EXCEPT ![c][a] = Append(@, x)] /\ waiters[c][a] = <<>>
        /\ toDir' = [toDir EXCEPT ![c] = Append(@, m)] /\ UNCHANGED <<sys, toCache, dir>>
    BY <1>2, <1>12
  <2>4. MissSent(c, a, x, lines, m) /\ MissLines(c, a, lines, m)
    BY <2>1, <2>2, <2>3 DEF MissSent, MissLines
  <2> QED BY <1>1, <1>3, <1>5, <1>6, <2>2, <2>4, MissSendsServes
<1> QED BY <1>9, <1>10, <1>11, <1>12

(* A reply comes: what becomes of the line, whoever still waits, and of the others. *)
ReplyKeeps(c, a, lines, out) ==
    /\ \A b \in Addrs : b # a =>
           PairKept(b, cache[c][b].st, waiters[c][b], toCache[c], toDir[c],
                    lines[b].st, waiters[c][b], Tail(toCache[c]), toDir[c] \o out)
    /\ \A st, ws, r :
           st # "I" /\ Lasts(toDir[c] \o out, r, a) /\ (ws = <<>> \/ Has(r, Reqs, a)) =>
               PairKept(a, cache[c][a].st, waiters[c][a], toCache[c], toDir[c],
                        st, ws, Tail(toCache[c]), r)

LEMMA ReplyKept ==
  ASSUME NEW c, NEW a, NEW lines, NEW out, lines[a].st # "I", ReplyKeeps(c, a, lines, out),
         NEW s, s = Tail(toCache[c]), waiters'[c][a] = <<>>,
         \A b \in Addrs : b # a => waiters'[c][b] = waiters[c][b]
  PROVE  KeptAfter(c, lines, s, toDir[c] \o out)
<1>1. ASSUME NEW b \in Addrs
      PROVE  PairKept(b, cache[c][b].st, waiters[c][b], toCache[c], toDir[c],
                      lines[b].st, waiters'[c][b], s, toDir[c] \o out)
  <2>1. CASE b = a
    <3>1. Lasts(toDir[c] \o out, toDir[c] \o out, a)
      BY DEF Lasts
    <3> QED BY <2>1, <3>1 DEF ReplyKeeps
  <2>2. CASE b # a
    BY <2>2 DEF ReplyKeeps
  <2> QED BY <2>1, <2>2
<1> QED BY <1>1 DEF KeptAfter

LEMMA ReplyEndsServes ==
  ASSUME IInv, Serves, NEW c \in Llcs, NEW a \in Addrs, toCache[c] # <<>>,
         NEW lines \in [Addrs -> CacheLine], NEW out, lines[a].st # "I", ReplyKeeps(c, a, lines, out),
         waiters' = [waiters EXCEPT ![c][a] = <<>>], UNCHANGED sys,
         CacheStep(c, lines, out, {}), toCache' = Answered(c)
  PROVE  Serves'
<1>1. waiters \in WaitersType /\ <<>> \in Seq(Waiter)
  BY CacheTypes
<1>2. /\ waiters' \in WaitersType /\ waiters'[c][a] = <<>>
      /\ \A b \in Addrs : b # a => waiters'[c][b] = waiters[c][b]
      /\ \A k \in Llcs : k # c => waiters'[k] = waiters[k]
  BY <1>1, WaitersSet
<1>3. /\ toCache'[c] = Tail(toCache[c])
      /\ \A k \in Llcs : k # c => toCache'[k] = toCache[k]
  BY AnsweredIs
<1>4. OthersKept(c, toCache')
  BY <1>2, <1>3 DEF OthersKept
<1>5. KeptAfter(c, lines, toCache'[c], toDir[c] \o out)
  BY <1>2, <1>3, ReplyKept
<1> QED BY <1>4, <1>5, StepServesPlain

LEMMA ReplyStoresServes ==
  ASSUME IInv, Serves, NEW c \in Llcs, NEW a \in Addrs, toCache[c] # <<>>,
         NEW lines \in [Addrs -> CacheLine], NEW out \in Seq(ToDirMsg), ReplyKeeps(c, a, lines, out),
         lines[a].st \in {"E", "M"},
         waiters' = [waiters EXCEPT ![c][a] = <<>>], UNCHANGED sys,
         CacheStep(c, lines, out, {a}),
         toCache' = [k \in Llcs |-> OldMsgs(Answered(c)[k], a)]
  PROVE  Serves'
<1>1. waiters \in WaitersType /\ <<>> \in Seq(Waiter)
  BY CacheTypes
<1>2. /\ waiters' \in WaitersType /\ waiters'[c][a] = <<>>
      /\ \A b \in Addrs : b # a => waiters'[c][b] = waiters[c][b]
      /\ \A k \in Llcs : k # c => waiters'[k] = waiters[k]
  BY <1>1, WaitersSet
<1> DEFINE ss == Answered(c)
<1>3. /\ ss \in [Llcs -> Seq(ToCacheMsg)] /\ ss[c] = Tail(toCache[c])
      /\ \A k \in Llcs : k # c => ss[k] = toCache[k]
  BY AnsweredIs
<1>4. toCache' = [k \in Llcs |-> OldMsgs(ss[k], a)]
  OBVIOUS
<1> HIDE DEF ss
<1>5. OthersKept(c, ss)
  BY <1>2, <1>3 DEF OthersKept
<1>6. KeptAfter(c, lines, ss[c], toDir[c] \o out)
  BY <1>2, <1>3, ReplyKept
<1> QED BY <1>3, <1>4, <1>5, <1>6, StepServesStore

LEMMA ReplyUpgradesServes ==
  ASSUME IInv, Serves, NEW c \in Llcs, NEW a \in Addrs, toCache[c] # <<>>,
         NEW lines \in [Addrs -> CacheLine], NEW out \in Seq(ToDirMsg), ReplyKeeps(c, a, lines, out),
         lines[a].st = "S", NEW ws \in Seq(Waiter),
         waiters' = [waiters EXCEPT ![c][a] = ws], UNCHANGED sys,
         UpgradeStep(c, a, lines, out),
         toCache' = Answered(c)
  PROVE  Serves'
<1>1. /\ waiters \in WaitersType /\ toDir[c] \in Seq(ToDirMsg)
      /\ toDir[c] \o out \in Seq(ToDirMsg)
  BY CacheTypes
<1>2. /\ waiters' \in WaitersType /\ waiters'[c][a] = ws
      /\ \A b \in Addrs : b # a => waiters'[c][b] = waiters[c][b]
      /\ \A k \in Llcs : k # c => waiters'[k] = waiters[k]
  BY <1>1, WaitersSet
<1>3. /\ toCache'[c] = Tail(toCache[c])
      /\ \A k \in Llcs : k # c => toCache'[k] = toCache[k]
  BY AnsweredIs
<1>4. OthersKept(c, toCache')
  BY <1>2, <1>3 DEF OthersKept
<1> DEFINE m == Msg("UPGRADE_REQ", a, NoData)
           ups == UpgradeForWriter(a)
           out2 == out \o ups
           lines2 == [lines EXCEPT ![a].st = "SU"]
<1>5. m \in ToDirMsg /\ m.a = a /\ m.t = "UPGRADE_REQ" /\ ups = <<m>>
  BY DEF Msg, ToDirMsg, Data, Reqs, UpgradeForWriter
<1>6. "SU" \in CStates
  BY DEF CStates
<1>7. CacheStep(c, lines2, out2, {})
  BY DEF UpgradeStep
<1>8. lines2 = [lines EXCEPT ![a].st = "SU"]
  OBVIOUS
<1>9. OneMore(out, m, out2)
  BY <1>5 DEF OneMore
<1> HIDE DEF m, ups, out2, lines2
<1>10. /\ lines2 \in [Addrs -> CacheLine] /\ lines2[a].st = "SU"
      /\ \A b \in Addrs : b # a => lines2[b] = lines[b]
  BY <1>6, <1>8, StateSet
<1>11. toDir[c] \o out2 = Append(toDir[c] \o out, m)
  <2>1. m \in ToDirMsg /\ toDir[c] \in Seq(ToDirMsg)
    BY <1>1, <1>5
  <2>2. AlsoSent(toDir[c], out, m, out2)
    BY <1>9, <2>1, SentAfter
  <2> QED BY <2>2 DEF AlsoSent
<1> DEFINE r == toDir[c] \o out
           s == Tail(toCache[c])
<1>12. ASSUME NEW b \in Addrs
       PROVE  PairKept(b, cache[c][b].st, waiters[c][b], toCache[c], toDir[c],
                       lines2[b].st, waiters'[c][b], s, Append(r, m))
  <2>0. r \in Seq(ToDirMsg)
    BY <1>1
  <2>1. CASE b = a
    <3>1. \A st, vs, y : st # "I" /\ Lasts(r, y, a) /\ (vs = <<>> \/ Has(y, Reqs, a)) =>
              PairKept(a, cache[c][a].st, waiters[c][a], toCache[c], toDir[c], st, vs, s, y)
      BY DEF ReplyKeeps
    <3> HIDE DEF r, s
    <3>2. On(m, Reqs, a)
      BY <1>5 DEF On, Reqs
    <3>3. Lasts(r, Append(r, m), a) /\ Has(Append(r, m), Reqs, a)
      BY <1>5, <2>0, <3>2, PairSends
    <3>4. lines2[b].st # "I" /\ waiters'[c][b] = ws
      BY <1>2, <1>10, <2>1
    <3> QED BY <2>1, <3>1, <3>3, <3>4
  <2>2. CASE b # a
    <3>1. PairKept(b, cache[c][b].st, waiters[c][b], toCache[c], toDir[c],
                   lines[b].st, waiters[c][b], s, r)
      BY <2>2 DEF ReplyKeeps
    <3> HIDE DEF r, s
    <3>2. Alike(r, Append(r, m), b) /\ Alike(s, s, b)
      BY <1>5, <2>0, <2>2, PushOther, AlikeSelf
    <3>3. PairKept(b, lines[b].st, waiters[c][b], s, r, lines[b].st, waiters[c][b], s, Append(r, m))
      BY <3>2, PairKeptAlike
    <3>4. PairKept(b, cache[c][b].st, waiters[c][b], toCache[c], toDir[c],
                   lines[b].st, waiters[c][b], s, Append(r, m))
      BY <3>1, <3>3, PairChain
    <3> QED BY <1>2, <1>10, <2>2, <3>4
  <2> QED BY <2>1, <2>2
<1>13. KeptAfter(c, lines2, toCache'[c], toDir[c] \o out2)
  BY <1>3, <1>11, <1>12 DEF KeptAfter
<1> QED BY <1>4, <1>7, <1>10, <1>13, StepServesPlain

LEMMA RepliedServes ==
  ASSUME IInv, Serves, NEW c \in Llcs, NEW a \in Addrs, toCache[c] # <<>>,
         NEW lines \in [Addrs -> CacheLine], NEW out \in Seq(ToDirMsg),
         lines[a].st \in {"E", "S", "M"}, ReplyKeeps(c, a, lines, out),
         Reply(c, a, lines, out), UNCHANGED sys
  PROVE  Serves'
<1>1. CASE Writers(c, a) = {}
  <2>1. /\ waiters' = [waiters EXCEPT ![c][a] = <<>>] /\ CacheStep(c, lines, out, {})
        /\ toCache' = Answered(c)
    BY <1>1 DEF Reply, Answered
  <2>2. lines[a].st # "I"
    OBVIOUS
  <2> QED BY <2>1, <2>2, ReplyEndsServes
<1>2. CASE Writers(c, a) # {} /\ lines[a].st = "S"
  <2> DEFINE ws == SubSeq(waiters[c][a], Min(Writers(c, a)), Len(waiters[c][a]))
  <2>1. waiters' = [waiters EXCEPT ![c][a] = ws] /\ toCache' = Answered(c)
    BY <1>2 DEF Reply, Answered
  <2>2. UpgradeStep(c, a, lines, out)
    BY <1>2 DEF Reply, UpgradeStep
  <2>3. ws \in Seq(Waiter)
    BY <1>2, FirstWriter, CacheTypes
  <2> HIDE DEF ws
  <2> QED BY <1>2, <2>1, <2>2, <2>3, ReplyUpgradesServes
<1>3. CASE Writers(c, a) # {} /\ lines[a].st # "S"
  <2>1. lines[a].st \in {"E", "M"}
    BY <1>3
  <2>2. /\ waiters' = [waiters EXCEPT ![c][a] = <<>>] /\ CacheStep(c, lines, out, {a})
        /\ toCache' = [k \in Llcs |-> OldMsgs(Answered(c)[k], a)]
    BY <1>3, <2>1 DEF Reply, Answered
  <2> QED BY <2>1, <2>2, ReplyStoresServes
<1> QED BY <1>1, <1>2, <1>3

(* A line is inserted: its victim answers whoever awaited it. *)
LEMMA VictimReplies ==
  ASSUME IInv, NEW c \in Llcs, NEW v \in Addrs, cache[c][v].st # "I", NEW m, m = EvictMsg(c, v)
  PROVE  m \in ToDirMsg /\ m.a = v /\ On(m, Answering, v)
<1>1. m \in ToDirMsg /\ m.a = v
  BY VictimPair
<1>2. m.t \in {"FLUSH_REP", "INV_REP"}
  BY DEF EvictMsg, Msg
<1> QED BY <1>1, <1>2 DEF On, Answering, Gives

InsertedKeeps(c, b, st, out) ==
    PairKept(b, cache[c][b].st, waiters[c][b], toCache[c], toDir[c],
             st, waiters[c][b], toCache[c], toDir[c] \o out)

LEMMA OthersInsertedServe ==
  ASSUME IInv, NEW c \in Llcs, NEW a \in Addrs, NEW line \in CacheLine, NEW v \in Addrs,
         cache[c][a].st = "I", Evicts(c) => cache[c][v].st # "I",
         NEW lines, lines = Inserted(c, a, line, v), NEW out, out = Evicted(c, v)
  PROVE  \A b \in Addrs : b # a => InsertedKeeps(c, b, lines[b].st, out)
<1>1. /\ \A b \in Addrs : b # a /\ (b = v => ~Evicts(c)) => lines[b] = cache[c][b]
      /\ Evicts(c) => lines[v].st = "I" /\ v # a
  BY InsertedIs
<1>2. toDir[c] \in Seq(ToDirMsg)
  BY CacheTypes
<1>3. CASE ~Evicts(c)
  <2>1. out = <<>>
    BY <1>3 DEF Evicted
  <2>2. toDir[c] \o out = toDir[c]
    BY <1>2, <2>1, NothingSent
  <2> QED BY <1>1, <1>3, <2>2, PairSame DEF InsertedKeeps
<1>4. CASE Evicts(c)
  <2> DEFINE m == EvictMsg(c, v)
  <2>1. out = <<m>> /\ v # a /\ cache[c][v].st # "I"
    BY <1>1, <1>4 DEF Evicted
  <2>2. m \in ToDirMsg /\ m.a = v /\ On(m, Answering, v)
    BY <2>1, VictimReplies
  <2> HIDE DEF m
  <2>3. toDir[c] \o out = Append(toDir[c], m)
    BY <1>2, <2>1, <2>2, OneSent
  <2> SUFFICES ASSUME NEW b \in Addrs, b # a PROVE InsertedKeeps(c, b, lines[b].st, out)
    OBVIOUS
  <2>4. CASE b = v
    <3>1. Lasts(toDir[c], Append(toDir[c], m), v) /\ Has(Append(toDir[c], m), Answering, v)
      BY <1>2, <2>2, PairSends
    <3> QED BY <2>3, <2>4, <3>1, PairReplied DEF InsertedKeeps
  <2>5. CASE b # v
    <3>1. Alike(toDir[c], toDir[c] \o out, b)
      BY <1>2, <2>2, <2>3, <2>5, PushOther
    <3>2. lines[b] = cache[c][b]
      BY <1>1, <2>5
    <3> QED BY <3>1, <3>2, AlikeSelf, PairKeptAlike DEF InsertedKeeps
  <2> QED BY <2>4, <2>5
<1> QED BY <1>3, <1>4

(* A reply is taken: the cache had no copy, or has one and still does.            *)
LEMMA ReplyTaken ==
  ASSUME NEW c, NEW a, toCache[c] \in Seq(ToCacheMsg), toCache[c] # <<>>,
         Head(toCache[c]).t \in Reps, NEW y, Lasts(toDir[c], y, a),
         NEW st, NEW ws, NEW r, st # "I", Lasts(y, r, a), ws = <<>> \/ Has(r, Reqs, a)
  PROVE  PairKept(a, cache[c][a].st, waiters[c][a], toCache[c], toDir[c],
                  st, ws, Tail(toCache[c]), r)
<1>1. ~On(Head(toCache[c]), Asks, a)
  BY DEF On, Asks, Reps
<1>2. Lasts(toDir[c], r, a)
  BY DEF Lasts
<1> QED BY <1>1, <1>2, PairTaken

LEMMA DataReplyServes ==
  ASSUME IInv, Serves, NEW c \in Llcs, NEW v \in Addrs, DataReply(c, v) PROVE Serves'
<1> DEFINE m == HeadMsg(c)
           a == m.a
           st == IF m.t = "EX_REP" THEN "E" ELSE "S"
           line == Line(st, m.data)
           lines == Inserted(c, a, line, v)
           out == Evicted(c, v)
           fails == \/ cache[c][a].st # "I" \/ waiters[c][a] = <<>>
                    \/ Evicts(c) /\ cache[c][v].st = "SU"
<1>1. /\ toCache[c] # <<>> /\ m.t \in {"EX_REP", "SH_REP"} /\ UNCHANGED sys
      /\ Evicts(c) => v \in Victims(c)
  BY DEF DataReply, Arrives, HeadMsg
<1>2. /\ fails => UNCHANGED <<cache, waiters, toDir, toCache, dir>>
      /\ ~fails => Reply(c, a, lines, out)
  BY DEF DataReply, Stop
<1>3. CASE fails
  <2>1. UNCHANGED <<sys, cache, waiters, toDir, toCache, dir>>
    BY <1>1, <1>2, <1>3
  <2> QED BY <2>1, ServesStay
<1>4. CASE ~fails
  <2>1. /\ m \in ToCacheMsg /\ a \in Addrs
        /\ toCache[c] \in Seq(ToCacheMsg) /\ toDir[c] \in Seq(ToDirMsg)
        /\ \A b \in Addrs : b # a => Alike(toCache[c], Tail(toCache[c]), b)
    BY <1>1, HeadHere
  <2>2. line \in CacheLine /\ line.st = st /\ st \in {"E", "S", "M"}
    BY <1>1, <2>1 DEF Line, CacheLine, CStates, ToCacheMsg, DataReps
  <2>3. cache[c][a].st = "I" /\ (Evicts(c) => cache[c][v].st # "I")
    BY <1>1, <1>4, VictimHeld
  <2>4. Reply(c, a, lines, out)
    BY <1>2, <1>4
  <2>5. lines = Inserted(c, a, line, v) /\ out = Evicted(c, v) /\ m = Head(toCache[c])
    BY DEF HeadMsg
  <2> HIDE DEF fails, st, line, lines, out, m, a
  <2>6. /\ lines \in [Addrs -> CacheLine] /\ lines[a].st = st
        /\ out \in Seq(ToDirMsg) /\ Alike(toDir[c], toDir[c] \o out, a)
    BY <2>1, <2>2, <2>3, <2>5, InsertedIs, OthersInserted
  <2>7. \A b \in Addrs : b # a => InsertedKeeps(c, b, lines[b].st, out)
    BY <2>1, <2>2, <2>3, <2>5, OthersInsertedServe
  <2> DEFINE z == Tail(toCache[c])
             y == toDir[c] \o out
  <2>8. ASSUME NEW b \in Addrs, b # a
        PROVE  PairKept(b, cache[c][b].st, waiters[c][b], toCache[c], toDir[c],
                        lines[b].st, waiters[c][b], z, y)
    <3>1. PairKept(b, cache[c][b].st, waiters[c][b], toCache[c], toDir[c],
                   lines[b].st, waiters[c][b], toCache[c], y)
      BY <2>7, <2>8 DEF InsertedKeeps
    <3>2. Alike(toCache[c], z, b) /\ Alike(y, y, b)
      BY <2>1, <2>8, AlikeSelf
    <3> HIDE DEF z, y
    <3>3. PairKept(b, lines[b].st, waiters[c][b], toCache[c], y, lines[b].st, waiters[c][b], z, y)
      BY <3>2, PairKeptAlike
    <3> QED BY <3>1, <3>3, PairChain
  <2>9. Lasts(toDir[c], y, a)
    BY <2>6 DEF Alike, Lasts
  <2>10. Head(toCache[c]).t \in Reps
    BY <1>1, <2>5 DEF Reps
  <2>11. ReplyKeeps(c, a, lines, out)
    BY <1>1, <2>1, <2>8, <2>9, <2>10, ReplyTaken DEF ReplyKeeps
  <2>12. lines[a].st \in {"E", "S", "M"}
    BY <2>2, <2>6
  <2> QED BY <1>1, <2>1, <2>4, <2>6, <2>11, <2>12, RepliedServes
<1> QED BY <1>3, <1>4

LEMMA UpgradeReplyServes ==
  ASSUME IInv, Serves, NEW c \in Llcs, UpgradeReply(c) PROVE Serves'
<1> DEFINE m == HeadMsg(c)
           a == m.a
           lines == [cache[c] EXCEPT ![a].st = "M"]
           out == <<>>
           fails == cache[c][a].st # "SU"
<1>1. toCache[c] # <<>> /\ m.t = "UPGRADE_REP" /\ UNCHANGED sys
  BY DEF UpgradeReply, Arrives, HeadMsg
<1>2. /\ fails => UNCHANGED <<cache, waiters, toDir, toCache, dir>>
      /\ ~fails => Reply(c, a, lines, out)
  BY DEF UpgradeReply, Stop
<1>3. CASE fails
  <2>1. UNCHANGED <<sys, cache, waiters, toDir, toCache, dir>>
    BY <1>1, <1>2, <1>3
  <2> QED BY <2>1, ServesStay
<1>4. CASE ~fails
  <2>1. /\ m \in ToCacheMsg /\ a \in Addrs
        /\ toCache[c] \in Seq(ToCacheMsg) /\ toDir[c] \in Seq(ToDirMsg)
        /\ cache[c] \in [Addrs -> CacheLine]
        /\ \A b \in Addrs : b # a => Alike(toCache[c], Tail(toCache[c]), b)
    BY <1>1, HeadHere
  <2>2. Reply(c, a, lines, out) /\ cache[c][a].st = "SU" /\ "M" \in CStates
    BY <1>2, <1>4 DEF CStates
  <2>3. lines = [cache[c] EXCEPT ![a].st = "M"]
    OBVIOUS
  <2>4. m = Head(toCache[c])
    BY DEF HeadMsg
  <2>5. toDir[c] \o out = toDir[c] /\ out \in Seq(ToDirMsg)
    BY <2>1, NothingSent
  <2> HIDE DEF fails, lines, out, m, a
  <2>6. /\ lines \in [Addrs -> CacheLine] /\ lines[a].st = "M"
        /\ \A b \in Addrs : b # a => lines[b] = cache[c][b]
    <3>1. a \in Addrs /\ cache[c] \in [Addrs -> CacheLine] /\ cache[c][a].st # "I"
      BY <2>1, <2>2
    <3>2. "M" \in CStates
      BY <2>2
    <3> QED BY <2>3, <3>1, <3>2, StateSet
  <2>7. ASSUME NEW b \in Addrs, b # a
        PROVE  PairKept(b, cache[c][b].st, waiters[c][b], toCache[c], toDir[c],
                        lines[b].st, waiters[c][b], Tail(toCache[c]), toDir[c])
    <3>1. Alike(toCache[c], Tail(toCache[c]), b) /\ Alike(toDir[c], toDir[c], b) /\ lines[b] = cache[c][b]
      BY <2>1, <2>6, <2>7, AlikeSelf
    <3> QED BY <3>1, PairKeptAlike
  <2>8. Lasts(toDir[c], toDir[c], a)
    BY DEF Lasts
  <2>9. Head(toCache[c]).t \in Reps
    BY <1>1, <2>4 DEF Reps
  <2>10. ReplyKeeps(c, a, lines, out)
    BY <1>1, <2>1, <2>5, <2>7, <2>8, <2>9, ReplyTaken DEF ReplyKeeps
  <2>11. lines[a].st \in {"E", "S", "M"}
    BY <2>6
  <2> QED BY <1>1, <2>1, <2>2, <2>5, <2>6, <2>10, <2>11, RepliedServes
<1> QED BY <1>3, <1>4

(* A request of the directory's is taken. *)
LEMMA IgnoredServes ==
  ASSUME IInv, Serves, NEW c \in Llcs, toCache[c] # <<>>,
         HeadMsg(c).t \in Asks, cache[c][HeadMsg(c).a].st = "I",
         Consume(c), UNCHANGED <<sys, cache, waiters, toDir, dir>>
  PROVE  Serves'
<1> DEFINE a == HeadMsg(c).a
           s == toCache[c]
           z == Tail(toCache[c])
           r == toDir[c]
           out == <<>>
           lines == cache[c]
<1>1. a \in Addrs /\ s \in Seq(ToCacheMsg) /\ r \in Seq(ToDirMsg)
  BY HeadHere
<1>2. \A b \in Addrs : b # a => Alike(s, z, b)
  BY HeadHere
<1>3. toCache'[c] = z /\ OthersKept(c, toCache')
  BY ConsumeIs
<1>4. r \o out = r
  BY <1>1, NothingSent
<1>5. s # <<>> /\ Head(s).t \in Asks /\ z = Tail(s) /\ lines[a].st = "I"
  BY DEF HeadMsg
<1>6. /\ cache' = [k \in Llcs |-> IF k = c THEN lines ELSE cache[k]]
      /\ toDir' = [k \in Llcs |-> IF k = c THEN toDir[k] \o out ELSE toDir[k]]
  <2>1. cache \in [Llcs -> [Addrs -> CacheLine]] /\ toDir \in [Llcs -> Seq(ToDirMsg)]
    BY CacheTypes
  <2> HIDE DEF out
  <2> QED BY <1>4, <2>1
<1>7. ASSUME NEW b \in Addrs
      PROVE  PairKept(b, lines[b].st, waiters[c][b], s, r, lines[b].st, waiters[c][b], z, r)
  <2> HIDE DEF a, s, z, r, out, lines
  <2>1. CASE b = a
    <3>1. ~On(Head(s), Reps, a) /\ ~On(Head(s), DataReps, a) /\ Lasts(r, r, a)
      BY <1>5 DEF On, Asks, Reps, DataReps, Lasts
    <3> QED BY <1>1, <1>5, <2>1, <3>1, PairTaken
  <2>2. CASE b # a
    <3>1. Alike(s, z, b) /\ Alike(r, r, b)
      BY <1>2, <2>2, AlikeSelf
    <3> QED BY <3>1, PairKeptAlike
  <2> QED BY <2>1, <2>2
<1>8. KeptAfter(c, lines, toCache'[c], toDir[c] \o out)
  <2>1. waiters' = waiters
    OBVIOUS
  <2> HIDE DEF a, z, out
  <2> QED BY <1>3, <1>4, <1>7, <2>1 DEF KeptAfter
<1> HIDE DEF a, s, z, r, out, lines
<1> QED BY <1>3, <1>6, <1>8, StepServesMoved

(* A request of the directory's is answered. *)
LEMMA AnsweredForServes ==
  ASSUME IInv, Serves, NEW c \in Llcs, toCache[c] # <<>>, NEW lines \in [Addrs -> CacheLine],
         NEW x \in ToDirMsg, NEW a \in Addrs, a = HeadMsg(c).a, x.a = a,
         HeadMsg(c).t \in Asks, x.t \in Answering,
         \A b \in Addrs : b # a => lines[b] = cache[c][b],
         CacheStep(c, lines, <<x>>, {}), Consume(c), UNCHANGED <<sys, waiters>>
  PROVE  Serves'
<1> DEFINE s == toCache[c]
           z == Tail(toCache[c])
           r == toDir[c]
           y == Append(toDir[c], x)
           out == <<x>>
<1>1. s \in Seq(ToCacheMsg) /\ r \in Seq(ToDirMsg)
  BY HeadHere
<1>2. \A b \in Addrs : b # a => Alike(s, z, b)
  BY HeadHere
<1>3. toCache'[c] = z /\ OthersKept(c, toCache') /\ UNCHANGED <<sys, waiters>>
  BY ConsumeIs
<1>4. r \o out = y /\ out \in Seq(ToDirMsg)
  BY <1>1, OneSent
<1>5. s # <<>> /\ Head(s).t \in Asks /\ z = Tail(s) /\ y = Append(r, x)
  BY DEF HeadMsg
<1>6. CacheStep(c, lines, out, {})
  OBVIOUS
<1>7. ASSUME NEW b \in Addrs
      PROVE  PairKept(b, cache[c][b].st, waiters[c][b], s, r, lines[b].st, waiters[c][b], z, y)
  <2> HIDE DEF s, z, r, y, out
  <2>1. CASE b = a
    <3>1. On(x, Answering, a) /\ ~On(Head(s), Reps, a)
      BY <1>5 DEF On, Asks, Reps
    <3>2. Has(y, Answering, a) /\ Lasts(r, y, a)
      BY <1>1, <1>5, <3>1, PairSends
    <3>3. Has(s, Reps, a) => Has(z, Reps, a)
      BY <1>1, <1>5, <3>1, PopHas
    <3> QED BY <2>1, <3>2, <3>3, PairReplied
  <2>2. CASE b # a
    <3>1. Alike(s, z, b) /\ Alike(r, y, b) /\ lines[b] = cache[c][b]
      BY <1>1, <1>2, <1>5, <2>2, PushOther
    <3> QED BY <3>1, PairKeptAlike
  <2> QED BY <2>1, <2>2
<1>8. KeptAfter(c, lines, toCache'[c], toDir[c] \o out)
  <2>1. toDir[c] \o out = y
    BY <1>4
  <2> HIDE DEF z, y, out
  <2> QED BY <1>3, <1>7, <2>1 DEF KeptAfter
<1> HIDE DEF s, z, r, y, out
<1> QED BY <1>3, <1>6, <1>8, StepServesPlain

LEMMA InvalidateServes ==
  ASSUME IInv, Serves, NEW c \in Llcs, Invalidate(c) PROVE Serves'
<1> DEFINE a == HeadMsg(c).a
           st == cache[c][a].st
           x == Msg("INV_REP", a, NoData)
           lines == [cache[c] EXCEPT ![a] = Absent]
<1>1. toCache[c] # <<>> /\ HeadMsg(c).t = "INV_REQ" /\ HeadMsg(c).t \in Asks /\ UNCHANGED sys
  BY DEF Invalidate, Arrives, HeadMsg, Asks
<1>2. a \in Addrs /\ cache[c] \in [Addrs -> CacheLine]
  BY <1>1, HeadHere
<1>3. CASE st = "I"
  <2>1. Consume(c) /\ UNCHANGED <<sys, cache, waiters, toDir, dir>>
    BY <1>1, <1>3 DEF Invalidate
  <2> QED BY <1>1, <1>3, <2>1, IgnoredServes
<1>4. CASE st = "M"
  <2>1. UNCHANGED <<sys, cache, waiters, toDir, toCache, dir>>
    BY <1>1, <1>4 DEF Invalidate, Stop
  <2> QED BY <2>1, ServesStay
<1>5. CASE st \notin {"I", "M"}
  <2>1. CacheStep(c, lines, <<x>>, {}) /\ Consume(c) /\ UNCHANGED <<sys, waiters>>
    BY <1>1, <1>5 DEF Invalidate, InvStateAfter
  <2>2. /\ lines \in [Addrs -> CacheLine]
        /\ \A b \in Addrs : b # a => lines[b] = cache[c][b]
    <3>1. lines = [cache[c] EXCEPT ![a] = Absent]
      OBVIOUS
    <3> HIDE DEF lines, a
    <3> QED BY <1>2, <3>1, AbsentIs, LineSet
  <2>3. x \in ToDirMsg /\ x.a = a /\ x.t \in Answering
    BY <1>2 DEF Msg, ToDirMsg, Gives, Data, Answering
  <2>4. a = HeadMsg(c).a
    OBVIOUS
  <2> HIDE DEF a, st, x, lines
  <2> QED BY <1>1, <1>2, <2>1, <2>2, <2>3, <2>4, AnsweredForServes
<1> QED BY <1>3, <1>4, <1>5

LEMMA FlushLineServes ==
  ASSUME IInv, Serves, NEW c \in Llcs, FlushLine(c) PROVE Serves'
<1> DEFINE a == HeadMsg(c).a
           st == cache[c][a].st
           x == Msg("FLUSH_REP", a, cache[c][a].data)
           lines == [cache[c] EXCEPT ![a] = Absent]
<1>1. /\ toCache[c] # <<>> /\ HeadMsg(c).t \in Asks /\ UNCHANGED <<sys, waiters>>
      /\ Consume(c)
  BY DEF FlushLine, Arrives, HeadMsg, Asks
<1>2. a \in Addrs /\ cache[c] \in [Addrs -> CacheLine]
  BY <1>1, HeadHere
<1>3. CASE st = "I"
  <2>1. UNCHANGED <<sys, cache, waiters, toDir, dir>>
    BY <1>1, <1>3 DEF FlushLine
  <2> QED BY <1>1, <1>3, <2>1, IgnoredServes
<1>4. CASE st # "I"
  <2>1. CacheStep(c, lines, <<x>>, {})
    BY <1>4 DEF FlushLine
  <2>2. /\ lines \in [Addrs -> CacheLine]
        /\ \A b \in Addrs : b # a => lines[b] = cache[c][b]
    <3>1. lines = [cache[c] EXCEPT ![a] = Absent]
      OBVIOUS
    <3> HIDE DEF lines, a
    <3> QED BY <1>2, <3>1, AbsentIs, LineSet
  <2>3. x \in ToDirMsg /\ x.a = a /\ x.t \in Answering
    <3>1. cache[c][a].data \in Data /\ cache[c][a].data # NoData
      BY <1>2, <1>4 DEF CacheLine
    <3> QED BY <1>2, <3>1 DEF Msg, ToDirMsg, Gives, Answering
  <2>4. a = HeadMsg(c).a
    OBVIOUS
  <2> HIDE DEF a, st, x, lines
  <2> QED BY <1>1, <1>2, <2>1, <2>2, <2>3, <2>4, AnsweredForServes
<1> QED BY <1>3, <1>4

LEMMA WriteBackServes ==
  ASSUME IInv, Serves, NEW c \in Llcs, WriteBack(c) PROVE Serves'
<1> DEFINE a == HeadMsg(c).a
           st == cache[c][a].st
           new == WriteBackState(st)
           data == IF st = "SU" THEN Uninit ELSE cache[c][a].data
           x == Msg("WB_REP", a, data)
           lines == [cache[c] EXCEPT ![a].st = new]
<1>1. /\ toCache[c] # <<>> /\ HeadMsg(c).t \in Asks /\ UNCHANGED <<sys, waiters>>
      /\ Consume(c)
  BY DEF WriteBack, Arrives, HeadMsg, Asks
<1>2. a \in Addrs /\ cache[c] \in [Addrs -> CacheLine]
  BY <1>1, HeadHere
<1>3. CASE st = "I"
  <2>1. UNCHANGED <<sys, cache, waiters, toDir, dir>>
    BY <1>1, <1>3 DEF WriteBack
  <2> QED BY <1>1, <1>3, <2>1, IgnoredServes
<1>4. CASE st # "I"
  <2>1. CacheStep(c, lines, <<x>>, {})
    BY <1>4 DEF WriteBack
  <2>2. new \in CStates
    BY DEF WriteBackState, CStates
  <2>3. /\ lines \in [Addrs -> CacheLine]
        /\ \A b \in Addrs : b # a => lines[b] = cache[c][b]
    <3>1. lines = [cache[c] EXCEPT ![a].st = new]
      OBVIOUS
    <3>2. /\ a \in Addrs /\ cache[c] \in [Addrs -> CacheLine] /\ new \in CStates
          /\ cache[c][a].st # "I"
      BY <1>2, <1>4, <2>2
    <3> HIDE DEF lines, a, new
    <3> QED BY <3>1, <3>2, StateSet
  <2>4. x \in ToDirMsg /\ x.a = a /\ x.t \in Answering
    <3>1. cache[c][a].data \in Data /\ cache[c][a].data # NoData
      BY <1>2, <1>4 DEF CacheLine
    <3>2. data \in Data /\ data # NoData
      BY <3>1 DEF Data, Uninit, NoData
    <3> HIDE DEF data
    <3> QED BY <1>2, <3>2 DEF Msg, ToDirMsg, Answering
  <2>5. a = HeadMsg(c).a
    OBVIOUS
  <2> HIDE DEF a, st, new, data, x, lines
  <2> QED BY <1>1, <1>2, <2>1, <2>3, <2>4, <2>5, AnsweredForServes
<1> QED BY <1>3, <1>4

-----------------------------------------------------------------------------
(* Serves is inductive, given the protocol's invariant. *)
LEMMA InitServes == Init => Serves
<1> SUFFICES ASSUME Init, NEW a \in Addrs PROVE LineServes(a)
  BY DEF Serves
<1>1. PICK junk \in Llcs \union {NoCore} : dir = InitDirectory(junk)
  BY DEF Init
<1> DEFINE e == dir.e[a]
           q == dir.q[a]
<1>2. e = NewEntry(junk) /\ q = <<>>
  BY <1>1 DEF InitDirectory
<1>3. e.st = "U"
  BY <1>2 DEF NewEntry
<1>4. \A k \in Llcs : waiters[k][a] = <<>>
  BY DEF Init
<1> HIDE DEF e, q
<1>5. OthersUnbuffered(q)
  <2>1. DOMAIN <<>> = {}
    OBVIOUS
  <2>2. DOMAIN q = {}
    BY <1>2, <2>1
  <2> QED BY <2>2 DEF OthersUnbuffered
<1>6. Remembered(a, q, toCache, toDir)
  BY <1>4, <1>5 DEF Remembered, AskingIn, Asking
<1>7. EntryServed(e)
  BY <1>3 DEF EntryServed
<1>8. FrontServed(a, q, e, dir.reply[a], toCache, toDir)
  BY <1>2 DEF FrontServed
<1> QED BY <1>6, <1>7, <1>8 DEF LineServes, Served, Lasting, e, q

LEMMA NextServes == IInv /\ Serves /\ [Next]_vars => Serves'
<1> SUFFICES ASSUME IInv, Serves, [Next]_vars PROVE Serves'
  OBVIOUS
<1>1. CASE UNCHANGED vars
  BY <1>1, ServesStay DEF vars
<1>2. ASSUME NEW th \in Threads, UserStep(th) PROVE Serves'
  <2>1. PICK a \in Uses[th] : WriteHit(th, a) \/ \E ex \in BOOLEAN : Miss(th, a, ex)
    BY <1>2 DEF UserStep
  <2>2. a \in Addrs
    BY ThreadsCache
  <2> QED BY <2>1, <2>2, WriteHitServes, MissServes
<1>3. ASSUME NEW c \in Llcs, CacheThread(c) PROVE Serves'
  BY <1>3, DataReplyServes, UpgradeReplyServes, InvalidateServes, FlushLineServes, WriteBackServes
     DEF CacheThread
<1>4. ASSUME NEW c \in Llcs, DirThread(c) PROVE Serves'
  BY <1>4, DirHandlesServes DEF DirThread
<1>5. ASSUME NEW a \in Addrs, DramThread(a) PROVE Serves'
  BY <1>5, DramRepliesServes DEF DramThread
<1> QED BY <1>1, <1>2, <1>3, <1>4, <1>5 DEF Next

(* Whoever waits is served, and not by luck.  Whenever a request is the first of    *)
(* its line's queue at the directory, whoever holds it up has been asked and still  *)
(* can answer, or has answered, or DRAM has the data ready; and a cache where      *)
(* threads wait has its own request on its way, queued, or answered.  This is      *)
(* what processNextReqFromL2Cache, the retries after INV_REP, FLUSH_REP and        *)
(* WB_REP, and the messages that evictions send instead of answers must add up to. *)
THEOREM ServesCorrect == Spec => []Serves
  BY InitServes, NextServes, Invariant, PTL DEF Spec

LEMMA NothingAwaited ==
  ASSUME NEW a, NEW st PROVE ~Awaited(a, st, <<>>, <<>>)
<1> DEFINE copy == st # "I"
<1>1. copy \in BOOLEAN /\ copy = (st # "I")
  OBVIOUS
<1> HIDE DEF copy
<1>2. ~Live(<<>>, Asks, a, copy) /\ ~Has(<<>>, Answering, a)
  BY <1>1, EmptyQueue
<1> QED BY <1>1, <1>2 DEF Awaited

LEMMA QuietLine ==
  ASSUME IInv, Serves, NEW a \in Addrs, dir.reply[a] = <<>>,
         \A c \in Llcs : toDir[c] = <<>> /\ toCache[c] = <<>>
  PROVE  dir.q[a] = <<>> /\ \A c \in Llcs : waiters[c][a] = <<>>
<1> DEFINE q == dir.q[a]
           e == dir.e[a]
           rep == dir.reply[a]
<1>1. Served(a, q, e, rep, toCache, toDir)
  BY DEF Serves, LineServes
<1>2. q \in Seq(DirReq) /\ e \in DirEntry /\ rep = <<>>
  BY CacheTypes DEF Directory
<1> HIDE DEF q, e, rep
<1>3. \A k \in Llcs : ~AwaitedIn(k, a, toCache, toDir)
  BY NothingAwaited DEF AwaitedIn
<1>4. q = <<>>
  <2> SUFFICES ASSUME q # <<>> PROVE FALSE
    OBVIOUS
  <2>1. FrontServed(a, q, e, rep, toCache, toDir)
    BY <1>1 DEF Served
  <2>2. ~Head(q).wait /\ Head(q).from = NoCore
    BY <1>2, <1>3, <2>1 DEF FrontServed
  <2>3. ~Granted(q)
    BY <2>2 DEF Granted
  <2>4. Blockers(q, e) \subseteq Llcs
    BY <1>2 DEF Blockers, DirEntry
  <2> QED BY <1>3, <2>1, <2>3, <2>4 DEF FrontServed
<1>5. ASSUME NEW c \in Llcs PROVE waiters[c][a] = <<>>
  <2>1. Asking(a, waiters[c][a], <<>>, <<>>, q, c)
    BY <1>1 DEF Served, Lasting, Remembered, AskingIn
  <2>2. ~Has(<<>>, Reps, a) /\ ~Has(<<>>, Reqs, a)
    BY EmptyQueue
  <2>3. ~Queued(q, c)
    BY <1>4 DEF Queued
  <2> QED BY <2>1, <2>2, <2>3 DEF Asking
<1> QED BY <1>4, <1>5 DEF q

(* No request is forgotten: when no message and no DRAM read is under way any more, *)
(* nobody waits at a cache and the directory has no request queued, whatever         *)
(* overtook the messages they waited for.                                       *)
THEOREM QuietMeansServedCorrect == Spec => []QuietMeansServed
<1>1. IInv /\ Serves => QuietMeansServed
  BY QuietLine DEF QuietMeansServed
<1> QED BY <1>1, Invariant, ServesCorrect, PTL


-----------------------------------------------------------------------------
(* Systems with room (Roomy): nobody evicts a line and no entry is replaced, and    *)
(* then no assertion fails.  The invariant again speaks of one cache k and one      *)
(* address a.  The front request calls for the copies of the other caches.         *)
CallsFor(q, k) ==
    /\ q # <<>> /\ ~Granted(q)
    /\ Head(q).t \in {"EX_REQ", "UPGRADE_REQ"} /\ Head(q).c # k
Upgrading(q, k) == \E i \in DOMAIN q : q[i].c = k /\ q[i].t = "UPGRADE_REQ"
InUse(k, a) == k \in Users /\ a \in Touched

(* A copy is given up only when it is called for; without its data only when the   *)
(* entry is shared.                                                           *)
Called(k, a, st, s, r, q, e) ==
    /\ Live(s, {"INV_REQ"}, a, st # "I") => e.st = "S" /\ CallsFor(q, k)
    /\ Has(r, {"INV_REP"}, a) => e.st = "S"
    /\ Has(r, Gives, a) => CallsFor(q, k)
(* An upgrade that is granted finds the line as it was. *)
UpgradeExpected(k, a, st, s, r, q) ==
    /\ Has(s, {"UPGRADE_REP"}, a) => st = "SU"
    /\ ~Behind(s, {"INV_REQ", "FLUSH_REQ"}, {"UPGRADE_REP"}, a)
    /\ Has(r, {"UPGRADE_REQ"}, a) \/ Upgrading(q, k) => st \in {"I", "SU"}
(* The directory knows that a line is shared, or will know soon. *)
SharedKnown(a, st, s, r, e) ==
    /\ Has(s, {"SH_REP"}, a) => e.st = "S"
    /\ st \in {"S", "SU"} => \/ e.st = "S" \/ Has(r, {"WB_REP"}, a)
                             \/ st = "SU" /\ Has(s, {"UPGRADE_REP"}, a)
OnlyUsed(k, a, ws, e) == ws # <<>> \/ k \in e.sharers => InUse(k, a)

TidyPair(k, a, st, ws, s, r, q, e) ==
    /\ Called(k, a, st, s, r, q, e)
    /\ UpgradeExpected(k, a, st, s, r, q)
    /\ SharedKnown(a, st, s, r, e)
    /\ OnlyUsed(k, a, ws, e)
TidyFront(q, e) ==
    /\ \A i \in DOMAIN q : q[i].t # "NULLIFY_REQ"
    /\ q # <<>> /\ Head(q).wait /\ Head(q).t = "SH_REQ" => e.st \in {"S", "E"}
    /\ e.st = "S" => e.sharers # {}
TidyLine(a, q, e, ss, rr) ==
    /\ TidyFront(q, e)
    /\ \A k \in Llcs : TidyPair(k, a, cache[k][a].st, waiters[k][a], ss[k], rr[k], q, e)
TidySlots(d) == d.slots \subseteq Touched /\ d.replaced = {}
Tidy == /\ TidySlots(dir)
        /\ \A a \in Addrs : TidyLine(a, dir.q[a], dir.e[a], toCache, toDir)

-----------------------------------------------------------------------------
(* One pair: queues that are alike, messages that join or leave.                *)
LEMMA TidyAlike ==
  ASSUME NEW k, NEW a, NEW st, NEW ws, NEW s, NEW r, NEW q, NEW e, TidyPair(k, a, st, ws, s, r, q, e),
         NEW z, NEW y, Alike(s, z, a), Alike(r, y, a), NEW f, f.st = e.st, f.sharers = e.sharers
  PROVE  TidyPair(k, a, st, ws, z, y, q, f)
<1>1. Live(z, {"INV_REQ"}, a, st # "I") <=> Live(s, {"INV_REQ"}, a, st # "I")
  <2>1. (st # "I") \in BOOLEAN
    OBVIOUS
  <2> QED BY <2>1, AlikeLive
<1>2. /\ \A T : (Has(z, T, a) <=> Has(s, T, a)) /\ (Has(y, T, a) <=> Has(r, T, a))
      /\ \A T, U : Behind(z, T, U, a) <=> Behind(s, T, U, a)
  BY DEF Alike
<1> QED BY <1>1, <1>2 DEF TidyPair, Called, UpgradeExpected, SharedKnown, OnlyUsed

LEMMA TidyJoins ==
  ASSUME NEW k, NEW a, NEW st, NEW ws, NEW s \in Seq(ToCacheMsg), NEW r, NEW q, NEW e,
         TidyPair(k, a, st, ws, s, r, q, e), NEW m \in ToCacheMsg, m.a = a,
         m.t = "INV_REQ" => e.st = "S" /\ CallsFor(q, k),
         m.t = "SH_REP" => e.st = "S",
         m.t = "UPGRADE_REP" => st = "SU" /\ ~Has(s, {"INV_REQ", "FLUSH_REQ"}, a)
  PROVE  TidyPair(k, a, st, ws, Append(s, m), r, q, e)
<1> DEFINE z == Append(s, m)
<1>1. /\ \A T : Has(z, T, a) <=> Has(s, T, a) \/ On(m, T, a)
      /\ \A T, U : Behind(z, T, U, a) <=> Behind(s, T, U, a) \/ (Has(s, T, a) /\ On(m, U, a))
  BY PushHas
<1>2. Live(z, {"INV_REQ"}, a, st # "I") => Live(s, {"INV_REQ"}, a, st # "I") \/ m.t = "INV_REQ"
  BY <1>1 DEF Live, On
<1>3. /\ Has(z, {"SH_REP"}, a) => Has(s, {"SH_REP"}, a) \/ m.t = "SH_REP"
      /\ Has(z, {"UPGRADE_REP"}, a) => Has(s, {"UPGRADE_REP"}, a) \/ m.t = "UPGRADE_REP"
      /\ Has(s, {"UPGRADE_REP"}, a) => Has(z, {"UPGRADE_REP"}, a)
      /\ Behind(z, {"INV_REQ", "FLUSH_REQ"}, {"UPGRADE_REP"}, a) =>
             \/ Behind(s, {"INV_REQ", "FLUSH_REQ"}, {"UPGRADE_REP"}, a)
             \/ Has(s, {"INV_REQ", "FLUSH_REQ"}, a) /\ m.t = "UPGRADE_REP"
  BY <1>1 DEF On
<1> HIDE DEF z
<1>4. TidyPair(k, a, st, ws, z, r, q, e)
  BY <1>2, <1>3 DEF TidyPair, Called, UpgradeExpected, SharedKnown, OnlyUsed
<1> QED BY <1>4 DEF z

LEMMA TidyTaken ==
  ASSUME NEW k, NEW a, NEW st, NEW ws, NEW s, NEW r \in Seq(ToDirMsg), NEW q, NEW e,
         TidyPair(k, a, st, ws, s, r, q, e), r # <<>>,
         On(Head(r), {"WB_REP"}, a) => e.st = "S"
  PROVE  TidyPair(k, a, st, ws, s, Tail(r), q, e)
<1>1. \A T : Has(r, T, a) <=> On(Head(r), T, a) \/ Has(Tail(r), T, a)
  BY PopHas
<1> QED BY <1>1 DEF TidyPair, Called, UpgradeExpected, SharedKnown, OnlyUsed

(* Nothing is called for. *)
Uncalled(a, st, s, r) == ~Live(s, {"INV_REQ"}, a, st # "I") /\ ~Has(r, Gives, a)

LEMMA TidyMoves ==
  ASSUME NEW k, NEW a, NEW st, NEW ws, NEW s, NEW r, NEW q, NEW e,
         TidyPair(k, a, st, ws, s, r, q, e), Uncalled(a, st, s, r),
         NEW p, NEW f, Upgrading(p, k) => Upgrading(q, k),
         k \in f.sharers => k \in e.sharers \/ InUse(k, a),
         \/ f.st = e.st \/ f.st = "S"
         \/ /\ ~Has(s, {"SH_REP"}, a)
            /\ st \in {"S", "SU"} => st = "SU" /\ Has(s, {"UPGRADE_REP"}, a)
  PROVE  TidyPair(k, a, st, ws, s, r, p, f)
<1>1. Has(r, {"INV_REP"}, a) => Has(r, Gives, a)
  BY DEF Has, On, Gives
<1>2. Called(k, a, st, s, r, p, f)
  BY <1>1 DEF Called, Uncalled
<1>3. UpgradeExpected(k, a, st, s, r, p)
  BY DEF TidyPair, UpgradeExpected
<1>4. SharedKnown(a, st, s, r, f)
  BY DEF TidyPair, SharedKnown
<1>5. OnlyUsed(k, a, ws, f)
  BY DEF TidyPair, OnlyUsed
<1> QED BY <1>2, <1>3, <1>4, <1>5 DEF TidyPair

(* The queue grows. *)
LEMMA TidyGrows ==
  ASSUME NEW k, NEW a, NEW st, NEW ws, NEW s, NEW r, NEW q \in Seq(DirReq), NEW e,
         TidyPair(k, a, st, ws, s, r, q, e), NEW x \in DirReq,
         x.c = k /\ x.t = "UPGRADE_REQ" => Has(r, {"UPGRADE_REQ"}, a)
  PROVE  TidyPair(k, a, st, ws, s, r, Append(q, x), e)
<1> DEFINE p == Append(q, x)
<1>1. /\ DOMAIN p = DOMAIN q \union {Len(q) + 1} /\ p[Len(q) + 1] = x
      /\ \A i \in DOMAIN q : p[i] = q[i]
  BY Pushed
<1>2. Upgrading(p, k) => Upgrading(q, k) \/ (x.c = k /\ x.t = "UPGRADE_REQ")
  BY <1>1 DEF Upgrading
<1>3. q # <<>> => p # <<>> /\ Head(p) = Head(q)
  OBVIOUS
<1> HIDE DEF p
<1>4. CallsFor(q, k) => CallsFor(p, k)
  BY <1>3 DEF CallsFor, Granted
<1>5. TidyPair(k, a, st, ws, s, r, p, e)
  BY <1>2, <1>4 DEF TidyPair, Called, UpgradeExpected, SharedKnown, OnlyUsed
<1> QED BY <1>5 DEF p

(* A sharer leaves: for itself, and for those that stay. *)
LEMMA TidyStays ==
  ASSUME NEW k, NEW a, NEW st, NEW ws, NEW s, NEW r, NEW q, NEW e,
         TidyPair(k, a, st, ws, s, r, q, e), PairInv(k, a, st, ws, s, r, q, e),
         NEW f, f.sharers \subseteq e.sharers, k \in e.sharers => f.st = e.st
  PROVE  TidyPair(k, a, st, ws, s, r, q, f)
<1>1. st # "I" \/ Has(s, DataReps, a) \/ Has(r, Gives, a) => k \in e.sharers
  BY DEF PairInv, Listed
<1>2. Live(s, {"INV_REQ"}, a, st # "I") => st # "I" \/ Has(s, DataReps, a)
  BY DEF Live, Behind, Has
<1>3. /\ Has(r, {"INV_REP"}, a) => Has(r, Gives, a)
      /\ Has(s, {"SH_REP"}, a) => Has(s, DataReps, a)
  BY DEF Has, On, Gives, DataReps
<1> QED BY <1>1, <1>2, <1>3 DEF TidyPair, Called, UpgradeExpected, SharedKnown, OnlyUsed

LEMMA TidyLeaves ==
  ASSUME NEW k, NEW a, NEW st, NEW ws, NEW s, NEW r \in Seq(ToDirMsg), NEW q, NEW e,
         TidyPair(k, a, st, ws, s, r, q, e), PairInv(k, a, st, ws, s, r, q, e),
         r # <<>>, Head(r).a = a, Head(r).t \in Gives,
         NEW f, f.sharers = e.sharers \ {k}
  PROVE  TidyPair(k, a, st, ws, s, Tail(r), q, f)
<1>1. /\ \A T : Has(r, T, a) <=> On(Head(r), T, a) \/ Has(Tail(r), T, a)
      /\ AtMostOne(r, Gives, a) => (On(Head(r), Gives, a) => ~Has(Tail(r), Gives, a))
  BY PopHas
<1>2. On(Head(r), Gives, a)
  BY DEF On
<1>3. st = "I" /\ ~Has(s, DataReps, a) /\ ~Has(Tail(r), Gives, a)
  BY <1>1, <1>2 DEF PairInv, OneStake
<1>4. ~Live(s, {"INV_REQ"}, a, st # "I")
  BY <1>3, NoneLive
<1>5. /\ Has(Tail(r), {"INV_REP"}, a) => Has(Tail(r), Gives, a)
      /\ Has(s, {"SH_REP"}, a) => Has(s, DataReps, a)
  BY DEF Has, On, Gives, DataReps
<1> QED BY <1>1, <1>3, <1>4, <1>5 DEF TidyPair, Called, UpgradeExpected, SharedKnown, OnlyUsed

-----------------------------------------------------------------------------
(* A line: messages join, the front request is answered or marked, the entry      *)
(* changes.                                                                  *)
MayJoin(a, cs, m, q, e, ss) ==
    /\ m.t = "INV_REQ" => e.st = "S" /\ \A k \in cs : CallsFor(q, k)
    /\ m.t = "SH_REP" => e.st = "S"
    /\ m.t = "UPGRADE_REP" =>
           \A k \in cs : cache[k][a].st = "SU" /\ ~Has(ss[k], {"INV_REQ", "FLUSH_REQ"}, a)

LEMMA TidyLineJoins ==
  ASSUME NEW a, NEW q, NEW e, NEW ss \in [Llcs -> Seq(ToCacheMsg)], NEW rr, TidyLine(a, q, e, ss, rr),
         NEW m \in ToCacheMsg, m.a = a, NEW cs, MayJoin(a, cs, m, q, e, ss),
         NEW ss2, Joined(ss, ss2, cs, m)
  PROVE  TidyLine(a, q, e, ss2, rr)
<1> SUFFICES ASSUME NEW k \in Llcs
             PROVE  TidyPair(k, a, cache[k][a].st, waiters[k][a], ss2[k], rr[k], q, e)
  BY DEF TidyLine
<1>1. TidyPair(k, a, cache[k][a].st, waiters[k][a], ss[k], rr[k], q, e) /\ ss[k] \in Seq(ToCacheMsg)
  BY DEF TidyLine
<1>2. CASE k \notin cs
  BY <1>1, <1>2 DEF Joined
<1>3. CASE k \in cs
  <2>1. /\ m.t = "INV_REQ" => e.st = "S" /\ CallsFor(q, k)
        /\ m.t = "SH_REP" => e.st = "S"
        /\ m.t = "UPGRADE_REP" => cache[k][a].st = "SU" /\ ~Has(ss[k], {"INV_REQ", "FLUSH_REQ"}, a)
    BY <1>3 DEF MayJoin
  <2>2. TidyPair(k, a, cache[k][a].st, waiters[k][a], Append(ss[k], m), rr[k], q, e)
    BY <1>1, <2>1, TidyJoins
  <2> QED BY <1>3, <2>2 DEF Joined
<1> QED BY <1>2, <1>3

(* Nobody has been called on, and nobody shares the line. *)
CallsNobody(a, ss, rr) == \A k \in Llcs : Uncalled(a, cache[k][a].st, ss[k], rr[k])
NobodyShares(a, ss) == \A k \in Llcs : cache[k][a].st = "I" /\ ~Has(ss[k], {"SH_REP"}, a)

LEMMA NoCalls ==
  ASSUME NEW a, NEW q, NEW e, NEW ss, NEW rr, TidyLine(a, q, e, ss, rr),
         q = <<>> \/ Granted(q) \/ Head(q).t = "SH_REQ"
  PROVE  CallsNobody(a, ss, rr)
BY DEF TidyLine, TidyPair, Called, CallsNobody, Uncalled, CallsFor

LEMMA UncachedLine ==
  ASSUME NEW a, NEW q, NEW e, NEW rep, NEW known, NEW ss, NEW rr,
         LineOK(a, q, e, rep, known, ss, rr), e.st = "U"
  PROVE  CallsNobody(a, ss, rr) /\ NobodyShares(a, ss)
<1>1. e.sharers = {}
  BY DEF LineOK, LineInv
<1> SUFFICES ASSUME NEW k \in Llcs
             PROVE  /\ Uncalled(a, cache[k][a].st, ss[k], rr[k])
                    /\ cache[k][a].st = "I" /\ ~Has(ss[k], {"SH_REP"}, a)
  BY DEF CallsNobody, NobodyShares
<1>2. cache[k][a].st = "I" /\ ~Has(ss[k], DataReps, a) /\ ~Has(rr[k], Gives, a)
  BY <1>1 DEF LineOK, PairInv, Listed
<1>3. ~Has(ss[k], {"SH_REP"}, a)
  BY <1>2 DEF Has, On, DataReps
<1> QED BY <1>2, <1>3, NoneLive DEF Uncalled

LEMMA TidyLineMoves ==
  ASSUME NEW a, NEW q, NEW e, NEW ss, NEW rr, TidyLine(a, q, e, ss, rr), CallsNobody(a, ss, rr),
         NEW p, NEW f, TidyFront(p, f), \A k : Upgrading(p, k) => Upgrading(q, k),
         \A k \in f.sharers : k \in e.sharers \/ InUse(k, a),
         f.st = e.st \/ f.st = "S" \/ NobodyShares(a, ss)
  PROVE  TidyLine(a, p, f, ss, rr)
<1> SUFFICES ASSUME NEW k \in Llcs
             PROVE  TidyPair(k, a, cache[k][a].st, waiters[k][a], ss[k], rr[k], p, f)
  BY DEF TidyLine
<1>1. /\ TidyPair(k, a, cache[k][a].st, waiters[k][a], ss[k], rr[k], q, e)
      /\ Uncalled(a, cache[k][a].st, ss[k], rr[k])
      /\ Upgrading(p, k) => Upgrading(q, k)
      /\ k \in f.sharers => k \in e.sharers \/ InUse(k, a)
      /\ \/ f.st = e.st \/ f.st = "S"
         \/ ~Has(ss[k], {"SH_REP"}, a) /\ cache[k][a].st \notin {"S", "SU"}
  BY DEF TidyLine, CallsNobody, NobodyShares
<1> QED BY <1>1, TidyMoves

LEMMA FrontAnswered ==
  ASSUME NEW q \in Seq(DirReq), q # <<>>, NEW e, FrontWaits(q, e), TidyFront(q, e),
         NEW f, f.st = "S" => f.sharers # {}
  PROVE  TidyFront(Tail(q), f) /\ \A k : Upgrading(Tail(q), k) => Upgrading(q, k)
<1>1. /\ \A i \in DOMAIN Tail(q) : i + 1 \in DOMAIN q /\ Tail(q)[i] = q[i + 1] /\ i + 1 # 1
      /\ Tail(q) \in Seq(DirReq)
  BY Popped
<1>2. \A i \in DOMAIN Tail(q) : ~Tail(q)[i].wait /\ Tail(q)[i].t # "NULLIFY_REQ"
  BY <1>1 DEF FrontWaits, TidyFront
<1>3. Tail(q) # <<>> => 1 \in DOMAIN Tail(q) /\ Head(Tail(q)) = Tail(q)[1]
  BY <1>1
<1>4. TidyFront(Tail(q), f)
  BY <1>2, <1>3 DEF TidyFront
<1> QED BY <1>1, <1>4 DEF Upgrading

LEMMA FrontNoted ==
  ASSUME NEW q \in Seq(DirReq), q # <<>>, NEW e, TidyFront(q, e), NEW p, Marks(p, q),
         NEW f, f.st = "S" => f.sharers # {}, p[1].wait /\ p[1].t = "SH_REQ" => f.st \in {"S", "E"}
  PROVE  TidyFront(p, f) /\ \A k : Upgrading(p, k) => Upgrading(q, k)
<1>1. /\ DOMAIN p = 1 .. Len(q) /\ DOMAIN q = 1 .. Len(q) /\ Head(p) = p[1]
      /\ \A i \in DOMAIN p : p[i].t = q[i].t /\ p[i].c = q[i].c
  BY DEF Marks
<1>2. TidyFront(p, f)
  BY <1>1 DEF TidyFront
<1> QED BY <1>1, <1>2 DEF Upgrading

-----------------------------------------------------------------------------
(* A directory at work. *)
TidyAt(z, rest, a) == TidyLine(a, z.d.q[a], z.d.e[a], Out(z), rest)
TidyOthers(z, rest, a) == \A b \in Addrs \ {a} : TidyAt(z, rest, b)
Tidies(w, z, rest, a) == z.err = NoFailure /\ OnlyAt(w, z, a) /\ TidyAt(z, rest, a)

LEMMA SentTidily ==
  ASSUME NEW w, NEW rest, NEW a, NEW q, NEW e, NEW rep, Fine(w, rest), At(w, a, q, e, rep),
         NEW p, NEW f, NEW new, NEW z, At(z, a, p, f, new), Apart(w, z, a),
         NEW cs, NEW m \in ToCacheMsg, m.a = a, Sends(w, z, cs, m),
         NEW ss, ss = Out(w), TidyLine(a, p, f, ss, rest), MayJoin(a, cs, m, p, f, ss)
  PROVE  OnlyAt(w, z, a) /\ TidyAt(z, rest, a)
<1>1. toCache \in [Llcs -> Seq(ToCacheMsg)]
  BY DEF Fine
<1> DEFINE ss2 == Out(z)
<1>2. ss2 = Out(z)
  OBVIOUS
<1> HIDE DEF ss2
<1>3. ss \in [Llcs -> Seq(ToCacheMsg)] /\ Joined(ss, ss2, cs, m)
  BY <1>1, <1>2, OutJoined
<1>4. TidyLine(a, p, f, ss2, rest)
  BY <1>3, TidyLineJoins
<1>5. OnlyAt(w, z, a)
  BY ApartSends
<1> QED BY <1>2, <1>4, <1>5 DEF TidyAt, At

LEMMA LeftTidily ==
  ASSUME NEW w, NEW rest, NEW a, NEW z, NEW p, NEW f, NEW new, At(z, a, p, f, new), Apart(w, z, a),
         z.out = w.out, NEW ss, ss = Out(w), TidyLine(a, p, f, ss, rest)
  PROVE  OnlyAt(w, z, a) /\ TidyAt(z, rest, a)
<1>1. Out(z) = ss
  BY OutSame
<1> QED BY <1>1, ApartOnly DEF TidyAt, At

LEMMA SentSafely ==
  ASSUME NEW w, NEW c \in Llcs, NEW t, NEW a, NEW data, NEW z, z = Send(w, c, t, a, data)
  PROVE  z.err = w.err
BY DEF Send

(* Data is found for the front request without fail. *)
LEMMA RetrievesSafely ==
  ASSUME NEW v, NEW a, NEW q, NEW e, NEW rep, At(v, a, q, e, rep), q # <<>>,
         NEW t \in DataReps, NEW c \in Llcs, NEW buf \in Data,
         NEW z, z = retrieveDataAndSend(v, t, c, a, buf)
  PROVE  z.err = v.err
<1> DEFINE k == e.fwd
           guard == Protocol = "mesif" /\ Head(q).from = NoCore /\ e.st = "S" /\ k # NoCore
<1>1. Head(q) = q[1] /\ q \in Seq(DirReq) /\ k \in Cores
  BY Popped DEF At, DirEntry
<1>2. CASE buf # NoData
  <2> DEFINE f == Forwards(e, c)
             y == SetE(v, a, f)
             m == Msg(t, a, buf)
             u == Send(y, c, t, a, buf)
  <2>1. /\ f \in DirEntry /\ y = SetE(v, a, f) /\ u = Send(y, c, t, a, buf)
        /\ m \in ToCacheMsg /\ m = Msg(t, a, buf)
    BY <1>2, EntryFields, Messages DEF At, Cores, DataReps, Reps
  <2>2. z = processNextReq(u, a)
    <3>1. [v EXCEPT !.d.e[a].fwd = c] = y
      BY DEF SetE, Forwards, At
    <3> QED BY <1>2, <3>1 DEF retrieveDataAndSend
  <2> HIDE DEF f, y, m, u
  <2>3. At(y, a, q, f, rep) /\ Quiet(v, y)
    BY <2>1, AtEntry
  <2>4. At(u, a, q, f, rep)
    BY <2>1, <2>3, AtSend
  <2>5. u.err = y.err
    BY <2>1, SentSafely
  <2>6. Finished(u, z, Tail(q))
    BY <2>2, <2>4, AtNext
  <2> QED BY <2>3, <2>5, <2>6 DEF Quiet, Finished
<1>3. CASE buf = NoData /\ guard
  <2> DEFINE p == MarkFrom(q, k)
             y == SetQ(v, a, p)
             m == Msg("WB_REQ", a, NoData)
  <2>1. m \in ToCacheMsg /\ m = Msg("WB_REQ", a, NoData)
    BY Messages DEF At, Data, DataReps
  <2>2. p \in Seq(DirReq) /\ k \in Llcs /\ y = SetQ(v, a, p)
    BY <1>1, <1>3, MarkedFrom DEF Marks, Cores
  <2>3. z = Send(y, k, "WB_REQ", a, NoData)
    <3>1. [v EXCEPT !.d.q[a][1].from = k] = y
      BY DEF SetQ, MarkFrom, At
    <3>2. z = Send([v EXCEPT !.d.q[a][1].from = k], k, "WB_REQ", a, NoData)
      BY <1>3 DEF retrieveDataAndSend, At, FrontReq, Dstate
    <3> QED BY <3>1, <3>2
  <2> HIDE DEF m, p, y, guard, k
  <2>4. At(y, a, p, e, rep) /\ Quiet(v, y)
    BY <2>2, AtQueue
  <2>5. z.err = y.err
    BY <2>2, <2>3, SentSafely
  <2> QED BY <2>4, <2>5 DEF Quiet
<1>4. CASE buf = NoData /\ ~guard
  <2> DEFINE p == MarkWait(q)
             y == SetQ(v, a, p)
             new == Append(rep, v.d.mem[a])
  <2>1. p \in Seq(DirReq)
    BY <1>1, MarkedWait DEF Marks
  <2>2. new \in Seq(Filled) /\ y = SetQ(v, a, p)
    BY FieldTypes DEF At
  <2>3. z = SetR(y, a, new)
    <3>1. [v EXCEPT !.d.q[a][1].wait = TRUE, !.d.reply[a] = Append(@, v.d.mem[a])] = SetR(y, a, new)
      BY DEF SetQ, SetR, MarkWait, At
    <3>2. z = [v EXCEPT !.d.q[a][1].wait = TRUE, !.d.reply[a] = Append(@, v.d.mem[a])]
      BY <1>4 DEF retrieveDataAndSend, At, FrontReq, Dstate
    <3> QED BY <3>1, <3>2
  <2> HIDE DEF p, y, guard, new
  <2>4. At(y, a, p, e, rep) /\ Quiet(v, y)
    BY <2>1, <2>2, AtQueue
  <2>5. Quiet(y, z)
    BY <2>2, <2>3, <2>4, AtReply
  <2> QED BY <2>4, <2>5 DEF Quiet
<1> QED BY <1>2, <1>3, <1>4

-----------------------------------------------------------------------------
(* Requests to caches. *)
LEMMA AsksTidily ==
  ASSUME NEW w, NEW rest, NEW a, NEW q, NEW e, NEW rep, Fine(w, rest), At(w, a, q, e, rep),
         TidyAt(w, rest, a), NEW t \in Asks, NEW cs, t = "INV_REQ" => e.st = "S" /\ \A k \in cs : CallsFor(q, k),
         NEW z, At(z, a, q, e, rep), Apart(w, z, a), Sends(w, z, cs, Msg(t, a, NoData))
  PROVE  OnlyAt(w, z, a) /\ TidyAt(z, rest, a)
<1> DEFINE m == Msg(t, a, NoData)
           ss == Out(w)
<1>1. m \in ToCacheMsg /\ m.a = a /\ m.t = t
  <2>1. a \in Addrs /\ NoData \in Data /\ t \in Reps \union {"INV_REQ", "FLUSH_REQ", "WB_REQ"} /\ t \notin DataReps
    BY DEF At, Data, Asks, DataReps
  <2> QED BY <2>1, Messages
<1>2. ss = Out(w) /\ Sends(w, z, cs, m)
  OBVIOUS
<1> HIDE DEF m, ss
<1>3. TidyLine(a, q, e, ss, rest)
  BY <1>2 DEF TidyAt, At
<1>4. MayJoin(a, cs, m, q, e, ss)
  BY <1>1 DEF MayJoin, Asks
<1> QED BY <1>1, <1>2, <1>3, <1>4, SentTidily

LEMMA SendsOneTidily ==
  ASSUME NEW w, NEW rest, NEW a, NEW q, NEW e, NEW rep, Fine(w, rest), At(w, a, q, e, rep),
         TidyAt(w, rest, a), w.err = NoFailure,
         NEW t \in Asks, NEW c \in Llcs, t = "INV_REQ" => e.st = "S" /\ CallsFor(q, c),
         NEW z, z = Send(w, c, t, a, NoData)
  PROVE  Tidies(w, z, rest, a)
<1> DEFINE m == Msg(t, a, NoData)
           cs == {c}
<1>1. m \in ToCacheMsg /\ m = Msg(t, a, NoData)
  <2>1. a \in Addrs /\ NoData \in Data /\ t \in Reps \union {"INV_REQ", "FLUSH_REQ", "WB_REQ"} /\ t \notin DataReps
    BY DEF At, Data, Asks, DataReps
  <2> QED BY <2>1, Messages
<1>2. z.err = NoFailure
  BY SentSafely
<1>3. cs = {c} /\ \A k \in cs : k = c
  OBVIOUS
<1> HIDE DEF m, cs
<1>4. At(z, a, q, e, rep) /\ Apart(w, z, a) /\ Delivered(w, z, c, m)
  BY <1>1, AtSend
<1>5. Sends(w, z, cs, Msg(t, a, NoData))
  BY <1>1, <1>2, <1>3, <1>4 DEF Delivered
<1>6. t = "INV_REQ" => e.st = "S" /\ \A k \in cs : CallsFor(q, k)
  BY <1>3
<1>7. OnlyAt(w, z, a) /\ TidyAt(z, rest, a)
  BY <1>4, <1>5, <1>6, AsksTidily
<1> QED BY <1>2, <1>7 DEF Tidies

LEMMA SendsAllTidily ==
  ASSUME NEW w, NEW rest, NEW a, NEW q, NEW e, NEW rep, Fine(w, rest), At(w, a, q, e, rep),
         TidyAt(w, rest, a), w.err = NoFailure,
         NEW cs, e.st = "S", \A k \in cs : CallsFor(q, k),
         NEW z, z = SendAll(w, cs, "INV_REQ", a)
  PROVE  Tidies(w, z, rest, a)
<1> DEFINE m == Msg("INV_REQ", a, NoData)
<1>1. m \in ToCacheMsg /\ m = Msg("INV_REQ", a, NoData)
  <2>1. a \in Addrs /\ NoData \in Data
    BY DEF At, Data
  <2> QED BY <2>1, Messages DEF DataReps
<1> HIDE DEF m
<1>2. At(z, a, q, e, rep) /\ Apart(w, z, a) /\ Broadcast(w, z, cs, m)
  BY <1>1, AtSendAll
<1>3. z.err = NoFailure /\ Sends(w, z, cs, Msg("INV_REQ", a, NoData)) /\ "INV_REQ" \in Asks
  BY <1>1, <1>2 DEF Broadcast, Asks
<1>4. OnlyAt(w, z, a) /\ TidyAt(z, rest, a)
  BY <1>2, <1>3, AsksTidily
<1> QED BY <1>3, <1>4 DEF Tidies

(* Data is found for the front request. *)
TidyGrant(q, e, f, t, a, ss) ==
    /\ f \in DirEntry /\ f.sharers = e.sharers \union {Head(q).c}
    /\ f.st = e.st \/ NobodyShares(a, ss)
    /\ f.st = "S" => f.sharers # {}
    /\ t = "SH_REP" => f.st = "S"
    /\ Head(q).t = "SH_REQ" => f.st \in {"S", "E"}

LEMMA RetrievedTidily ==
  ASSUME NEW w, NEW rest, NEW a, NEW q, NEW e, NEW rep, Fine(w, rest), At(w, a, q, e, rep),
         TidyAt(w, rest, a), w.err = NoFailure, q # <<>>, ~Head(q).wait, FrontWaits(q, e),
         NEW c \in Llcs, c = Head(q).c, InUse(c, a), NEW ss, ss = Out(w), CallsNobody(a, ss, rest),
         NEW t \in DataReps, NEW f, TidyGrant(q, e, f, t, a, ss), NEW buf \in Data,
         NEW v, Quiet(w, v), Apart(w, v, a), At(v, a, q, f, rep),
         NEW z, z = retrieveDataAndSend(v, t, c, a, buf)
  PROVE  Tidies(w, z, rest, a)
<1>1. z.err = NoFailure
  <2>1. z.err = v.err
    BY RetrievesSafely
  <2> QED BY <2>1 DEF Quiet
<1>2. TidyLine(a, q, e, ss, rest) /\ TidyFront(q, e) /\ q \in Seq(DirReq) /\ a \in Addrs
  BY DEF TidyAt, TidyLine, At
<1>3. /\ \A k \in f.sharers : k \in e.sharers \/ InUse(k, a)
      /\ f.st = e.st \/ f.st = "S" \/ NobodyShares(a, ss)
      /\ f.st = "S" => f.sharers # {}
  BY DEF TidyGrant
<1>4. f \in DirEntry
  BY DEF TidyGrant
<1>5. CASE buf # NoData
  <2> DEFINE m == Msg(t, a, buf)
             g == Forwards(f, c)
             p == Tail(q)
             cs == {c}
  <2>1. m \in ToCacheMsg /\ m.a = a /\ m.t = t
    BY <1>2, <1>5, Messages DEF DataReps, Reps
  <2>2. Apart(v, z, a) /\ ByData(v, z, t, c, a, buf, q, f, rep)
    BY <1>1, <1>5, RetrievedData
  <2>3. At(z, a, p, g, rep) /\ Sends(v, z, cs, m)
    BY <2>2 DEF ByData
  <2>4. g.st = f.st /\ g.sharers = f.sharers
    BY <1>4, EntryFields DEF Cores
  <2>5. TidyFront(p, g) /\ \A k : Upgrading(p, k) => Upgrading(q, k)
    BY <1>2, <1>3, <2>4, FrontAnswered
  <2> HIDE DEF m, g, p, cs
  <2>6. TidyLine(a, p, g, ss, rest)
    BY <1>2, <1>3, <2>4, <2>5, TidyLineMoves
  <2>7. MayJoin(a, cs, m, p, g, ss)
    BY <2>1, <2>4 DEF MayJoin, TidyGrant, DataReps
  <2>8. Apart(w, z, a) /\ Sends(w, z, cs, m)
    BY <2>2, <2>3, ApartChain, SendsQuietly
  <2>9. OnlyAt(w, z, a) /\ TidyAt(z, rest, a)
    BY <2>1, <2>3, <2>6, <2>7, <2>8, SentTidily
  <2> QED BY <1>1, <2>9 DEF Tidies
<1>6. CASE buf = NoData
  <2>1. /\ Apart(v, z, a)
        /\ ByForwarder(v, z, a, q, f, rep) \/ ByDram(v, z, a, q, f, rep)
    BY <1>1, <1>6, RetrievedNoData
  <2>2. Apart(w, z, a)
    BY <2>1, ApartChain
  <2>3. CASE ByForwarder(v, z, a, q, f, rep)
    <3> DEFINE m == Msg("WB_REQ", a, NoData)
               k == f.fwd
               p == MarkFrom(q, k)
               cs == {k}
    <3>1. m \in ToCacheMsg /\ m.a = a /\ m.t = "WB_REQ"
      <4>1. NoData \in Data
        BY DEF Data
      <4> QED BY <1>2, <4>1, Messages DEF DataReps
    <3>2. At(z, a, p, f, rep) /\ Sends(v, z, cs, m) /\ k \in Cores
      BY <2>3 DEF ByForwarder, Cores
    <3>3. Marks(p, q) /\ p[1].wait = q[1].wait
      BY <1>2, <3>2, MarkedFrom
    <3>4. ~p[1].wait
      BY <3>3 DEF Marks
    <3>5. TidyFront(p, f) /\ \A x : Upgrading(p, x) => Upgrading(q, x)
      BY <1>2, <1>3, <3>3, <3>4, FrontNoted
    <3> HIDE DEF m, k, p, cs
    <3>6. TidyLine(a, p, f, ss, rest)
      BY <1>2, <1>3, <3>5, TidyLineMoves
    <3>7. MayJoin(a, cs, m, p, f, ss)
      BY <3>1 DEF MayJoin
    <3>8. Sends(w, z, cs, m)
      BY <3>2, SendsQuietly
    <3>9. OnlyAt(w, z, a) /\ TidyAt(z, rest, a)
      BY <2>2, <3>1, <3>2, <3>6, <3>7, <3>8, SentTidily
    <3> QED BY <1>1, <3>9 DEF Tidies
  <2>4. CASE ByDram(v, z, a, q, f, rep)
    <3> DEFINE p == MarkWait(q)
               new == Append(rep, v.d.mem[a])
    <3>1. At(z, a, p, f, new) /\ z.out = w.out
      BY <2>4 DEF ByDram, Quiet
    <3>2. Marks(p, q)
      BY <1>2, MarkedWait
    <3>3. p[1].wait /\ p[1].t = "SH_REQ" => f.st \in {"S", "E"}
      BY <3>2 DEF Marks, TidyGrant
    <3>4. TidyFront(p, f) /\ \A x : Upgrading(p, x) => Upgrading(q, x)
      BY <1>2, <1>3, <3>2, <3>3, FrontNoted
    <3> HIDE DEF p, new
    <3>5. TidyLine(a, p, f, ss, rest)
      BY <1>2, <1>3, <3>4, TidyLineMoves
    <3>6. OnlyAt(w, z, a) /\ TidyAt(z, rest, a)
      BY <2>2, <3>1, <3>5, LeftTidily
    <3> QED BY <1>1, <3>6 DEF Tidies
  <2> QED BY <2>1, <2>3, <2>4
<1> QED BY <1>5, <1>6

-----------------------------------------------------------------------------
(* The three requests: no assertion fails, and the line stays tidy.             *)
LEMMA RoomyFacts ==
  ASSUME Roomy, sys \in Systems
  PROVE  /\ IsFiniteSet(Users) /\ Users \subseteq Llcs /\ IsFiniteSet(Touched) /\ Touched \subseteq Addrs
         /\ Cardinality(Users) \in Nat /\ Cardinality(Touched) \in Nat
         /\ MaxHwSharers \in Nat /\ DirWays \in Nat /\ CacheWays \in Nat
         /\ Cardinality(Users) <= MaxHwSharers /\ Cardinality(Touched) <= DirWays
         /\ Cardinality(Touched) <= CacheWays
<1>1. Users \subseteq Llcs /\ Touched \subseteq Addrs
  <2>1. LlcOf \in [Threads -> Llcs] /\ Uses \in [Threads -> SUBSET Addrs]
    BY CacheAssumption DEF LlcOf, Uses
  <2> QED BY <2>1 DEF Users, Touched
<1>2. IsFiniteSet(Users) /\ IsFiniteSet(Touched)
  BY <1>1, FS_Subset, DirectoryAssumption
<1>3. Cardinality(Users) \in Nat /\ Cardinality(Touched) \in Nat
  BY <1>2, FS_CardinalityType
<1>4. MaxHwSharers \in Nat /\ DirWays \in Nat /\ CacheWays \in Nat
  BY DirectoryAssumption, CacheAssumption DEF MaxHwSharers, DirWays, CacheWays
<1> QED BY <1>1, <1>2, <1>3, <1>4 DEF Roomy

(* A set that leaves out an element is smaller. *)
LEMMA Fewer ==
  ASSUME NEW S, NEW T, IsFiniteSet(T), S \subseteq T, NEW x \in T, x \notin S
  PROVE  Cardinality(S) \in Nat /\ Cardinality(T) \in Nat /\ Cardinality(S) < Cardinality(T)
<1>1. S # T
  OBVIOUS
<1> QED BY <1>1, FS_Subset, FS_CardinalityType

(* Whoever has a request in the queue is a thread's cache. *)
LEMMA RequesterInUse ==
  ASSUME NEW a, NEW q, NEW e, NEW rep, NEW known, NEW ss, NEW rr,
         LineOK(a, q, e, rep, known, ss, rr), TidyLine(a, q, e, ss, rr),
         q # <<>>, Head(q).c \in Llcs
  PROVE  InUse(Head(q).c, a)
<1> DEFINE c == Head(q).c
<1>1. PairInv(c, a, cache[c][a].st, waiters[c][a], ss[c], rr[c], q, e) /\ q \in Seq(DirReq)
  BY DEF LineOK
<1>2. OnlyUsed(c, a, waiters[c][a], e)
  BY DEF TidyLine, TidyPair
<1>3. Queued(q, c)
  <2>1. Head(q) = q[1] /\ 1 \in DOMAIN q
    BY <1>1, Popped
  <2> QED BY <2>1 DEF Queued
<1> HIDE DEF c
<1>4. InUse(c, a)
  BY <1>1, <1>2, <1>3 DEF PairInv, SomebodyWaits, OnlyUsed
<1> QED BY <1>4 DEF c

(* The directory is about to process the front request, and is tidy. *)
Able(w, rest, a, q, e, rep) ==
    Ready(w, rest, a, q, e, rep) /\ TidyAt(w, rest, a) /\ w.err = NoFailure
AbleFacts(w, rest, a, q, e, rep, c, ss) ==
    /\ Fine(w, rest) /\ At(w, a, q, e, rep) /\ TidyAt(w, rest, a) /\ w.err = NoFailure
    /\ q # <<>> /\ ~Head(q).wait /\ a \in Addrs /\ e \in DirEntry /\ NoData \in Data
    /\ FrontWaits(q, e) /\ FrontFacts(q, e, rep) /\ (Granted(q) => e.st = "S")
    /\ c = Head(q).c /\ c \in Llcs /\ InUse(c, a)
    /\ ss = Out(w) /\ LineOK(a, q, e, rep, HasEntry(w, a), ss, rest) /\ TidyLine(a, q, e, ss, rest)
    /\ TidyFront(q, e)
    /\ FrontReq(w, a) = Head(q) /\ Dstate(w, a) = e.st /\ Sharers(w, a) = e.sharers /\ w.d.e[a] = e
    /\ e.st \in {"U", "S", "E", "M"}
    /\ e.st = "U" => CallsNobody(a, ss, rest) /\ NobodyShares(a, ss)

LEMMA AbleParts ==
  ASSUME NEW w, NEW rest, NEW a, NEW q, NEW e, NEW rep, Able(w, rest, a, q, e, rep),
         Head(q).t # "NULLIFY_REQ", NEW c, c = Head(q).c, NEW ss, ss = Out(w)
  PROVE  AbleFacts(w, rest, a, q, e, rep, c, ss)
<1> DEFINE known == HasEntry(w, a)
<1>1. Ready(w, rest, a, q, e, rep) /\ TidyAt(w, rest, a) /\ w.err = NoFailure /\ known = HasEntry(w, a)
  BY DEF Able
<1> HIDE DEF known
<1>2. /\ Fine(w, rest) /\ At(w, a, q, e, rep) /\ q # <<>> /\ ~Head(q).wait /\ (Granted(q) => e.st = "S")
      /\ e.st \in {"U", "S", "E", "M"} /\ NoData \in Data /\ a \in Addrs /\ e \in DirEntry
  BY <1>1, ReadyParts
<1>3. FrontFacts(q, e, rep)
  BY <1>1, ReadyFront
<1>4. c \in Llcs /\ FrontWaits(q, e)
  BY <1>3 DEF FrontFacts
<1>5. LineOK(a, q, e, rep, known, ss, rest)
  <2>1. LineAt(w, rest, a, q, e, rep, known, ss)
    BY <1>1, <1>2, FineLine
  <2> QED BY <2>1 DEF LineAt
<1>6. TidyLine(a, q, e, ss, rest) /\ TidyFront(q, e)
  BY <1>1, <1>2 DEF TidyAt, At, TidyLine
<1>7. InUse(c, a)
  BY <1>2, <1>4, <1>5, <1>6, RequesterInUse
<1>8. FrontReq(w, a) = Head(q) /\ Dstate(w, a) = e.st /\ Sharers(w, a) = e.sharers /\ w.d.e[a] = e
  BY <1>2, AtFront
<1>9. e.st = "U" => CallsNobody(a, ss, rest) /\ NobodyShares(a, ss)
  BY <1>5, <1>6, UncachedLine
<1> QED BY <1>1, <1>2, <1>3, <1>4, <1>5, <1>6, <1>7, <1>8, <1>9 DEF AbleFacts

(* The requester becomes the only sharer of a line that nobody caches. *)
LEMMA GrantsTidily ==
  ASSUME NEW w, NEW rest, NEW a, NEW q, NEW e, NEW rep, NEW c, NEW ss,
         AbleFacts(w, rest, a, q, e, rep, c, ss), e.st = "U", NEW st \in {"S", "E", "M"},
         NEW t \in DataReps, t = "SH_REP" => st = "S", Head(q).t = "SH_REQ" => st # "M",
         NEW buf \in Data, NEW z, z = retrieveDataAndSend(Grant(w, a, c, st), t, c, a, buf)
  PROVE  Tidies(w, z, rest, a)
<1> DEFINE f == Granting(e, c, st)
           y == SetE(w, a, f)
<1>1. f = Granting(e, c, st) /\ y = SetE(w, a, f)
  OBVIOUS
<1> HIDE DEF f, y
<1>2. /\ Fine(w, rest) /\ At(w, a, q, e, rep) /\ TidyAt(w, rest, a) /\ w.err = NoFailure
      /\ q # <<>> /\ ~Head(q).wait /\ FrontWaits(q, e) /\ c = Head(q).c /\ c \in Llcs /\ InUse(c, a)
      /\ ss = Out(w) /\ CallsNobody(a, ss, rest) /\ NobodyShares(a, ss)
  BY DEF AbleFacts
<1>3. Grant(w, a, c, st) = y /\ f \in DirEntry /\ f.sharers = e.sharers \union {c} /\ f.st = st
  BY <1>1, <1>2, GrantIs
<1>4. At(y, a, q, f, rep) /\ Apart(w, y, a) /\ Quiet(w, y)
  BY <1>1, <1>2, <1>3, AtEntry
<1>5. TidyGrant(q, e, f, t, a, ss)
  BY <1>2, <1>3 DEF TidyGrant
<1>6. z = retrieveDataAndSend(y, t, c, a, buf)
  BY <1>3
<1> QED BY <1>2, <1>4, <1>5, <1>6, RetrievedTidily

LEMMA ExTidy ==
  ASSUME NEW w, NEW rest, NEW a, NEW q, NEW e, NEW rep, Able(w, rest, a, q, e, rep),
         Head(q).t = "EX_REQ", NEW buf \in Data, buf # NoData => e.st = "U",
         NEW z, z = processExReq(w, a, buf)
  PROVE  Tidies(w, z, rest, a)
<1> DEFINE c == Head(q).c
           ss == Out(w)
<1>1. c = Head(q).c /\ ss = Out(w)
  OBVIOUS
<1> HIDE DEF c, ss
<1>2. AbleFacts(w, rest, a, q, e, rep, c, ss)
  BY <1>1, AbleParts
<1>3. ~Granted(q) /\ c \notin e.sharers /\ (e.st \in {"E", "M"} => e.sharers = {e.owner})
  BY <1>2 DEF AbleFacts, FrontFacts, Fetches
<1>4. CASE e.st \in {"E", "M"}
  <2>1. z = Send(w, e.owner, "FLUSH_REQ", a, NoData)
    BY <1>2, <1>4 DEF processExReq, AbleFacts, Assert_
  <2>2. e.owner \in Llcs /\ "FLUSH_REQ" \in Asks
    BY <1>2, <1>3, <1>4 DEF AbleFacts, DirEntry, Asks
  <2> QED BY <1>2, <2>1, <2>2, SendsOneTidily DEF AbleFacts
<1>5. CASE e.st = "S"
  <2>1. z = SendAll(w, e.sharers, "INV_REQ", a)
    BY <1>2, <1>5 DEF processExReq, AbleFacts, Assert_
  <2>2. \A k \in e.sharers : CallsFor(q, k)
    BY <1>1, <1>2, <1>3 DEF CallsFor, AbleFacts
  <2> QED BY <1>2, <1>5, <2>1, <2>2, SendsAllTidily DEF AbleFacts
<1>6. CASE e.st = "U"
  <2>1. z = retrieveDataAndSend(Grant(w, a, c, "M"), "EX_REP", c, a, buf)
    BY <1>1, <1>2, <1>6 DEF processExReq, AbleFacts
  <2> QED BY <1>2, <1>6, <2>1, GrantsTidily DEF DataReps
<1> QED BY <1>2, <1>4, <1>5, <1>6 DEF AbleFacts

(* An entry has room for another cache. *)
LEMMA EntryHasRoom ==
  ASSUME Roomy, sys \in Systems, NEW w, NEW rest, NEW a, NEW q, NEW e, NEW rep, NEW c, NEW ss,
         AbleFacts(w, rest, a, q, e, rep, c, ss), c \notin e.sharers
  PROVE  ~EntryFull(w, a)
<1>1. e.sharers \subseteq Users /\ c \in Users
  <2>1. \A k \in e.sharers : k \in Llcs /\ OnlyUsed(k, a, waiters[k][a], e)
    BY DEF AbleFacts, DirEntry, TidyLine, TidyPair
  <2> QED BY <2>1 DEF OnlyUsed, InUse, AbleFacts
<1>2. Cardinality(e.sharers) \in Nat /\ Cardinality(e.sharers) < Cardinality(Users)
  BY <1>1, RoomyFacts, Fewer
<1>3. ~(Cardinality(e.sharers) >= MaxHwSharers)
  BY <1>2, RoomyFacts
<1> QED BY <1>3 DEF EntryFull, AbleFacts

LEMMA ShTidy ==
  ASSUME Roomy, sys \in Systems, NEW w, NEW rest, NEW a, NEW q, NEW e, NEW rep, Able(w, rest, a, q, e, rep),
         Head(q).t = "SH_REQ", NEW buf \in Data, buf # NoData => e.st \in {"U", "S"},
         NEW z, z = processShReq(w, a, buf)
  PROVE  Tidies(w, z, rest, a)
<1> DEFINE c == Head(q).c
           ss == Out(w)
<1>1. c = Head(q).c /\ ss = Out(w)
  OBVIOUS
<1> HIDE DEF c, ss
<1>2. AbleFacts(w, rest, a, q, e, rep, c, ss)
  BY <1>1, AbleParts
<1>3. (~Granted(q) => c \notin e.sharers) /\ (e.st \in {"E", "M"} => e.sharers = {e.owner})
  BY <1>2 DEF AbleFacts, FrontFacts, Fetches
<1>4. CASE e.st \in {"E", "M"}
  <2>1. c # e.owner /\ e.owner \in Llcs /\ "WB_REQ" \in Asks
    BY <1>2, <1>3, <1>4 DEF AbleFacts, DirEntry, Asks
  <2>2. z = Send(w, e.owner, "WB_REQ", a, NoData)
    BY <1>2, <1>4, <2>1 DEF processShReq, AbleFacts, Assert_
  <2> QED BY <1>2, <2>1, <2>2, SendsOneTidily DEF AbleFacts
<1>5. CASE e.st = "S"
  <2>1. CallsNobody(a, ss, rest)
    BY <1>2, NoCalls DEF AbleFacts
  <2>2. /\ Fine(w, rest) /\ At(w, a, q, e, rep) /\ TidyAt(w, rest, a) /\ w.err = NoFailure
        /\ q # <<>> /\ ~Head(q).wait /\ FrontWaits(q, e) /\ c \in Llcs /\ InUse(c, a) /\ e \in DirEntry
        /\ "SH_REP" \in DataReps
    BY <1>2 DEF AbleFacts, DataReps
  <2>3. CASE c \in e.sharers
    <3>1. z = retrieveDataAndSend(w, "SH_REP", c, a, buf)
      BY <1>1, <1>2, <1>5, <2>3 DEF processShReq, AbleFacts
    <3>2. Quiet(w, w) /\ Apart(w, w, a)
      BY <2>2 DEF Quiet, At, Apart
    <3>3. TidyGrant(q, e, e, "SH_REP", a, ss)
      BY <1>1, <1>5, <2>2, <2>3 DEF TidyGrant
    <3> QED BY <1>1, <2>1, <2>2, <3>1, <3>2, <3>3, RetrievedTidily
  <2>4. CASE c \notin e.sharers
    <3> DEFINE f == Sharing(e, c)
               y == SetE(w, a, f)
    <3>1. ~EntryFull(w, a)
      BY <1>2, <2>4, EntryHasRoom
    <3>2. z = retrieveDataAndSend(addSharer(w, a, c), "SH_REP", c, a, buf)
      BY <1>1, <1>2, <1>5, <2>4, <3>1 DEF processShReq, AbleFacts
    <3>3. f = Sharing(e, c) /\ y = SetE(w, a, f)
      OBVIOUS
    <3> HIDE DEF f, y
    <3>4. addSharer(w, a, c) = y /\ f \in DirEntry /\ f.sharers = e.sharers \union {c} /\ f.st = e.st
      BY <2>2, <3>3, SharingIs
    <3>5. At(y, a, q, f, rep) /\ Apart(w, y, a) /\ Quiet(w, y)
      BY <2>2, <3>3, <3>4, AtEntry
    <3>6. TidyGrant(q, e, f, "SH_REP", a, ss)
      BY <1>1, <1>5, <3>4 DEF TidyGrant
    <3>7. z = retrieveDataAndSend(y, "SH_REP", c, a, buf)
      BY <3>2, <3>4
    <3> QED BY <1>1, <2>1, <2>2, <3>5, <3>6, <3>7, RetrievedTidily
  <2> QED BY <2>3, <2>4
<1>6. CASE e.st = "U" /\ Protocol = "msi"
  <2>1. z = retrieveDataAndSend(Grant(w, a, c, "S"), "SH_REP", c, a, buf)
    BY <1>1, <1>2, <1>6 DEF processShReq, AbleFacts
  <2> QED BY <1>2, <1>6, <2>1, GrantsTidily DEF DataReps
<1>7. CASE e.st = "U" /\ Protocol # "msi"
  <2>1. z = retrieveDataAndSend(Grant(w, a, c, "E"), "EX_REP", c, a, buf)
    BY <1>1, <1>2, <1>7 DEF processShReq, AbleFacts
  <2> QED BY <1>2, <1>7, <2>1, GrantsTidily DEF DataReps
<1> QED BY <1>2, <1>4, <1>5, <1>6, <1>7 DEF AbleFacts

(* A cache that upgrades and is listed has its copy, and nobody calls for it.    *)
LEMMA UpgraderShares ==
  ASSUME NEW a, NEW q, NEW e, NEW rep, NEW known, NEW ss, NEW rr,
         LineOK(a, q, e, rep, known, ss, rr), TidyLine(a, q, e, ss, rr), q # <<>>, ~Granted(q),
         Head(q).t = "UPGRADE_REQ", NEW c \in Llcs, c = Head(q).c, c \in e.sharers
  PROVE  /\ cache[c][a].st = "SU" /\ e.st = "S" /\ ~Has(ss[c], {"INV_REQ", "FLUSH_REQ"}, a)
         /\ ~Has(rr[c], Gives, a)
<1> DEFINE st == cache[c][a].st
           s == ss[c]
           r == rr[c]
<1>1. PairInv(c, a, st, waiters[c][a], s, r, q, e) /\ q \in Seq(DirReq)
  BY DEF LineOK
<1>2. TidyPair(c, a, st, waiters[c][a], s, r, q, e)
  BY DEF TidyLine
<1> HIDE DEF st, s, r
<1>3. Queued(q, c) /\ Upgrading(q, c)
  <2>1. Head(q) = q[1] /\ 1 \in DOMAIN q
    BY <1>1, Popped
  <2> QED BY <2>1 DEF Queued, Upgrading
<1>4. ~Has(s, Reps, a) /\ ~CallsFor(q, c) /\ ~GrantedTo(q, c)
  BY <1>1, <1>3 DEF PairInv, OneRequest, CallsFor, GrantedTo
<1>5. ~Has(s, DataReps, a) /\ ~Has(s, {"UPGRADE_REP"}, a) /\ ~Has(r, Gives, a)
  BY <1>2, <1>4 DEF Has, On, DataReps, Reps, TidyPair, Called
<1>6. st # "I"
  BY <1>1, <1>4, <1>5 DEF PairInv, Listed
<1>7. st = "SU"
  BY <1>2, <1>3, <1>6 DEF TidyPair, UpgradeExpected
<1>8. ~Has(r, {"WB_REP"}, a)
  BY <1>1 DEF PairInv, WriteBackUnderWay
<1>9. e.st = "S"
  BY <1>2, <1>5, <1>7, <1>8 DEF TidyPair, SharedKnown
<1>10. ~Live(s, {"INV_REQ"}, a, st # "I") /\ ~Live(s, {"FLUSH_REQ"}, a, st # "I")
  BY <1>1, <1>2, <1>4 DEF TidyPair, Called, PairInv, FlushUnderWay
<1>11. ~Has(s, {"INV_REQ"}, a) /\ ~Has(s, {"FLUSH_REQ"}, a)
  BY <1>6, <1>10 DEF Live
<1>12. ~Has(s, {"INV_REQ", "FLUSH_REQ"}, a)
  BY <1>11 DEF Has, On
<1> QED BY <1>5, <1>7, <1>9, <1>12 DEF st, s, r

(* The only sharer upgrades. *)
LEMMA TidyLineUpgrades ==
  ASSUME NEW a, NEW q, NEW e, NEW rep, NEW known, NEW ss \in [Llcs -> Seq(ToCacheMsg)], NEW rr,
         LineOK(a, q, e, rep, known, ss, rr), TidyLine(a, q, e, ss, rr), q # <<>>, ~Granted(q),
         Head(q).t = "UPGRADE_REQ", NEW c \in Llcs, c = Head(q).c, e.sharers = {c},
         NEW m \in ToCacheMsg, m.a = a, m.t = "UPGRADE_REP", NEW cs, cs = {c}, NEW ss2, Joined(ss, ss2, cs, m),
         NEW p, p = Tail(q), NEW f, f.st = "M", f.sharers = {c}
  PROVE  TidyLine(a, p, f, ss2, rr)
<1>1. /\ cache[c][a].st = "SU" /\ e.st = "S" /\ ~Has(ss[c], {"INV_REQ", "FLUSH_REQ"}, a)
      /\ ~Has(rr[c], Gives, a)
  BY UpgraderShares
<1>2. MayJoin(a, cs, m, q, e, ss)
  BY <1>1 DEF MayJoin
<1>3. TidyLine(a, q, e, ss2, rr)
  BY <1>2, TidyLineJoins
<1>4. q \in Seq(DirReq) /\ FrontWaits(q, e) /\ TidyFront(q, e)
  BY DEF LineOK, LineInv, TidyLine
<1>5. TidyFront(p, f) /\ \A k : Upgrading(p, k) => Upgrading(q, k)
  BY <1>4, FrontAnswered
<1> SUFFICES ASSUME NEW k \in Llcs, NEW st, st = cache[k][a].st
             PROVE  TidyPair(k, a, st, waiters[k][a], ss2[k], rr[k], p, f)
  BY <1>5 DEF TidyLine
<1>6. TidyPair(k, a, st, waiters[k][a], ss2[k], rr[k], q, e)
  BY <1>3 DEF TidyLine
<1>7. CASE k # c
  <2>1. ss2[k] = ss[k]
    <3>1. k \notin cs
      BY <1>7
    <3> QED BY <3>1 DEF Joined
  <2>2. PairInv(k, a, st, waiters[k][a], ss[k], rr[k], q, e)
    BY DEF LineOK
  <2>3. st = "I" /\ ~Has(ss[k], DataReps, a) /\ ~Has(rr[k], Gives, a)
    BY <1>7, <2>2 DEF PairInv, Listed
  <2>4. ~Has(ss[k], {"SH_REP"}, a) /\ Uncalled(a, st, ss[k], rr[k])
    BY <2>3, NoneLive DEF Has, On, DataReps, Uncalled
  <2>5. /\ k \notin f.sharers
        /\ ~Has(ss[k], {"SH_REP"}, a) /\ (st \in {"S", "SU"} => st = "SU" /\ Has(ss[k], {"UPGRADE_REP"}, a))
    BY <1>7, <2>3, <2>4
  <2>6. TidyPair(k, a, st, waiters[k][a], ss[k], rr[k], q, e)
    BY <1>6, <2>1
  <2>7. TidyPair(k, a, st, waiters[k][a], ss[k], rr[k], p, f)
    BY <1>5, <2>4, <2>5, <2>6, TidyMoves
  <2> QED BY <2>1, <2>7
<1>8. CASE k = c
  <2>1. ss2[k] = Append(ss[k], m) /\ ss[k] \in Seq(ToCacheMsg)
    <3>1. k \in cs
      BY <1>8
    <3> QED BY <3>1 DEF Joined
  <2>2. \A T : Has(ss2[k], T, a) <=> Has(ss[k], T, a) \/ On(m, T, a)
    <3> DEFINE s == ss[k]
    <3>1. s \in Seq(ToCacheMsg) /\ ss2[k] = Append(s, m)
      BY <2>1
    <3> HIDE DEF s
    <3>2. \A T : Has(Append(s, m), T, a) <=> Has(s, T, a) \/ On(m, T, a)
      BY <3>1, PushHas
    <3> QED BY <3>1, <3>2 DEF s
  <2>3. Has(ss2[k], {"UPGRADE_REP"}, a) /\ ~Has(ss2[k], {"INV_REQ"}, a)
    BY <1>1, <1>8, <2>2 DEF On, Has
  <2>4. Uncalled(a, st, ss2[k], rr[k])
    BY <1>1, <1>8, <2>3 DEF Uncalled, Live, Behind, Has
  <2>5. PairInv(k, a, st, waiters[k][a], ss[k], rr[k], q, e) /\ Queued(q, k)
    <3>1. Head(q) = q[1] /\ 1 \in DOMAIN q
      BY <1>4, Popped
    <3> QED BY <1>8, <3>1 DEF LineOK, Queued
  <2>6. ~Has(ss2[k], {"SH_REP"}, a)
    <3>1. ~Has(ss[k], Reps, a)
      BY <2>5 DEF PairInv, OneRequest
    <3> QED BY <2>2, <3>1 DEF On, Has, Reps
  <2>7. st = "SU"
    BY <1>1, <1>8
  <2> QED BY <1>5, <1>6, <1>8, <2>3, <2>4, <2>6, <2>7, TidyMoves
<1> QED BY <1>7, <1>8

LEMMA UpgradesTidily ==
  ASSUME NEW w, NEW rest, NEW a, NEW q, NEW e, NEW rep, NEW c, NEW ss,
         AbleFacts(w, rest, a, q, e, rep, c, ss), Head(q).t = "UPGRADE_REQ", e.sharers = {c},
         NEW f, f = Owning(e, c), NEW u, u = Send(SetE(w, a, f), c, "UPGRADE_REP", a, NoData),
         NEW z, z = processNextReq(u, a)
  PROVE  Tidies(w, z, rest, a)
<1> DEFINE y == SetE(w, a, f)
           m == Msg("UPGRADE_REP", a, NoData)
           p == Tail(q)
           cs == {c}
           ss2 == Out(z)
<1>1. /\ y = SetE(w, a, f) /\ m = Msg("UPGRADE_REP", a, NoData) /\ p = Tail(q) /\ cs = {c}
      /\ ss2 = Out(z) /\ u = Send(y, c, "UPGRADE_REP", a, NoData)
  OBVIOUS
<1>2. /\ Fine(w, rest) /\ At(w, a, q, e, rep) /\ w.err = NoFailure /\ q # <<>> /\ a \in Addrs /\ e \in DirEntry
      /\ NoData \in Data /\ c = Head(q).c /\ c \in Llcs /\ ss = Out(w)
      /\ LineOK(a, q, e, rep, HasEntry(w, a), ss, rest) /\ TidyLine(a, q, e, ss, rest)
      /\ ~Granted(q)
  BY DEF AbleFacts, FrontFacts
<1>3. m \in ToCacheMsg /\ m.a = a /\ m.t = "UPGRADE_REP"
  BY <1>2, Messages DEF Reps, DataReps
<1> HIDE DEF y, m, p, cs, ss2
<1>4. f \in DirEntry /\ f.sharers = e.sharers /\ f.owner = c /\ f.st = "M"
  BY <1>2, OwnedEntry
<1>5. At(y, a, q, f, rep) /\ Apart(w, y, a) /\ Quiet(w, y)
  BY <1>1, <1>2, <1>4, AtEntry
<1>6. At(u, a, q, f, rep) /\ Apart(y, u, a) /\ Delivered(y, u, c, m) /\ u.err = y.err
  BY <1>1, <1>2, <1>3, <1>5, AtSend, SentSafely
<1>7. At(z, a, p, f, rep) /\ Apart(u, z, a) /\ Finished(u, z, p)
  BY <1>1, <1>2, <1>6, AtNext
<1>8. z.err = NoFailure /\ u.err = NoFailure /\ z.out = u.out
  BY <1>2, <1>5, <1>6, <1>7 DEF Quiet, Finished
<1>9. Sends(y, u, cs, m)
  BY <1>1, <1>6, <1>8 DEF Delivered
<1>10. Sends(w, z, cs, m)
  <2>1. Sends(w, u, cs, m)
    BY <1>5, <1>9, SendsQuietly
  <2> QED BY <1>8, <2>1, SendsBefore
<1>11. Apart(w, z, a)
  BY <1>5, <1>6, <1>7, ApartChain
<1>12. ss \in [Llcs -> Seq(ToCacheMsg)] /\ Joined(ss, ss2, cs, m)
  <2>1. toCache \in [Llcs -> Seq(ToCacheMsg)]
    BY <1>2 DEF Fine
  <2> QED BY <1>1, <1>2, <1>3, <1>10, <1>11, <2>1, OutJoined
<1>13. f.sharers = {c}
  BY <1>4
<1>14. TidyLine(a, p, f, ss2, rest)
  <2>1. c = Head(q).c /\ q # <<>> /\ ~Granted(q) /\ Head(q).t = "UPGRADE_REQ" /\ e.sharers = {c}
    BY <1>2
  <2>2. LineOK(a, q, e, rep, HasEntry(w, a), ss, rest) /\ TidyLine(a, q, e, ss, rest) /\ c \in Llcs
    BY <1>2
  <2>3. f.st = "M" /\ f.sharers = {c} /\ p = Tail(q) /\ cs = {c}
    BY <1>1, <1>4
  <2> QED BY <2>1, <2>2, <2>3, <1>3, <1>12, TidyLineUpgrades
<1>15. OnlyAt(w, z, a)
  BY <1>2, <1>3, <1>10, <1>11, ApartSends
<1> QED BY <1>1, <1>7, <1>8, <1>14, <1>15 DEF Tidies, TidyAt, At

LEMMA UpTidy ==
  ASSUME NEW w, NEW rest, NEW a, NEW q, NEW e, NEW rep, Able(w, rest, a, q, e, rep),
         Head(q).t = "UPGRADE_REQ", NEW buf \in Data,
         NEW z, z = processUpgradeReq(w, a, buf)
  PROVE  Tidies(w, z, rest, a)
<1> DEFINE c == Head(q).c
           ss == Out(w)
<1>1. c = Head(q).c /\ ss = Out(w)
  OBVIOUS
<1> HIDE DEF c, ss
<1>2. AbleFacts(w, rest, a, q, e, rep, c, ss)
  BY <1>1, AbleParts
<1>3. /\ ~Granted(q) /\ (e.st \in {"E", "M"} => e.sharers = {e.owner}) /\ e.sharers \subseteq Llcs
      /\ Head(q).buf \in Data
  BY <1>2 DEF AbleFacts, FrontFacts, DirEntry, DirReq
<1>4. c \in e.sharers => e.st = "S"
  BY <1>1, <1>2, <1>3, UpgraderShares DEF AbleFacts
<1>5. CASE e.st \in {"E", "M"}
  <2>1. e.owner \in Llcs /\ e.owner # c /\ "FLUSH_REQ" \in Asks
    BY <1>3, <1>4, <1>5 DEF Asks
  <2>2. Min(Sharers(w, a)) # c
    <3>1. Sharers(w, a) = {e.owner} /\ e.owner \in Nat
      BY <1>2, <1>3, <1>5, <2>1, DirectoryAssumption DEF AbleFacts
    <3> QED BY <2>1, <3>1, MinOfOne
  <2>3. z = Send(w, e.owner, "FLUSH_REQ", a, NoData)
    BY <1>1, <1>2, <1>5, <2>2 DEF processUpgradeReq, AbleFacts
  <2> QED BY <1>2, <2>1, <2>3, SendsOneTidily DEF AbleFacts
<1>6. CASE e.st = "S" /\ e.sharers = {c}
  <2> DEFINE f == Owning(e, c)
             u == Send(SetE(w, a, f), c, "UPGRADE_REP", a, NoData)
  <2>1. MakeOwner(w, a, c) = SetE(w, a, f)
    BY <1>2, OwningIs DEF AbleFacts
  <2>2. z = processNextReq(u, a)
    BY <1>1, <1>2, <1>6, <2>1 DEF processUpgradeReq, AbleFacts, UpgradeDone, MakeOwner
  <2> QED BY <1>2, <1>6, <2>2, UpgradesTidily
<1>7. CASE e.st = "S" /\ e.sharers # {c} /\ c \in e.sharers
  <2>1. z = SendAll(w, e.sharers \ {c}, "INV_REQ", a)
    BY <1>1, <1>2, <1>7 DEF processUpgradeReq, AbleFacts, UpgradeDone, InvalidateOthers
  <2>2. \A k \in e.sharers \ {c} : CallsFor(q, k)
    BY <1>1, <1>2, <1>3 DEF CallsFor, AbleFacts
  <2> QED BY <1>2, <1>7, <2>1, <2>2, SendsAllTidily DEF AbleFacts
<1>8. CASE e.st = "S" /\ e.sharers # {c} /\ c \notin e.sharers
  <2> DEFINE others == e.sharers \ {c}
             first == Min(others)
             cs == others \ {first}
             v == SendAll(w, cs, "INV_REQ", a)
  <2>1. z = Send(v, first, "FLUSH_REQ", a, NoData)
    BY <1>1, <1>2, <1>8 DEF processUpgradeReq, AbleFacts, UpgradeDone, InvalidateOthers
  <2>2. others # {} /\ others \subseteq Nat /\ others \subseteq Llcs
    BY <1>2, <1>3, <1>8, DirectoryAssumption DEF AbleFacts, TidyFront
  <2>3. first \in others
    BY <2>2, LeastOf
  <2>4. \A k \in cs : CallsFor(q, k)
    BY <1>1, <1>2, <1>3 DEF CallsFor, AbleFacts
  <2>5. v = SendAll(w, cs, "INV_REQ", a)
    OBVIOUS
  <2> HIDE DEF others, first, cs, v
  <2>6. Tidies(w, v, rest, a)
    BY <1>2, <1>8, <2>4, <2>5, SendsAllTidily DEF AbleFacts
  <2>7. Fine(v, rest) /\ At(v, a, q, e, rep)
    <3>1. MayAsk(w, rest, a, q, e, "INV_REQ", cs) /\ w.next = FALSE
      BY DEF MayAsk, Able, Ready
    <3>2. Goes(v, rest, a) /\ At(v, a, q, e, rep)
      BY <1>2, <2>5, <3>1, AskedAll DEF AbleFacts
    <3> QED BY <3>2 DEF Goes
  <2>8. Tidies(v, z, rest, a)
    <3>1. "FLUSH_REQ" \in Asks /\ first \in Llcs
      BY <2>2, <2>3 DEF Asks
    <3>2. TidyAt(v, rest, a) /\ v.err = NoFailure
      BY <2>6 DEF Tidies
    <3> QED BY <2>1, <2>7, <3>1, <3>2, SendsOneTidily
  <2>9. OnlyAt(w, z, a)
    BY <2>6, <2>8, OnlyAtChain DEF Tidies
  <2> QED BY <2>8, <2>9 DEF Tidies
<1>9. CASE e.st = "U"
  <2> DEFINE data == IF buf = NoData THEN Head(q).buf ELSE buf
  <2>1. z = retrieveDataAndSend(Grant(w, a, c, "M"), "EX_REP", c, a, data)
    BY <1>1, <1>2, <1>9 DEF processUpgradeReq, AbleFacts
  <2>2. data \in Data
    BY <1>3
  <2> HIDE DEF data
  <2> QED BY <1>2, <1>9, <2>1, <2>2, GrantsTidily DEF DataReps
<1> QED BY <1>2, <1>5, <1>6, <1>7, <1>8, <1>9 DEF AbleFacts

-----------------------------------------------------------------------------
(* The whole directory is tidy: what is not worked on stays so.                  *)
TidyAll(w, rest) == w.err = NoFailure /\ TidySlots(w.d) /\ \A b \in Addrs : TidyAt(w, rest, b)

LEMMA TidyElsewhere ==
  ASSUME NEW w \in Works, NEW z, NEW b \in Addrs, NEW rest, NEW rr2,
         z.d.q[b] = w.d.q[b], z.d.e[b] = w.d.e[b],
         NEW ss, ss = Out(w), NEW zz, zz = Out(z), AlikeAll(ss, zz, b), AlikeAll(rest, rr2, b),
         TidyAt(w, rest, b)
  PROVE  TidyAt(z, rr2, b)
<1> DEFINE q == w.d.q[b]
           e == w.d.e[b]
<1>1. TidyLine(b, q, e, ss, rest) /\ (TidyAt(z, rr2, b) <=> TidyLine(b, q, e, zz, rr2))
  BY DEF TidyAt
<1> HIDE DEF q, e
<1>2. ASSUME NEW k \in Llcs
      PROVE  TidyPair(k, b, cache[k][b].st, waiters[k][b], zz[k], rr2[k], q, e)
  <2>1. /\ TidyPair(k, b, cache[k][b].st, waiters[k][b], ss[k], rest[k], q, e)
        /\ Alike(ss[k], zz[k], b) /\ Alike(rest[k], rr2[k], b)
    BY <1>1 DEF TidyLine, AlikeAll
  <2> QED BY <2>1, TidyAlike
<1> QED BY <1>1, <1>2 DEF TidyLine

LEMMA TidiesAll ==
  ASSUME NEW w \in Works, NEW z, NEW a \in Addrs, NEW rest, NEW rr2, OnlyAt(w, z, a),
         \A b \in Addrs \ {a} : AlikeAll(rest, rr2, b), TidySlots(w.d),
         \A b \in Addrs \ {a} : TidyAt(w, rest, b), z.err = NoFailure, TidyAt(z, rr2, a)
  PROVE  TidyAll(z, rr2)
<1>1. TidySlots(z.d)
  BY DEF OnlyAt, TidySlots
<1>2. ASSUME NEW b \in Addrs \ {a} PROVE TidyAt(z, rr2, b)
  <2> DEFINE ss == Out(w)
             zz == Out(z)
  <2>1. /\ z.d.q[b] = w.d.q[b] /\ z.d.e[b] = w.d.e[b] /\ ss = Out(w) /\ zz = Out(z)
        /\ AlikeAll(ss, zz, b) /\ AlikeAll(rest, rr2, b) /\ TidyAt(w, rest, b)
    BY DEF OnlyAt, AlikeAll
  <2> HIDE DEF ss, zz
  <2> QED BY <2>1, TidyElsewhere
<1> QED BY <1>1, <1>2 DEF TidyAll

LEMMA TidiesOn ==
  ASSUME NEW w \in Works, NEW z, NEW a \in Addrs, NEW rest, Tidies(w, z, rest, a), TidyAll(w, rest)
  PROVE  TidyAll(z, rest)
<1>1. \A b \in Addrs \ {a} : AlikeAll(rest, rest, b)
  BY AlikeSelf DEF AlikeAll
<1> QED BY <1>1, TidiesAll DEF Tidies, TidyAll

(* A line that is accessed gets an entry at once.                               *)
LEMMA GotTidy ==
  ASSUME NEW w, NEW rest, NEW a, NEW q, NEW e, NEW rep, NEW z, NEW f, Got(w, z, a, q, e, rep, f),
         NEW b \in Addrs, At(w, a, q, e, rep), TidyAt(w, rest, b)
  PROVE  TidyAt(z, rest, b)
<1>1. /\ At(z, a, q, f, rep) /\ f.st = e.st /\ f.sharers = e.sharers /\ Quiet(w, z)
      /\ OthersAs(w, z, a)
  BY DEF Got, Blank
<1>2. Out(z) = Out(w)
  BY <1>1, OutSame DEF Quiet
<1>3. CASE b # a
  BY <1>1, <1>2, <1>3 DEF OthersAs, TidyAt
<1>4. CASE b = a
  <2> DEFINE ss == Out(w)
  <2>1. TidyLine(a, q, e, ss, rest)
    BY <1>4 DEF TidyAt, At
  <2>2. TidyAt(z, rest, b) <=> TidyLine(a, q, f, ss, rest)
    BY <1>1, <1>2, <1>4 DEF TidyAt, At
  <2> HIDE DEF ss
  <2>3. TidyLine(a, q, f, ss, rest)
    BY <1>1, <2>1 DEF TidyLine, TidyFront, TidyPair, Called, UpgradeExpected, SharedKnown, OnlyUsed
  <2> QED BY <2>2, <2>3
<1> QED BY <1>3, <1>4

LEMMA EntryClaimed ==
  ASSUME Roomy, sys \in Systems, NEW w, NEW rest, NEW a, NEW q, NEW e, NEW rep, Fine(w, rest),
         At(w, a, q, e, rep), TidyAll(w, rest), a \in Touched, NEW z, z = getDirectoryEntry(w, a)
  PROVE  /\ Fine(z, rest) /\ HasEntry(z, a) /\ TidyAll(z, rest)
         /\ \E f : Got(w, z, a, q, e, rep, f)
<1>1. PICK f : Got(w, z, a, q, e, rep, f) /\ Fine(z, rest)
  BY EntryGot
<1>2. w.d.slots \subseteq Touched /\ w.d.replaced = {} /\ w.err = NoFailure
  BY DEF TidyAll, TidySlots
<1>3. HasEntry(z, a)
  <2>1. ASSUME ~HasEntry(z, a) PROVE FALSE
    <3>1. z = w /\ Cardinality(w.d.slots) >= DirWays /\ a \notin w.d.slots
      BY <1>1, <2>1 DEF Got, HasEntry
    <3>2. Cardinality(w.d.slots) \in Nat /\ Cardinality(w.d.slots) < Cardinality(Touched)
      BY <1>2, <3>1, RoomyFacts, Fewer
    <3> QED BY <3>1, <3>2, RoomyFacts
  <2> QED BY <2>1
<1>4. TidySlots(z.d)
  <2>1. CASE z = w
    BY <1>2, <2>1 DEF TidySlots
  <2>2. CASE z # w
    <3>1. z = Claimed(w, a)
      BY <2>2 DEF getDirectoryEntry, Claimed
    <3>2. \E g : ClaimsOnly(w, z, a, g)
      BY <3>1, ClaimedSet
    <3> QED BY <1>2, <3>2 DEF ClaimsOnly, TidySlots
  <2> QED BY <2>1, <2>2
<1>5. \A b \in Addrs : TidyAt(z, rest, b)
  BY <1>1, GotTidy DEF TidyAll
<1>6. z.err = NoFailure
  BY <1>1, <1>2 DEF Got, Quiet
<1> QED BY <1>1, <1>3, <1>4, <1>5, <1>6 DEF TidyAll

LEMMA EntryClaimedNow ==
  ASSUME Roomy, sys \in Systems, NEW w, NEW rest, NEW a, NEW q, NEW e, NEW rep, Fine(w, rest),
         At(w, a, q, e, rep), TidyAll(w, rest), a \in Touched, NEW z, z = WithEntry(w, a)
  PROVE  /\ Fine(z, rest) /\ HasEntry(z, a) /\ TidyAll(z, rest)
         /\ \E f : Got(w, z, a, q, e, rep, f)
<1> DEFINE y == getDirectoryEntry(w, a)
<1>1. /\ Fine(y, rest) /\ HasEntry(y, a) /\ TidyAll(y, rest)
      /\ \E f : Got(w, y, a, q, e, rep, f)
  BY EntryClaimed
<1>2. z = y
  BY <1>1 DEF WithEntry, OrAllocate
<1> QED BY <1>1, <1>2

-----------------------------------------------------------------------------
(* The next request is started, and the one after it at most.                   *)
LEMMA StartedTidy ==
  ASSUME Roomy, sys \in Systems, NEW w, NEW rest, NEW a, NEW q, NEW e, NEW rep, Fine(w, rest),
         At(w, a, q, e, rep), Restart(w, rest, a), TidyAll(w, rest), NEW z, z = StartReq(w, a)
  PROVE  TidyAll(z, rest)
<1> DEFINE x == [w EXCEPT !.next = FALSE]
           y == WithEntry(x, a)
           ss == Out(w)
<1>1. x = [w EXCEPT !.next = FALSE] /\ y = WithEntry(x, a) /\ ss = Out(w)
      /\ z = IF y.err # NoFailure THEN y ELSE processFront(y, a)
  BY DEF StartReq
<1> HIDE DEF x, y, ss
<1>2. w \in Works /\ q = w.d.q[a] /\ q # <<>> /\ ~Granted(q) /\ Calm(w, rest, a) /\ q \in Seq(DirReq)
      /\ a \in Addrs
  BY DEF At, Restart
<1>3. Kept(w, x) /\ x.d = w.d /\ x.out = w.out /\ x.err = w.err /\ x.next = FALSE
  BY <1>1, <1>2, NextSet
<1>4. At(x, a, q, e, rep) /\ Out(x) = ss
  BY <1>1, <1>3, AtSame, OutSame
<1>5. Fine(x, rest) /\ TidyAll(x, rest)
  BY <1>1, <1>3, <1>4 DEF Fine, FineAt, Kept, HasEntry, TidyAll, TidyAt
<1>6. Calm(x, rest, a)
  BY <1>1, <1>2, <1>4 DEF Calm
<1>7. Head(q).t \in {"EX_REQ", "SH_REQ", "UPGRADE_REQ"} /\ Head(q).c \in Llcs
  <2> DEFINE known == HasEntry(w, a)
  <2>1. Head(q) \in DirReq /\ Head(q) = q[1] /\ 1 \in DOMAIN q
    BY <1>2, Popped
  <2>2. TidyFront(q, e)
    BY <1>2 DEF TidyAll, TidyAt, TidyLine, At
  <2>3. LineAt(w, rest, a, q, e, rep, known, ss)
    BY <1>1, FineLine
  <2> HIDE DEF known
  <2>4. FrontWaits(q, e)
    BY <2>3 DEF LineAt, LineOK, LineInv
  <2>5. Head(q).t # "NULLIFY_REQ" /\ Head(q).c # NoCore
    BY <2>1, <2>2, <2>4 DEF TidyFront, FrontWaits
  <2>6. DirReq \subseteq [t : Reqs \union {"NULLIFY_REQ"}, c : Cores, wait : BOOLEAN, from : Cores, buf : Data]
    BY DEF DirReq
  <2> QED BY <2>1, <2>5, <2>6 DEF Reqs, Cores
<1>8. a \in Touched
  <2> DEFINE known == HasEntry(w, a)
  <2>1. LineAt(w, rest, a, q, e, rep, known, ss)
    BY <1>1, FineLine
  <2> HIDE DEF known
  <2>2. TidyLine(a, q, e, ss, rest)
    BY <1>1, <1>2 DEF TidyAll, TidyAt, At
  <2>3. InUse(Head(q).c, a)
    BY <1>2, <1>7, <2>1, <2>2, RequesterInUse DEF LineAt
  <2> QED BY <2>3 DEF InUse
<1>9. Fine(y, rest) /\ HasEntry(y, a) /\ TidyAll(y, rest) /\ \E f : Got(x, y, a, q, e, rep, f)
  BY <1>1, <1>4, <1>5, <1>8, EntryClaimedNow
<1>10. PICK f : At(y, a, q, f, rep) /\ Blank(f, e) /\ Quiet(x, y)
  BY <1>9 DEF Got
<1>11. y.err = NoFailure /\ y.next = FALSE /\ z = processFront(y, a)
  BY <1>1, <1>3, <1>9, <1>10 DEF TidyAll, Quiet
<1>12. Calm(y, rest, a)
  <2>1. Out(y) = Out(x)
    BY <1>10, OutSame DEF Quiet
  <2> QED BY <1>6, <2>1 DEF Calm
<1>13. Able(y, rest, a, q, f, rep)
  BY <1>2, <1>9, <1>10, <1>11, <1>12 DEF Able, Ready, Granted, TidyAll
<1>14. FrontReq(y, a) = Head(q) /\ NoData \in Data
  BY <1>10, AtFront DEF Data
<1>15. Tidies(y, z, rest, a)
  <2>1. CASE Head(q).t = "EX_REQ"
    <3>1. z = processExReq(y, a, NoData)
      BY <1>11, <1>14, <2>1 DEF processFront
    <3> QED BY <1>13, <1>14, <2>1, <3>1, ExTidy
  <2>2. CASE Head(q).t = "SH_REQ"
    <3>1. z = processShReq(y, a, NoData)
      BY <1>11, <1>14, <2>2 DEF processFront
    <3> QED BY <1>13, <1>14, <2>2, <3>1, ShTidy
  <2>3. CASE Head(q).t = "UPGRADE_REQ"
    <3>1. z = processUpgradeReq(y, a, NoData)
      BY <1>11, <1>14, <2>3 DEF processFront
    <3> QED BY <1>13, <1>14, <2>3, <3>1, UpTidy
  <2> QED BY <1>7, <2>1, <2>2, <2>3
<1>16. y \in Works
  BY <1>9 DEF Fine
<1> QED BY <1>2, <1>9, <1>15, <1>16, TidiesOn

(* processNextReqFromL2Cache. *)
LEMMA SettledTidy ==
  ASSUME Roomy, sys \in Systems, NEW w, NEW rest, NEW a, NEW q, NEW e, NEW rep, Goes(w, rest, a),
         At(w, a, q, e, rep), TidyAll(w, rest), NEW z, z = Settle(w, a)
  PROVE  TidyAll(z, rest)
<1> DEFINE first == StartReq(w, a)
<1>1. first = StartReq(w, a)
  OBVIOUS
<1>2. w.next \in BOOLEAN /\ a \in Addrs /\ w.err = NoFailure
  BY DEF At, Works, TidyAll
<1>3. CASE w.next = FALSE
  <2>1. z = w
    BY <1>3 DEF Settle, GoesOn
  <2> QED BY <2>1
<1>4. CASE w.next = TRUE
  <2>1. z = IF GoesOn(first) THEN StartReq(first, a) ELSE first
    BY <1>2, <1>4 DEF Settle, GoesOn
  <2>2. Fine(w, rest) /\ Restart(w, rest, a)
    BY <1>4 DEF Goes
  <2> HIDE DEF first
  <2>3. TidyAll(first, rest)
    BY <1>1, <2>2, StartedTidy
  <2>4. first.err = NoFailure
    BY <2>3 DEF TidyAll
  <2>5. Goes(first, rest, a)
    BY <1>1, <2>2, <2>4, Started
  <2>6. CASE ~GoesOn(first)
    BY <2>1, <2>3, <2>6
  <2>7. CASE GoesOn(first)
    <3> DEFINE p == first.d.q[a]
               f == first.d.e[a]
               new == first.d.reply[a]
    <3>1. Fine(first, rest) /\ first \in Works
      BY <2>5 DEF Goes, Fine
    <3>2. At(first, a, p, f, new)
      BY <1>2, <3>1, FieldTypes DEF At
    <3>3. first.next = TRUE
      BY <2>7, <3>1 DEF GoesOn, Works
    <3>4. Restart(first, rest, a) /\ z = StartReq(first, a)
      BY <2>1, <2>5, <2>7, <3>3 DEF Goes
    <3> HIDE DEF p, f, new
    <3> QED BY <2>3, <3>1, <3>2, <3>4, StartedTidy
  <2> QED BY <2>6, <2>7
<1> QED BY <1>2, <1>3, <1>4

-----------------------------------------------------------------------------
(* The requests: an entry is claimed, and the request queues up.                 *)
LEMMA TakenAlike ==
  ASSUME NEW rr \in [Llcs -> Seq(ToDirMsg)], NEW rr2, NEW d \in Llcs, Taken(rr, rr2, d),
         rr[d] # <<>>, NEW b, Head(rr[d]).a # b
  PROVE  AlikeAll(rr, rr2, b)
<1>1. ASSUME NEW k \in Llcs PROVE Alike(rr[k], rr2[k], b)
  <2>1. CASE k = d
    <3>1. rr2[k] = Tail(rr[k]) /\ rr[k] \in Seq(ToDirMsg) /\ rr[k] # <<>> /\ Head(rr[k]).a # b
      BY <2>1 DEF Taken
    <3> QED BY <3>1, PopOther
  <2>2. CASE k # d
    <3>1. rr2[k] = rr[k]
      BY <2>2 DEF Taken
    <3> QED BY <3>1, AlikeSelf
  <2> QED BY <2>1, <2>2
<1> QED BY <1>1 DEF AlikeAll

(* The message at the head of cache d's queue, for d and for the others.          *)
LEMMA AskedInUse ==
  ASSUME NEW w, NEW rr, NEW rr2, NEW d, NEW a, NEW q, NEW e, NEW rep,
         Arriving(w, rr, rr2, d, a, q, e, rep), Head(rr[d]).t \in Reqs, TidyAll(w, rr)
  PROVE  InUse(d, a)
<1> DEFINE known == HasEntry(w, a)
           ss == Out(w)
           r == rr[d]
<1>1. /\ Fine(w, rr) /\ At(w, a, q, e, rep) /\ d \in Llcs /\ ss = Out(w) /\ known = HasEntry(w, a)
      /\ r # <<>> /\ Head(r) \in ToDirMsg /\ Head(r).a = a /\ r = rr[d]
  BY DEF Arriving
<1> HIDE DEF known, ss, r
<1>2. LineAt(w, rr, a, q, e, rep, known, ss)
  BY <1>1, FineLine
<1>3. PairInv(d, a, cache[d][a].st, waiters[d][a], ss[d], r, q, e) /\ r \in Seq(ToDirMsg)
  BY <1>1, <1>2 DEF LineAt, LineOK
<1>4. TidyPair(d, a, cache[d][a].st, waiters[d][a], ss[d], r, q, e)
  BY <1>1 DEF TidyAll, TidyAt, TidyLine, At
<1>5. Has(r, Reqs, a)
  <2>1. On(Head(r), Reqs, a)
    BY <1>1 DEF On
  <2> QED BY <1>1, <1>3, <2>1, PopHas
<1> QED BY <1>3, <1>4, <1>5 DEF PairInv, SomebodyWaits, TidyPair, OnlyUsed

LEMMA TidyLineAsks ==
  ASSUME NEW a, NEW q \in Seq(DirReq), NEW e, NEW ss, NEW rr \in [Llcs -> Seq(ToDirMsg)], NEW rr2,
         TidyLine(a, q, e, ss, rr), NEW d \in Llcs, rr[d] # <<>>, Taken(rr, rr2, d),
         Head(rr[d]).a = a, Head(rr[d]).t \in Reqs,
         NEW x \in DirReq, x.c = d, x.t = Head(rr[d]).t, ~x.wait, NEW p, p = Append(q, x)
  PROVE  TidyLine(a, p, e, ss, rr2)
<1>1. x.t # "NULLIFY_REQ"
  BY DEF Reqs
<1>2. TidyFront(p, e)
  <2>1. /\ DOMAIN p = DOMAIN q \union {Len(q) + 1} /\ p[Len(q) + 1] = x
        /\ \A i \in DOMAIN q : p[i] = q[i]
    BY Pushed
  <2>2. Head(p) = IF q = <<>> THEN x ELSE Head(q)
    OBVIOUS
  <2>3. TidyFront(q, e)
    BY DEF TidyLine
  <2> QED BY <1>1, <2>1, <2>2, <2>3 DEF TidyFront
<1> SUFFICES ASSUME NEW k \in Llcs, NEW st, st = cache[k][a].st
             PROVE  TidyPair(k, a, st, waiters[k][a], ss[k], rr2[k], p, e)
  BY <1>2 DEF TidyLine
<1> DEFINE r == rr[k]
<1>3. TidyPair(k, a, st, waiters[k][a], ss[k], r, q, e) /\ r \in Seq(ToDirMsg)
  BY DEF TidyLine
<1>4. k = d => r # <<>> /\ ~On(Head(r), {"WB_REP"}, a) /\ On(Head(r), {x.t}, a)
  BY DEF On, Reqs
<1>5. (k = d => rr2[k] = Tail(r)) /\ (k # d => rr2[k] = r)
  BY DEF Taken
<1> HIDE DEF r
<1>6. x.c = k /\ x.t = "UPGRADE_REQ" => Has(r, {"UPGRADE_REQ"}, a)
  <2>1. ASSUME x.c = k, x.t = "UPGRADE_REQ" PROVE Has(r, {"UPGRADE_REQ"}, a)
    <3>1. r # <<>> /\ On(Head(r), {"UPGRADE_REQ"}, a)
      BY <1>4, <2>1
    <3> QED BY <1>3, <3>1, PopHas
  <2> QED BY <2>1
<1>7. TidyPair(k, a, st, waiters[k][a], ss[k], r, p, e)
  BY <1>3, <1>6, TidyGrows
<1>8. CASE k # d
  BY <1>5, <1>7, <1>8
<1>9. CASE k = d
  <2>1. TidyPair(k, a, st, waiters[k][a], ss[k], Tail(r), p, e)
    BY <1>3, <1>4, <1>7, <1>9, TidyTaken
  <2> QED BY <1>5, <1>9, <2>1
<1> QED BY <1>8, <1>9

(* The first request of a queue can be started.                                   *)
LEMMA EnqueuedRestarts ==
  ASSUME NEW w, NEW rr, NEW rr2, NEW d, NEW a, NEW q, NEW e, NEW rep,
         Arriving(w, rr, rr2, d, a, q, e, rep), NEW m, m = Head(rr[d]), m.t \in Reqs, q = <<>>,
         NEW y, NEW f, Got(w, y, a, q, e, rep, f), Fine(y, rr), NEW x, x = Request(m.t, d),
         NEW p, p = Append(q, x), NEW v, v = SetQ(y, a, p)
  PROVE  Fine(v, rr2) /\ Restart(v, rr2, a)
<1> DEFINE ss == Out(y)
           known == HasEntry(y, a)
<1>1. /\ Fine(w, rr) /\ At(w, a, q, e, rep) /\ d \in Llcs /\ rr2 \in [Llcs -> Seq(ToDirMsg)]
      /\ Taken(rr, rr2, d) /\ rr[d] # <<>> /\ m \in ToDirMsg /\ m.a = a
  BY DEF Arriving
<1>2. x \in DirReq /\ ~x.wait /\ x.from = NoCore /\ x.c = d /\ x.t = m.t
  BY <1>1 DEF Request, DirReq, Cores, Data, Reqs
<1>3. ss = Out(y) /\ known = HasEntry(y, a)
  OBVIOUS
<1> HIDE DEF ss, known
<1>4. At(y, a, q, f, rep) /\ q \in Seq(DirReq) /\ a \in Addrs /\ rr \in [Llcs -> Seq(ToDirMsg)]
  BY <1>1 DEF Got, At, Fine
<1>5. p \in Seq(DirReq) /\ p # <<>> /\ (Granted(p) <=> Granted(q))
  BY <1>2, <1>4, QueuePushed
<1>6. At(v, a, p, f, rep) /\ Apart(y, v, a) /\ Quiet(y, v)
  BY <1>4, <1>5, AtQueue
<1>7. Out(v) = ss /\ HasEntry(v, a) = known
  BY <1>3, <1>6, OutSame DEF Apart, Quiet, HasEntry
<1>8. LineAt(y, rr, a, q, f, rep, known, ss)
  BY <1>3, <1>4, FineLine
<1>9. LineOK(a, q, f, rep, known, ss, rr)
  BY <1>8 DEF LineAt
<1>10. LineOK(a, p, f, rep, known, ss, rr2)
  <2>1. /\ x.c \in Llcs /\ rr[x.c] # <<>> /\ Head(rr[x.c]).a = a /\ Head(rr[x.c]).t = x.t
        /\ x.t \in Reqs /\ Taken(rr, rr2, x.c)
    BY <1>1, <1>2
  <2>2. LineOK(a, Append(q, x), f, rep, known, ss, rr2)
    BY <1>2, <1>4, <1>9, <2>1, LineAsks
  <2> QED BY <2>2
<1>11. FineAt(v, rr2, a) /\ OnlyAt(y, v, a)
  BY <1>6, <1>7, <1>10, ApartOnly DEF FineAt, At, Quiet
<1>12. Fine(v, rr2)
  BY <1>1, <1>4, <1>11, TakenFine
<1>13. Calm(v, rr2, a)
  <2>1. NoWriteBack(a, ss, rr)
    BY <1>9, WhenNoWriteBack
  <2>2. NoWriteBack(a, ss, rr2)
    BY <1>1, <1>4, <2>1, QueueCalm
  <2> QED BY <1>7, <2>2 DEF Calm
<1>14. ~Granted(p) /\ v.d.q[a] = p
  BY <1>5, <1>6 DEF Granted, At
<1> QED BY <1>5, <1>12, <1>13, <1>14 DEF Restart

LEMMA EnqueuedTidy ==
  ASSUME Roomy, sys \in Systems, NEW w, NEW rr, NEW rr2, NEW d, NEW a, NEW q, NEW e, NEW rep,
         Arriving(w, rr, rr2, d, a, q, e, rep), NEW m, m = Head(rr[d]), m.t \in Reqs,
         TidyAll(w, rr), NEW z, z = EnqueueReq(w, d, m)
  PROVE  TidyAll(z, rr2)
<1> DEFINE x == Request(m.t, d)
           y == getDirectoryEntry(w, a)
           p == Append(q, x)
           v == SetQ(y, a, p)
<1>1. /\ Fine(w, rr) /\ At(w, a, q, e, rep) /\ w.next = FALSE /\ d \in Llcs
      /\ rr2 \in [Llcs -> Seq(ToDirMsg)] /\ Taken(rr, rr2, d)
      /\ rr[d] # <<>> /\ m \in ToDirMsg /\ m.a = a
  BY DEF Arriving
<1>2. x \in DirReq /\ ~x.wait /\ x.from = NoCore /\ x.c = d /\ x.t = m.t
  BY <1>1 DEF Request, DirReq, Cores, Data, Reqs
<1>3. y = getDirectoryEntry(w, a) /\ p = Append(q, x) /\ v = SetQ(y, a, p)
  OBVIOUS
<1> HIDE DEF y
<1>4. a \in Touched
  BY AskedInUse DEF InUse
<1>5. Fine(y, rr) /\ HasEntry(y, a) /\ TidyAll(y, rr) /\ \E f : Got(w, y, a, q, e, rep, f)
  BY <1>1, <1>3, <1>4, EntryClaimed
<1>6. PICK f : Got(w, y, a, q, e, rep, f)
  BY <1>5
<1>7. At(y, a, q, f, rep) /\ Quiet(w, y) /\ rr \in [Llcs -> Seq(ToDirMsg)] /\ y \in Works
  BY <1>5, <1>6 DEF Got, Fine
<1>8. y.d.q[a] = q /\ w.d.q[a] = q /\ q \in Seq(DirReq) /\ a \in Addrs
  BY <1>1, <1>7 DEF At
<1>9. z = IF q = <<>> THEN StartReq(v, a) ELSE v
  BY <1>1, <1>3, <1>8 DEF EnqueueReq, SetQ
<1> HIDE DEF x, p, v
<1>10. p \in Seq(DirReq) /\ p # <<>> /\ (Granted(p) <=> Granted(q))
  BY <1>2, <1>3, <1>8, QueuePushed
<1>11. At(v, a, p, f, rep) /\ Apart(y, v, a) /\ Quiet(y, v)
  BY <1>3, <1>7, <1>10, AtQueue
<1>12. OnlyAt(y, v, a)
  BY <1>11, ApartOnly DEF Quiet
<1>13. TidyAt(v, rr2, a)
  <2> DEFINE ss == Out(y)
  <2>1. TidyLine(a, q, f, ss, rr) /\ Out(v) = ss
    BY <1>5, <1>7, <1>8, <1>11, OutSame DEF TidyAll, TidyAt, At, Quiet
  <2> HIDE DEF ss
  <2>2. Head(rr[d]).a = a /\ Head(rr[d]).t \in Reqs /\ x.t = Head(rr[d]).t
    BY <1>1, <1>2
  <2>3. TidyLine(a, p, f, ss, rr2)
    BY <1>1, <1>2, <1>3, <1>7, <1>8, <2>1, <2>2, TidyLineAsks
  <2> QED BY <1>11, <2>1, <2>3 DEF TidyAt, At
<1>14. v.err = NoFailure /\ v.next = FALSE
  BY <1>1, <1>5, <1>7, <1>11 DEF Quiet, TidyAll
<1>15. TidyAll(v, rr2)
  <2>1. \A b \in Addrs \ {a} : AlikeAll(rr, rr2, b)
    BY <1>1, <1>7, TakenAlike
  <2> QED BY <1>5, <1>7, <1>8, <1>12, <1>13, <1>14, <2>1, TidiesAll DEF TidyAll
<1>16. CASE q # <<>>
  BY <1>9, <1>15, <1>16
<1>17. CASE q = <<>>
  <2>1. z = StartReq(v, a)
    BY <1>9, <1>17
  <2>2. Fine(v, rr2) /\ Restart(v, rr2, a)
    <3>1. x = Request(m.t, d)
      BY DEF x
    <3> QED BY <1>3, <1>5, <1>6, <1>17, <3>1, EnqueuedRestarts
  <2> QED BY <1>11, <1>15, <2>1, <2>2, StartedTidy
<1> QED BY <1>16, <1>17

-----------------------------------------------------------------------------
(* DRAM has answered: the read is taken off, and the requester gets the data.     *)
LEMMA DramAnswersTidy ==
  ASSUME NEW w, NEW rest, NEW a, NEW q, NEW e, Fine(w, rest), At(w, a, q, e, <<>>), HasEntry(w, a),
         GrantedFacts(q, e), NEW data \in Filled, TidyAt(w, rest, a), w.err = NoFailure,
         NEW z, z = DramReplied(w, a, data)
  PROVE  Tidies(w, z, rest, a)
<1> DEFINE c == Head(q).c
           t == IF Head(q).t = "SH_REQ" /\ e.st # "E" THEN "SH_REP" ELSE "EX_REP"
           ok == CASE Head(q).t = "SH_REQ" -> e.st \in {"S", "E"}
                   [] Head(q).t = "EX_REQ" -> e.st = "M"
                   [] OTHER          -> Head(q).t = "UPGRADE_REQ"
           u == Send(w, c, t, a, data)
           m == Msg(t, a, data)
           p == Tail(q)
           ss == Out(w)
           known == HasEntry(w, a)
           cs == {c}
<1>1. FrontReq(w, a) = Head(q) /\ Dstate(w, a) = e.st /\ w.d.q[a] = q
  BY AtFront
<1>2. /\ q # <<>> /\ q \in Seq(DirReq) /\ Head(q).wait /\ Granted(q) /\ a \in Addrs
      /\ Head(q).t \in Reqs /\ (Head(q).t # "SH_REQ" => e.st = "M") /\ c \in Llcs
  BY DEF GrantedFacts, At
<1>3. TidyLine(a, q, e, ss, rest) /\ TidyFront(q, e)
  BY DEF TidyAt, At, TidyLine
<1>4. Head(q).t = "SH_REQ" => e.st \in {"S", "E"}
  BY <1>2, <1>3 DEF TidyFront
<1>5. ok
  BY <1>2, <1>4 DEF Reqs
<1>6. z = processNextReq(u, a)
  <2>1. Assert_(w, ok /\ HasEntry(w, a), "DRAM reply in a wrong state") = w
    BY <1>5 DEF Assert_
  <2> QED BY <1>1, <1>2, <2>1 DEF DramReplied
<1>7. /\ u = Send(w, c, t, a, data) /\ m = Msg(t, a, data) /\ p = Tail(q) /\ c = Head(q).c
      /\ ss = Out(w) /\ known = HasEntry(w, a) /\ cs = {c}
  OBVIOUS
<1>8. t \in DataReps /\ (t = "SH_REP" => e.st = "S")
  BY <1>4 DEF DataReps
<1> HIDE DEF ok, u, m, p, c, t, ss, known, cs
<1>9. m \in ToCacheMsg /\ m.a = a /\ m.t = t
  BY <1>2, <1>7, <1>8, Messages DEF DataReps, Reps, Filled
<1>10. At(u, a, q, e, <<>>) /\ Apart(w, u, a) /\ Delivered(w, u, c, m) /\ u.err = w.err
  BY <1>2, <1>7, <1>9, AtSend, SentSafely
<1>11. At(z, a, p, e, <<>>) /\ Apart(u, z, a) /\ Finished(u, z, p)
  BY <1>2, <1>6, <1>7, <1>10, AtNext
<1>12. z.err = NoFailure /\ z.out = u.out
  BY <1>10, <1>11 DEF Finished
<1>13. Sends(w, z, cs, m)
  <2>1. Sends(w, u, cs, m)
    BY <1>7, <1>10 DEF Delivered
  <2> QED BY <1>12, <2>1, SendsBefore
<1>14. Apart(w, z, a)
  BY <1>10, <1>11, ApartChain
<1>15. FrontWaits(q, e)
  <2>1. LineAt(w, rest, a, q, e, <<>>, known, ss)
    BY <1>7, FineLine
  <2> QED BY <2>1 DEF LineAt, LineOK, LineInv
<1>16. TidyFront(p, e) /\ \A k : Upgrading(p, k) => Upgrading(q, k)
  <2>1. e.st = "S" => e.sharers # {}
    BY <1>3 DEF TidyFront
  <2> QED BY <1>2, <1>3, <1>7, <1>15, <2>1, FrontAnswered
<1>17. TidyLine(a, p, e, ss, rest)
  <2>1. CallsNobody(a, ss, rest)
    BY <1>2, <1>3, NoCalls
  <2>2. \A k \in e.sharers : k \in e.sharers \/ InUse(k, a)
    OBVIOUS
  <2> QED BY <1>3, <1>16, <2>1, <2>2, TidyLineMoves
<1>18. MayJoin(a, cs, m, p, e, ss)
  BY <1>8, <1>9 DEF MayJoin, DataReps
<1>19. OnlyAt(w, z, a) /\ TidyAt(z, rest, a)
  BY <1>7, <1>9, <1>11, <1>13, <1>14, <1>17, <1>18, SentTidily
<1> QED BY <1>12, <1>19 DEF Tidies

LEMMA DramDoneTidy ==
  ASSUME Roomy, sys \in Systems, NEW w, NEW rest, NEW a, NEW q, NEW e, NEW rep, Fine(w, rest),
         At(w, a, q, e, rep), rep # <<>>, TidyAll(w, rest), NEW z, z = processDRAMReply(w, a)
  PROVE  TidyAll(z, rest)
<1> DEFINE x == SetR(w, a, Tail(rep))
           y == getDirectoryEntry(x, a)
           data == Head(rep)
           u == DramReplied(y, a, data)
<1>1. x = SetR(w, a, Tail(rep)) /\ y = getDirectoryEntry(x, a) /\ u = DramReplied(y, a, data)
  OBVIOUS
<1>2. w.d.reply[a] = rep /\ data \in Filled
  <2>1. rep \in Seq(Filled) /\ w.d.reply[a] = rep
    BY DEF At
  <2> QED BY <2>1
<1>3. z = Settle(u, a)
  BY <1>2 DEF processDRAMReply, SetR
<1> HIDE DEF x, y, data, u
<1>4. /\ Fine(x, rest) /\ At(x, a, q, e, <<>>) /\ Quiet(w, x) /\ HasEntry(x, a)
      /\ Calm(x, rest, a) /\ GrantedFacts(q, e)
  BY <1>1, ReadTaken
<1>5. y = x
  <2>1. \E f : Got(x, y, a, q, e, <<>>, f)
    BY <1>1, <1>4, EntryGot
  <2> QED BY <1>4, <2>1 DEF Got
<1>6. Tail(rep) \in Seq(Filled)
  <2>1. rep \in Seq(Filled)
    BY DEF At
  <2> QED BY <2>1
<1>7. Apart(w, x, a)
  BY <1>1, <1>6, AtReply
<1>8. TidyAll(x, rest)
  <2>1. Out(x) = Out(w)
    BY <1>4, OutSame DEF Quiet
  <2>2. OnlyAt(w, x, a)
    BY <1>4, <1>7, ApartOnly DEF Quiet
  <2>3. TidyAt(x, rest, a)
    BY <1>4, <2>1 DEF TidyAll, TidyAt, At
  <2>4. Tidies(w, x, rest, a)
    BY <1>4, <2>2, <2>3 DEF Tidies, TidyAll, Quiet
  <2>5. w \in Works /\ a \in Addrs
    BY DEF At
  <2> QED BY <2>4, <2>5, TidiesOn
<1>9. Tidies(x, u, rest, a)
  BY <1>1, <1>2, <1>4, <1>5, <1>8, DramAnswersTidy DEF TidyAll, At
<1>10. x \in Works /\ a \in Addrs
  BY <1>4 DEF At
<1>11. TidyAll(u, rest) /\ u.err = NoFailure
  BY <1>8, <1>9, <1>10, TidiesOn DEF Tidies
<1>12. Goes(u, rest, a)
  BY <1>1, <1>2, <1>4, <1>5, <1>11, DramAnswers
<1>13. At(u, a, u.d.q[a], u.d.e[a], u.d.reply[a])
  <2>1. u \in Works
    BY <1>12 DEF Goes, Fine
  <2> QED BY <1>10, <2>1, FieldTypes DEF At
<1> QED BY <1>3, <1>11, <1>12, <1>13, SettledTidy

-----------------------------------------------------------------------------
(* INV_REP and FLUSH_REP: a sharer leaves.                                       *)
GiverFacts(w, a, d, q, e) ==
    HasEntry(w, a) /\ Dstate(w, a) = e.st /\ Sharers(w, a) = e.sharers /\ d \in e.sharers

LEMMA GiverListed ==
  ASSUME NEW w, NEW rr, NEW rr2, NEW d, NEW a, NEW q, NEW e, NEW rep,
         Arriving(w, rr, rr2, d, a, q, e, rep), NEW m, m = Head(rr[d]), TidyAll(w, rr)
  PROVE  /\ m.t \in Gives => GiverFacts(w, a, d, q, e) /\ (m.t = "INV_REP" => e.st = "S")
         /\ m.t = "WB_REP" => d \in e.sharers
<1> DEFINE known == HasEntry(w, a)
           ss == Out(w)
           r == rr[d]
<1>1. /\ Fine(w, rr) /\ At(w, a, q, e, rep) /\ d \in Llcs /\ ss = Out(w) /\ known = HasEntry(w, a)
      /\ r # <<>> /\ m = Head(r) /\ m.a = a /\ r = rr[d]
  BY DEF Arriving
<1> HIDE DEF known, ss, r
<1>2. LineAt(w, rr, a, q, e, rep, known, ss)
  BY <1>1, FineLine
<1>3. /\ PairInv(d, a, cache[d][a].st, waiters[d][a], ss[d], r, q, e) /\ r \in Seq(ToDirMsg)
      /\ LineInv(q, e, rep, known)
  BY <1>1, <1>2 DEF LineAt, LineOK
<1>4. TidyPair(d, a, cache[d][a].st, waiters[d][a], ss[d], r, q, e)
  BY <1>1 DEF TidyAll, TidyAt, TidyLine, At
<1>5. /\ \A T : On(m, T, a) => Has(r, T, a)
  BY <1>1, <1>3, PopHas
<1>6. ASSUME m.t \in Gives PROVE GiverFacts(w, a, d, q, e) /\ (m.t = "INV_REP" => e.st = "S")
  <2>1. Has(r, Gives, a) /\ (m.t = "INV_REP" => Has(r, {"INV_REP"}, a))
    BY <1>1, <1>5, <1>6 DEF On
  <2>2. d \in e.sharers
    BY <1>3, <2>1 DEF PairInv, Listed
  <2>3. m.t = "INV_REP" => e.st = "S"
    BY <1>4, <2>1 DEF TidyPair, Called
  <2>4. known
    BY <1>3, <2>2 DEF LineInv
  <2>5. Dstate(w, a) = e.st /\ Sharers(w, a) = e.sharers
    BY <1>1 DEF At, Dstate, Sharers
  <2> QED BY <1>1, <2>2, <2>3, <2>4, <2>5 DEF GiverFacts
<1>7. ASSUME m.t = "WB_REP" PROVE d \in e.sharers
  <2>1. Has(r, {"WB_REP"}, a)
    BY <1>1, <1>5, <1>7 DEF On
  <2> QED BY <1>3, <2>1 DEF PairInv, WriteBackUnderWay
<1> QED BY <1>6, <1>7

LEMMA InvalidatedSafely ==
  ASSUME NEW w \in Works, NEW a, NEW d, NEW q, NEW e, GiverFacts(w, a, d, q, e), e.st = "S",
         NEW z, z = Invalidated(w, d, a)
  PROVE  z.err = w.err
<1>1. Assert_(w, HasEntry(w, a) /\ Dstate(w, a) \in {"S", "E"}, "Ooops") = w
  BY DEF Assert_, GiverFacts
<1>2. Assert_(w, d \in Sharers(w, a), "removeSharer of a core that is none") = w
  BY DEF Assert_, GiverFacts
<1> DEFINE u == removeSharer(w, a, d)
<1>3. u = Remaining(w, a, Sharers(w, a) \ {d})
  BY <1>2 DEF removeSharer, Remaining
<1>4. u.err = w.err
  BY <1>3 DEF Remaining, Works
<1>5. z = ClearFwd(u, a, d)
  BY <1>1 DEF Invalidated, ClearFwd
<1> HIDE DEF u
<1>6. z.err = u.err
  BY <1>5 DEF ClearFwd
<1> QED BY <1>4, <1>6

LEMMA FlushedSafely ==
  ASSUME NEW w \in Works, NEW a, NEW d \in Llcs, NEW q, NEW e, NEW rep, At(w, a, q, e, rep),
         GiverFacts(w, a, d, q, e), NEW f, Left(f, e, d), f.st \in {"U", "S"},
         NEW z, z = Flushed(w, d, a)
  PROVE  z.err = w.err
<1>1. Assert_(w, HasEntry(w, a), "flush without entry") = w
  BY DEF Assert_, GiverFacts
<1>2. Assert_(w, d \in Sharers(w, a), "removeSharer of a core that is none") = w
  BY DEF Assert_, GiverFacts
<1> DEFINE u == removeSharer(w, a, d)
           g == Leaving(e, d)
<1>3. u = Remaining(w, a, Sharers(w, a) \ {d})
  BY <1>2 DEF removeSharer, Remaining
<1>4. u.err = w.err
  BY <1>3 DEF Remaining, Works
<1>5. Dstate(u, a) \in {"U", "S"}
  <2>1. g = Leaving(e, d) /\ u = removeSharer(w, a, d)
    OBVIOUS
  <2> HIDE DEF g, u
  <2>2. EntryOnly(w, u, a, q, g, rep) /\ Left(g, e, d)
    BY <2>1, Removed
  <2>3. Dstate(u, a) = g.st
    BY <2>2 DEF EntryOnly, At, Dstate
  <2>4. g.st = f.st
    BY <2>2 DEF Left
  <2> QED BY <2>3, <2>4
<1>6. Assert_(u, Dstate(u, a) \in {"U", "S"}, "flush leaves sharers") = u
  BY <1>5 DEF Assert_
<1>7. z = ClearBoth(u, a)
  BY <1>1, <1>6 DEF Flushed, ClearBoth
<1> HIDE DEF u
<1>8. z.err = u.err
  BY <1>7 DEF ClearBoth
<1> QED BY <1>4, <1>8

LEMMA WrittenBackSafely ==
  ASSUME NEW w \in Works, NEW a, NEW d, HasEntry(w, a), d \in Sharers(w, a),
         NEW z, z = WrittenBack(w, d, a)
  PROVE  z.err = w.err
<1>1. Assert_(w, HasEntry(w, a) /\ d \in Sharers(w, a), "WB_REP of no sharer") = w
  BY DEF Assert_
<1>2. z = ToShared(w, a)
  BY <1>1 DEF WrittenBack, ToShared
<1> QED BY <1>2 DEF ToShared

(* The line after a sharer has left. *)
LEMMA TidyLineLeft ==
  ASSUME NEW a, NEW q, NEW e, NEW rep, NEW known, NEW ss, NEW rr \in [Llcs -> Seq(ToDirMsg)], NEW rr2,
         LineOK(a, q, e, rep, known, ss, rr), TidyLine(a, q, e, ss, rr), NEW d \in Llcs, rr[d] # <<>>,
         Taken(rr, rr2, d), Head(rr[d]).a = a, Head(rr[d]).t \in Gives,
         NEW f, Left(f, e, d), Granted(q) => f.st = "S"
  PROVE  TidyLine(a, q, f, ss, rr2)
<1>1. f.sharers = e.sharers \ {d} /\ f.st = IF f.sharers = {} THEN "U" ELSE e.st
  BY DEF Left
<1>2. TidyFront(q, f)
  <2>1. TidyFront(q, e)
    BY DEF TidyLine
  <2>2. q # <<>> /\ Head(q).wait => f.st = "S"
    BY DEF Granted
  <2>3. f.st = "S" => f.sharers # {}
    BY <1>1
  <2> QED BY <2>1, <2>2, <2>3 DEF TidyFront
<1> SUFFICES ASSUME NEW k \in Llcs, NEW st, st = cache[k][a].st
             PROVE  TidyPair(k, a, st, waiters[k][a], ss[k], rr2[k], q, f)
  BY <1>2 DEF TidyLine
<1> DEFINE r == rr[k]
<1>3. TidyPair(k, a, st, waiters[k][a], ss[k], r, q, e) /\ r \in Seq(ToDirMsg)
      /\ PairInv(k, a, st, waiters[k][a], ss[k], r, q, e)
  BY DEF TidyLine, LineOK
<1>4. k = d => r # <<>> /\ Head(r).a = a /\ Head(r).t \in Gives
  OBVIOUS
<1>5. (k = d => rr2[k] = Tail(r)) /\ (k # d => rr2[k] = r)
  BY DEF Taken
<1> HIDE DEF r
<1>6. CASE k = d
  <2>1. TidyPair(k, a, st, waiters[k][a], ss[k], Tail(r), q, f)
    BY <1>1, <1>3, <1>4, <1>6, TidyLeaves
  <2> QED BY <1>5, <1>6, <2>1
<1>7. CASE k # d
  <2>1. f.sharers \subseteq e.sharers /\ (k \in e.sharers => f.st = e.st)
    BY <1>1, <1>7
  <2>2. TidyPair(k, a, st, waiters[k][a], ss[k], r, q, f)
    BY <1>3, <2>1, TidyStays
  <2> QED BY <1>5, <1>7, <2>2
<1> QED BY <1>6, <1>7

LEMMA GivenTidy ==
  ASSUME NEW w, NEW rr, NEW rr2, NEW d, NEW a, NEW q, NEW e, NEW rep,
         Arriving(w, rr, rr2, d, a, q, e, rep), NEW m, m = Head(rr[d]), m.t \in Gives, TidyAll(w, rr),
         NEW z, z.err = NoFailure, LeftBehind(w, z, a, q, e, rep, d),
         NEW f, Given(z, rr2, d, a, q, f, rep)
  PROVE  TidyAll(z, rr2)
<1> DEFINE known == HasEntry(w, a)
           ss == Out(w)
<1>1. PICK g : EntryOnly(w, z, a, q, g, rep) /\ Left(g, e, d)
  BY DEF LeftBehind
<1>2. g = f /\ (Granted(q) => f.st = "S") /\ At(z, a, q, f, rep)
  BY <1>1 DEF EntryOnly, Given, At
<1>3. /\ Fine(w, rr) /\ At(w, a, q, e, rep) /\ d \in Llcs /\ ss = Out(w) /\ known = HasEntry(w, a)
      /\ Taken(rr, rr2, d) /\ rr[d] # <<>> /\ m.a = a /\ a \in Addrs /\ w \in Works
      /\ rr \in [Llcs -> Seq(ToDirMsg)]
  BY DEF Arriving, At, Fine
<1> HIDE DEF known, ss
<1>4. LineAt(w, rr, a, q, e, rep, known, ss)
  BY <1>3, FineLine
<1>5. LineOK(a, q, e, rep, known, ss, rr) /\ TidyLine(a, q, e, ss, rr)
  BY <1>3, <1>4 DEF LineAt, TidyAll, TidyAt, At
<1>6. TidyLine(a, q, f, ss, rr2)
  <2>1. Head(rr[d]).a = a /\ Head(rr[d]).t \in Gives /\ Left(f, e, d)
    BY <1>1, <1>2, <1>3
  <2> QED BY <1>2, <1>3, <1>5, <2>1, TidyLineLeft
<1>7. Out(z) = ss /\ OnlyAt(w, z, a)
  BY <1>1, <1>3, OutSame, ApartOnly DEF EntryOnly
<1>8. TidyAt(z, rr2, a)
  BY <1>2, <1>6, <1>7 DEF TidyAt, At
<1>9. \A b \in Addrs \ {a} : AlikeAll(rr, rr2, b)
  BY <1>3, TakenAlike
<1> QED BY <1>3, <1>7, <1>8, <1>9, TidiesAll DEF TidyAll

(* What the front request then does: after INV_REP. *)
LEMMA GivenAble ==
  ASSUME NEW w, NEW rest, NEW d, NEW a, NEW q, NEW f, NEW rep, Given(w, rest, d, a, q, f, rep),
         TidyAll(w, rest), q # <<>>, Head(q).t = "SH_REQ" => ~KeepsWaiting(Head(q), d)
  PROVE  Able(w, rest, a, q, f, rep)
<1>1. Ready(w, rest, a, q, f, rep)
  BY GivenReady
<1>2. a \in Addrs
  BY DEF Given, At
<1> QED BY <1>1, <1>2 DEF Able, TidyAll

LEMMA GivenOnly ==
  ASSUME NEW w, NEW rest, NEW d, NEW a, NEW q, NEW f, NEW rep, Given(w, rest, d, a, q, f, rep),
         TidyAll(w, rest)
  PROVE  w \in Works /\ a \in Addrs /\ (q # <<>> => Head(q).t \in Reqs)
<1>1. w \in Works /\ a \in Addrs /\ q \in Seq(DirReq) /\ w.d.q[a] = q
  BY DEF Given, At
<1>2. TidyFront(q, w.d.e[a])
  BY <1>1 DEF TidyAll, TidyAt, TidyLine
<1> SUFFICES ASSUME q # <<>> PROVE Head(q).t \in Reqs
  BY <1>1
<1>3. Head(q) \in DirReq /\ Head(q) = q[1] /\ 1 \in DOMAIN q
  BY <1>1, Popped
<1>4. Head(q).t # "NULLIFY_REQ"
  BY <1>2, <1>3 DEF TidyFront
<1> QED BY <1>3, <1>4 DEF DirReq

LEMMA AfterInvTidy ==
  ASSUME Roomy, sys \in Systems, NEW w, NEW rest, NEW d, NEW a, NEW q, NEW f, NEW rep,
         Given(w, rest, d, a, q, f, rep), TidyAll(w, rest), NEW z, z = AfterInv(w, d, a)
  PROVE  TidyAll(z, rest)
<1>1. /\ w.d.q[a] = q /\ FrontReq(w, a) = Head(q) /\ Dstate(w, a) = f.st /\ Sharers(w, a) = f.sharers
      /\ NoData \in Data
  BY GivenParts
<1>2. w \in Works /\ a \in Addrs /\ (q # <<>> => Head(q).t \in Reqs)
  BY GivenOnly
<1>3. CASE z = w
  BY <1>3
<1>4. CASE q # <<>> /\ Head(q).t = "EX_REQ" /\ z = processExReq(w, a, NoData)
  <2>1. Able(w, rest, a, q, f, rep)
    BY <1>4, GivenAble
  <2>2. Tidies(w, z, rest, a)
    BY <1>1, <1>4, <2>1, ExTidy
  <2> QED BY <1>2, <2>2, TidiesOn
<1>5. CASE q # <<>> /\ Head(q).t = "UPGRADE_REQ" /\ z = processUpgradeReq(w, a, NoData)
  <2>1. Able(w, rest, a, q, f, rep)
    BY <1>5, GivenAble
  <2>2. Tidies(w, z, rest, a)
    BY <1>1, <1>5, <2>1, UpTidy
  <2> QED BY <1>2, <2>2, TidiesOn
<1>6. CASE q # <<>> /\ Head(q).t = "SH_REQ" /\ ~KeepsWaiting(Head(q), d) /\ z = processShReq(w, a, NoData)
  <2>1. Able(w, rest, a, q, f, rep)
    BY <1>6, GivenAble
  <2>2. Tidies(w, z, rest, a)
    BY <1>1, <1>6, <2>1, ShTidy
  <2> QED BY <1>2, <2>2, TidiesOn
<1>7. CASE q = <<>>
  BY <1>1, <1>3, <1>7 DEF AfterInv
<1>8. CASE q # <<>> /\ Head(q).t = "EX_REQ"
  BY <1>1, <1>3, <1>4, <1>8 DEF AfterInv
<1>9. CASE q # <<>> /\ Head(q).t = "UPGRADE_REQ"
  BY <1>1, <1>3, <1>5, <1>9 DEF AfterInv
<1>10. CASE q # <<>> /\ Head(q).t = "SH_REQ"
  BY <1>1, <1>3, <1>6, <1>10 DEF AfterInv
<1> QED BY <1>2, <1>7, <1>8, <1>9, <1>10 DEF Reqs

(* After FLUSH_REP: the data goes to DRAM, to the requester, or waits with it.      *)
LEMMA TidyLineMarked ==
  ASSUME NEW a, NEW q, NEW e, NEW ss, NEW rr, TidyLine(a, q, e, ss, rr), NEW p, Marks(p, q),
         q # <<>>, q \in Seq(DirReq), p[1].from = q[1].from, p[1].wait = q[1].wait
  PROVE  TidyLine(a, p, e, ss, rr)
<1>1. /\ DOMAIN p = DOMAIN q /\ Head(p) = p[1] /\ Head(q) = q[1] /\ p # <<>>
      /\ \A i \in DOMAIN p : p[i].t = q[i].t /\ p[i].c = q[i].c
      /\ p[1].t = q[1].t /\ p[1].c = q[1].c
  BY DEF Marks
<1>2. TidyFront(p, e)
  BY <1>1 DEF TidyFront, TidyLine
<1>3. \A k : (CallsFor(p, k) <=> CallsFor(q, k)) /\ (Upgrading(p, k) <=> Upgrading(q, k))
  <2>1. Granted(p) <=> Granted(q)
    BY <1>1 DEF Granted
  <2> QED BY <1>1, <2>1 DEF CallsFor, Upgrading
<1> SUFFICES ASSUME NEW k \in Llcs, NEW st, st = cache[k][a].st
             PROVE  TidyPair(k, a, st, waiters[k][a], ss[k], rr[k], p, e)
  BY <1>2 DEF TidyLine
<1>4. TidyPair(k, a, st, waiters[k][a], ss[k], rr[k], q, e)
  BY DEF TidyLine
<1> QED BY <1>3, <1>4 DEF TidyPair, Called, UpgradeExpected, SharedKnown, OnlyUsed

LEMMA BufferedTidy ==
  ASSUME NEW w, NEW rest, NEW d, NEW a, NEW q, NEW f, NEW rep, Given(w, rest, d, a, q, f, rep),
         TidyAll(w, rest), q # <<>>, NEW data \in Data, NEW z, z = KeepBuf(w, a, data)
  PROVE  TidyAll(z, rest)
<1> DEFINE p == MarkBuf(q, data)
           ss == Out(w)
<1>1. At(w, a, q, f, rep) /\ w.d.q[a] = q /\ q \in Seq(DirReq) /\ a \in Addrs /\ w \in Works
  BY DEF Given, At
<1>2. z = SetQ(w, a, p) /\ p = MarkBuf(q, data) /\ ss = Out(w)
  BY <1>1 DEF KeepBuf, SetQ, MarkBuf
<1> HIDE DEF p, ss
<1>3. Marks(p, q) /\ p[1].from = q[1].from /\ p[1].wait = q[1].wait
  BY <1>1, <1>2, MarkedBuf
<1>4. At(z, a, p, f, rep) /\ Apart(w, z, a) /\ Quiet(w, z)
  <2>1. p \in Seq(DirReq)
    BY <1>3 DEF Marks
  <2> QED BY <1>1, <1>2, <2>1, AtQueue
<1>5. TidyLine(a, q, f, ss, rest)
  BY <1>1, <1>2 DEF TidyAll, TidyAt, At
<1>6. TidyLine(a, p, f, ss, rest)
  BY <1>1, <1>3, <1>5, TidyLineMarked
<1>7. OnlyAt(w, z, a) /\ TidyAt(z, rest, a)
  BY <1>2, <1>4, <1>6, LeftTidily DEF Quiet
<1>8. Tidies(w, z, rest, a)
  BY <1>4, <1>7 DEF Tidies, Quiet, TidyAll
<1> QED BY <1>1, <1>8, TidiesOn

LEMMA MemoryTidy ==
  ASSUME NEW w, NEW rest, NEW a, NEW q, NEW f, NEW rep, At(w, a, q, f, rep),
         TidyAll(w, rest), NEW data \in Filled, NEW z, z = sendDataToDram(w, a, data)
  PROVE  TidyAll(z, rest)
<1>1. w \in Works /\ a \in Addrs
  BY DEF At
<1>2. At(z, a, q, f, rep) /\ Apart(w, z, a) /\ Quiet(w, z)
  BY AtMemory
<1> DEFINE ss == Out(w)
<1>3. TidyLine(a, q, f, ss, rest) /\ ss = Out(w)
  BY <1>1 DEF TidyAll, TidyAt, At
<1> HIDE DEF ss
<1>4. OnlyAt(w, z, a) /\ TidyAt(z, rest, a)
  BY <1>2, <1>3, LeftTidily DEF Quiet
<1>5. Tidies(w, z, rest, a)
  BY <1>2, <1>4 DEF Tidies, Quiet, TidyAll
<1> QED BY <1>1, <1>5, TidiesOn

LEMMA AfterFlushTidy ==
  ASSUME Roomy, sys \in Systems, NEW w, NEW rest, NEW d, NEW a, NEW q, NEW f, NEW rep,
         Given(w, rest, d, a, q, f, rep), FlushGives(q, f), TidyAll(w, rest),
         NEW data \in Filled, NEW z, z = AfterFlush(w, a, data)
  PROVE  TidyAll(z, rest)
<1> DEFINE v == sendDataToDram(w, a, data)
<1>1. /\ At(w, a, q, f, rep) /\ w.d.q[a] = q /\ FrontReq(w, a) = Head(q) /\ Dstate(w, a) = f.st
      /\ Sharers(w, a) = f.sharers /\ f.st \in {"U", "S"} /\ data \in Data
  BY GivenParts DEF Filled
<1>2. w \in Works /\ a \in Addrs /\ (q # <<>> => Head(q).t \in Reqs)
  BY GivenOnly
<1>3. v = sendDataToDram(w, a, data)
  OBVIOUS
<1> HIDE DEF v
<1>4. Given(v, rest, d, a, q, f, rep)
  BY <1>3, GivenMemory
<1>5. TidyAll(v, rest)
  BY <1>1, <1>3, MemoryTidy
<1>6. q # <<>> /\ Head(q).t = "SH_REQ" => ~KeepsWaiting(Head(q), d)
  <2>1. q # <<>> /\ Head(q).t = "SH_REQ" => ~Granted(q)
    BY DEF FlushGives, Given
  <2> QED BY <2>1 DEF Granted, KeepsWaiting
<1>7. q # <<>> => Able(w, rest, a, q, f, rep) /\ Able(v, rest, a, q, f, rep)
  BY <1>4, <1>5, <1>6, GivenAble
<1>8. CASE q = <<>>
  <2>1. z = v
    BY <1>1, <1>3, <1>8 DEF AfterFlush
  <2> QED BY <1>5, <2>1
<1>9. CASE q # <<>> /\ Head(q).t = "EX_REQ"
  <2>1. z = processExReq(w, a, data)
    BY <1>1, <1>9 DEF AfterFlush
  <2>2. f.st = "U"
    BY <1>1, <1>9 DEF FlushGives
  <2>3. Tidies(w, z, rest, a)
    BY <1>1, <1>7, <1>9, <2>1, <2>2, ExTidy
  <2> QED BY <1>2, <2>3, TidiesOn
<1>10. CASE q # <<>> /\ Head(q).t = "SH_REQ"
  <2>1. z = processShReq(v, a, data)
    BY <1>1, <1>3, <1>10 DEF AfterFlush
  <2>2. Tidies(v, z, rest, a)
    BY <1>1, <1>7, <1>10, <2>1, ShTidy
  <2>3. v \in Works
    BY <1>4 DEF Given, At
  <2> QED BY <1>2, <1>5, <2>2, <2>3, TidiesOn
<1>11. CASE q # <<>> /\ Head(q).t = "UPGRADE_REQ"
  <2>1. CASE f.st = "U"
    <3>1. z = processUpgradeReq(w, a, data)
      BY <1>1, <1>11, <2>1 DEF AfterFlush
    <3>2. Tidies(w, z, rest, a)
      BY <1>1, <1>7, <1>11, <3>1, UpTidy
    <3> QED BY <1>2, <3>2, TidiesOn
  <2>2. CASE f.st # "U"
    <3>1. z = KeepBuf(w, a, data)
      BY <1>1, <1>11, <2>2 DEF AfterFlush, KeepBuf
    <3> QED BY <1>1, <1>11, <3>1, BufferedTidy
  <2> QED BY <2>1, <2>2
<1> QED BY <1>2, <1>8, <1>9, <1>10, <1>11 DEF Reqs

LEMMA SettledOn ==
  ASSUME Roomy, sys \in Systems, NEW w, NEW rest, NEW a \in Addrs, Goes(w, rest, a),
         TidyAll(w, rest), NEW z, z = Settle(w, a)
  PROVE  TidyAll(z, rest)
<1> DEFINE q == w.d.q[a]
           e == w.d.e[a]
           rep == w.d.reply[a]
<1>1. At(w, a, q, e, rep)
  <2>1. w \in Works
    BY DEF Goes, Fine
  <2> QED BY <2>1, FieldTypes DEF At
<1> HIDE DEF q, e, rep
<1> QED BY <1>1, SettledTidy

-----------------------------------------------------------------------------
(* The messages that give a line up or write it back.                            *)
LEMMA InvTidy ==
  ASSUME Roomy, sys \in Systems, NEW w, NEW rr, NEW rr2, NEW d, NEW a, NEW q, NEW e, NEW rep,
         Arriving(w, rr, rr2, d, a, q, e, rep), NEW m, m = Head(rr[d]), m.t = "INV_REP",
         TidyAll(w, rr), NEW z, z = processInvRep(w, d, a)
  PROVE  TidyAll(z, rr2)
<1> DEFINE y == getDirectoryEntry(w, a)
           v == Invalidated(w, d, a)
<1>1. y = getDirectoryEntry(w, a) /\ v = Invalidated(w, d, a)
  OBVIOUS
<1>2. z = AfterInv(Invalidated(y, d, a), d, a)
  BY DEF processInvRep
<1> HIDE DEF y, v
<1>3. Fine(w, rr) /\ At(w, a, q, e, rep) /\ d \in Llcs /\ w \in Works
  BY DEF Arriving, At
<1>4. LeftBehind(w, v, a, q, e, rep, d)
  BY <1>1, <1>3, InvalidatedEntry
<1>5. m.t \in Gives
  BY DEF Gives
<1>6. HasEntry(w, a) /\ \E f : Given(v, rr2, d, a, q, f, rep)
  BY <1>4, <1>5, GivenFine
<1>7. PICK f : Given(v, rr2, d, a, q, f, rep)
  BY <1>6
<1>8. y = w
  <2>1. \E g : Got(w, y, a, q, e, rep, g)
    BY <1>1, <1>3, EntryGot
  <2> QED BY <1>6, <2>1 DEF Got
<1>9. z = AfterInv(v, d, a)
  BY <1>1, <1>2, <1>8
<1>10. GiverFacts(w, a, d, q, e) /\ e.st = "S"
  BY <1>5, GiverListed
<1>11. v.err = NoFailure
  BY <1>1, <1>3, <1>10, InvalidatedSafely DEF TidyAll
<1>12. TidyAll(v, rr2)
  BY <1>4, <1>5, <1>7, <1>11, GivenTidy
<1> QED BY <1>7, <1>9, <1>12, AfterInvTidy

LEMMA FlushTidy ==
  ASSUME Roomy, sys \in Systems, NEW w, NEW rr, NEW rr2, NEW d, NEW a, NEW q, NEW e, NEW rep,
         Arriving(w, rr, rr2, d, a, q, e, rep), NEW m, m = Head(rr[d]), m.t = "FLUSH_REP",
         TidyAll(w, rr), NEW data \in Filled, NEW z, z = processFlushRep(w, d, a, data)
  PROVE  TidyAll(z, rr2)
<1> DEFINE y == getDirectoryEntry(w, a)
           v == Flushed(w, d, a)
<1>1. y = getDirectoryEntry(w, a) /\ v = Flushed(w, d, a)
  OBVIOUS
<1>2. z = AfterFlush(Flushed(y, d, a), a, data)
  BY DEF processFlushRep
<1> HIDE DEF y, v
<1>3. Fine(w, rr) /\ At(w, a, q, e, rep) /\ d \in Llcs /\ w \in Works
  BY DEF Arriving, At
<1>4. LeftBehind(w, v, a, q, e, rep, d)
  BY <1>1, <1>3, FlushedEntry
<1>5. m.t \in Gives
  BY DEF Gives
<1>6. /\ HasEntry(w, a)
      /\ \E f : Given(v, rr2, d, a, q, f, rep) /\ (m.t = "FLUSH_REP" => FlushGives(q, f))
  BY <1>4, <1>5, GivenFine
<1>7. PICK f : Given(v, rr2, d, a, q, f, rep) /\ FlushGives(q, f)
  BY <1>6
<1>8. y = w
  <2>1. \E g : Got(w, y, a, q, e, rep, g)
    BY <1>1, <1>3, EntryGot
  <2> QED BY <1>6, <2>1 DEF Got
<1>9. z = AfterFlush(v, a, data)
  BY <1>1, <1>2, <1>8
<1>10. GiverFacts(w, a, d, q, e)
  BY <1>5, GiverListed
<1>11. v.err = NoFailure
  <2>1. PICK g : EntryOnly(w, v, a, q, g, rep) /\ Left(g, e, d)
    BY <1>4 DEF LeftBehind
  <2>2. g.st \in {"U", "S"}
    BY <1>7, <2>1 DEF EntryOnly, Given, At
  <2> QED BY <1>1, <1>3, <1>10, <2>1, <2>2, FlushedSafely DEF TidyAll
<1>12. TidyAll(v, rr2)
  BY <1>4, <1>5, <1>7, <1>11, GivenTidy
<1> QED BY <1>7, <1>9, <1>12, AfterFlushTidy

(* The line after the write-back. *)
LEMMA TidyLineWritten ==
  ASSUME NEW a, NEW q, NEW e, NEW rep, NEW known, NEW ss, NEW rr \in [Llcs -> Seq(ToDirMsg)], NEW rr2,
         LineOK(a, q, e, rep, known, ss, rr), TidyLine(a, q, e, ss, rr), NEW d \in Llcs, rr[d] # <<>>,
         Taken(rr, rr2, d), q # <<>>, Head(q).t = "SH_REQ", d \in e.sharers,
         NEW f, f.st = "S", f.sharers = e.sharers
  PROVE  TidyLine(a, q, f, ss, rr2)
<1>1. CallsNobody(a, ss, rr)
  BY NoCalls
<1>2. TidyFront(q, f)
  BY DEF TidyLine, TidyFront
<1>3. TidyLine(a, q, f, ss, rr)
  BY <1>1, <1>2, TidyLineMoves
<1> SUFFICES ASSUME NEW k \in Llcs, NEW st, st = cache[k][a].st
             PROVE  TidyPair(k, a, st, waiters[k][a], ss[k], rr2[k], q, f)
  BY <1>2 DEF TidyLine
<1> DEFINE r == rr[k]
<1>4. TidyPair(k, a, st, waiters[k][a], ss[k], r, q, f) /\ r \in Seq(ToDirMsg)
  BY <1>3 DEF TidyLine
<1>5. (k = d => rr2[k] = Tail(r) /\ r # <<>>) /\ (k # d => rr2[k] = r)
  BY DEF Taken
<1> HIDE DEF r
<1>6. CASE k = d
  <2>1. TidyPair(k, a, st, waiters[k][a], ss[k], Tail(r), q, f)
    BY <1>4, <1>5, <1>6, TidyTaken
  <2> QED BY <1>5, <1>6, <2>1
<1>7. CASE k # d
  BY <1>4, <1>5, <1>7
<1> QED BY <1>6, <1>7

LEMMA WbTidy ==
  ASSUME Roomy, sys \in Systems, NEW w, NEW rr, NEW rr2, NEW d, NEW a, NEW q, NEW e, NEW rep,
         Arriving(w, rr, rr2, d, a, q, e, rep), NEW m, m = Head(rr[d]), m.t = "WB_REP",
         TidyAll(w, rr), NEW data \in Data, NEW z, z = processWbRep(w, d, a, data)
  PROVE  TidyAll(z, rr2)
<1> DEFINE y == getDirectoryEntry(w, a)
           v == WrittenBack(w, d, a)
           known == HasEntry(w, a)
           ss == Out(w)
<1>1. y = getDirectoryEntry(w, a) /\ v = WrittenBack(w, d, a) /\ known = HasEntry(w, a) /\ ss = Out(w)
  OBVIOUS
<1>2. z = AfterWb(WrittenBack(y, d, a), a, data)
  BY DEF processWbRep
<1> HIDE DEF y, v, known, ss
<1>3. /\ Fine(w, rr) /\ At(w, a, q, e, rep) /\ d \in Llcs /\ w \in Works /\ a \in Addrs
      /\ rr[d] # <<>> /\ Taken(rr, rr2, d) /\ rr \in [Llcs -> Seq(ToDirMsg)] /\ Head(rr[d]).a = a
  BY DEF Arriving, At, Fine
<1>4. SharedBehind(w, v, a, q, e, rep)
  BY <1>1, <1>3, WrittenBackEntry
<1>5. HasEntry(w, a) /\ q # <<>> /\ Head(q).t = "SH_REQ" /\ \E f : Ready(v, rr2, a, q, f, rep)
  BY <1>4, WrittenReady
<1>6. PICK f : Ready(v, rr2, a, q, f, rep)
  BY <1>5
<1>7. y = w
  <2>1. \E g : Got(w, y, a, q, e, rep, g)
    BY <1>1, <1>3, EntryGot
  <2> QED BY <1>5, <2>1 DEF Got
<1>8. At(v, a, q, f, rep)
  BY <1>6 DEF Ready
<1>9. v.d.q[a] = q /\ FrontReq(v, a) = Head(q)
  BY <1>8, AtFront
<1>10. z = processShReq(v, a, data)
  BY <1>1, <1>2, <1>5, <1>7, <1>9 DEF AfterWb
<1>11. EntryOnly(w, v, a, q, f, rep) /\ f.st = "S" /\ f.sharers = e.sharers
  BY <1>4, <1>8 DEF SharedBehind, EntryOnly, At
<1>12. d \in e.sharers
  BY GiverListed
<1>13. v.err = NoFailure
  <2>1. Sharers(w, a) = e.sharers
    BY <1>3 DEF At, Sharers
  <2> QED BY <1>1, <1>3, <1>5, <1>12, <2>1, WrittenBackSafely DEF TidyAll
<1>14. TidyLine(a, q, f, ss, rr2)
  <2>1. LineAt(w, rr, a, q, e, rep, known, ss)
    BY <1>1, <1>3, FineLine
  <2>2. LineOK(a, q, e, rep, known, ss, rr) /\ TidyLine(a, q, e, ss, rr)
    BY <1>1, <1>3, <2>1 DEF LineAt, TidyAll, TidyAt, At
  <2> QED BY <1>3, <1>5, <1>11, <1>12, <2>2, TidyLineWritten
<1>15. Out(v) = ss /\ OnlyAt(w, v, a)
  BY <1>1, <1>11, OutSame, ApartOnly DEF EntryOnly
<1>16. TidyAt(v, rr2, a)
  BY <1>8, <1>14, <1>15 DEF TidyAt, At
<1>17. \A b \in Addrs \ {a} : AlikeAll(rr, rr2, b)
  BY <1>3, TakenAlike
<1>18. TidyAll(v, rr2)
  BY <1>3, <1>13, <1>15, <1>16, <1>17, TidiesAll DEF TidyAll
<1>19. Able(v, rr2, a, q, f, rep)
  BY <1>6, <1>13, <1>16 DEF Able
<1>20. Tidies(v, z, rr2, a)
  BY <1>5, <1>10, <1>11, <1>19, ShTidy
<1> QED BY <1>3, <1>8, <1>18, <1>20, TidiesOn DEF At

(* handleMsgFromL2Cache. *)
LEMMA MessageTidy ==
  ASSUME Roomy, sys \in Systems, NEW w, NEW rr, NEW rr2, NEW d, NEW a, NEW q, NEW e, NEW rep,
         Arriving(w, rr, rr2, d, a, q, e, rep), NEW m, m = Head(rr[d]),
         TidyAll(w, rr), NEW z, z = handleMsgFromL2Cache(w, d, m)
  PROVE  TidyAll(z, rr2)
<1> DEFINE y == Handled(w, d, m)
<1>1. m \in ToDirMsg /\ m.a = a /\ a \in Addrs
  BY DEF Arriving, At
<1>2. /\ m.t \in Reqs \union Gives \union {"WB_REP"} /\ m.data \in Data
      /\ m.t = "FLUSH_REP" => m.data \in Filled
  BY <1>1 DEF ToDirMsg, Filled
<1>3. y = Handled(w, d, m) /\ z = Settle(y, a)
  BY <1>1 DEF handleMsgFromL2Cache
<1> HIDE DEF y
<1>4. CASE m.t \in Reqs
  <2>1. y = EnqueueReq(w, d, m)
    BY <1>3, <1>4 DEF Handled, Reqs
  <2>2. TidyAll(y, rr2)
    BY <1>4, <2>1, EnqueuedTidy
  <2>3. Goes(y, rr2, a)
    BY <1>4, <2>1, <2>2, Enqueued DEF TidyAll
  <2> QED BY <1>1, <1>3, <2>2, <2>3, SettledOn
<1>5. CASE m.t = "INV_REP"
  <2>1. y = processInvRep(w, d, a)
    BY <1>1, <1>3, <1>5 DEF Handled
  <2>2. TidyAll(y, rr2)
    BY <1>5, <2>1, InvTidy
  <2>3. Goes(y, rr2, a)
    BY <1>5, <2>1, <2>2, InvHandled DEF TidyAll
  <2> QED BY <1>1, <1>3, <2>2, <2>3, SettledOn
<1>6. CASE m.t = "FLUSH_REP"
  <2>1. y = processFlushRep(w, d, a, m.data)
    BY <1>1, <1>3, <1>6 DEF Handled
  <2>2. TidyAll(y, rr2)
    BY <1>2, <1>6, <2>1, FlushTidy
  <2>3. Goes(y, rr2, a)
    BY <1>2, <1>6, <2>1, <2>2, FlushHandled DEF TidyAll
  <2> QED BY <1>1, <1>3, <2>2, <2>3, SettledOn
<1>7. CASE m.t = "WB_REP"
  <2>1. y = processWbRep(w, d, a, m.data)
    BY <1>1, <1>3, <1>7 DEF Handled
  <2>2. TidyAll(y, rr2)
    BY <1>2, <1>7, <2>1, WbTidy
  <2>3. Goes(y, rr2, a)
    BY <1>2, <1>7, <2>1, <2>2, WbHandled DEF TidyAll
  <2> QED BY <1>1, <1>3, <2>2, <2>3, SettledOn
<1> QED BY <1>2, <1>4, <1>5, <1>6, <1>7 DEF Gives

-----------------------------------------------------------------------------
(* The steps of the directory's node.                                            *)
LEMMA TidyAfter ==
  ASSUME UNCHANGED sys, TidySlots(dir'), \A a \in Addrs : TidyFront(dir'.q[a], dir'.e[a]),
         \A a \in Addrs, k \in Llcs :
             TidyPair(k, a, cache'[k][a].st, waiters'[k][a], toCache'[k], toDir'[k], dir'.q[a], dir'.e[a])
  PROVE  Tidy'
<1>1. Users' = Users /\ Touched' = Touched
  BY DEF Users, Touched, LlcOf, Uses
<1>2. TidySlots(dir)'
  BY <1>1 DEF TidySlots
<1>3. ASSUME NEW a \in Addrs, NEW k \in Llcs
      PROVE  TidyPair(k, a, cache[k][a].st, waiters[k][a], toCache[k], toDir[k], dir.q[a], dir.e[a])'
  <2>1. TidyPair(k, a, cache'[k][a].st, waiters'[k][a], toCache'[k], toDir'[k], dir'.q[a], dir'.e[a])
    OBVIOUS
  <2> QED BY <1>1, <2>1 DEF TidyPair, OnlyUsed, InUse
<1>4. ASSUME NEW a \in Addrs PROVE TidyFront(dir.q[a], dir.e[a])'
  OBVIOUS
<1> QED BY <1>2, <1>3, <1>4 DEF Tidy, TidyLine

LEMMA TidyBegins ==
  ASSUME IInv, Tidy, NEW v \in Addrs, NEW o \in Llcs, NEW w, w = Working(dir, v, o)
  PROVE  TidyAll(w, toDir)
<1>1. w.err = NoFailure /\ w.d = dir /\ w.out = [c \in Llcs |-> <<>>]
  BY DEF Working
<1>2. Out(w) = toCache
  <2>1. toCache \in [Llcs -> Seq(ToCacheMsg)]
    BY DEF IInv, Types
  <2>2. ASSUME NEW k \in Llcs PROVE toCache[k] \o w.out[k] = toCache[k]
    BY <1>1, <2>1, EmptyAfter
  <2> QED BY <2>1, <2>2 DEF Out
<1> QED BY <1>1, <1>2 DEF TidyAll, TidyAt, Tidy

LEMMA DirStepTidy ==
  ASSUME NEW z, NEW rest, TidyAll(z, rest), DirStep(z, rest), UNCHANGED sys
  PROVE  Tidy' /\ UNCHANGED failed
<1>1. z.err = NoFailure /\ TidySlots(z.d) /\ \A b \in Addrs : TidyAt(z, rest, b)
  BY DEF TidyAll
<1>2. /\ dir' = z.d /\ toDir' = rest /\ UNCHANGED <<cache, waiters, failed>>
      /\ toCache' = [c \in Llcs |-> toCache[c] \o z.out[c]]
  BY <1>1 DEF DirStep
<1>3. toCache' = Out(z)
  BY <1>2 DEF Out
<1>4. \A a \in Addrs : TidyFront(dir'.q[a], dir'.e[a])
  BY <1>1, <1>2 DEF TidyAt, TidyLine
<1>5. \A a \in Addrs, k \in Llcs :
          TidyPair(k, a, cache'[k][a].st, waiters'[k][a], toCache'[k], toDir'[k], dir'.q[a], dir'.e[a])
  BY <1>1, <1>2, <1>3 DEF TidyAt, TidyLine
<1> QED BY <1>1, <1>2, <1>4, <1>5, TidyAfter

LEMMA DirHandlesTidy ==
  ASSUME IInv, Tidy, Roomy, NEW c \in Llcs, NEW v \in Addrs, NEW o \in Llcs, DirHandles(c, v, o)
  PROVE  Tidy' /\ UNCHANGED failed
<1> DEFINE w == Working(dir, v, o)
           m == Head(toDir[c])
           z == handleMsgFromL2Cache(w, c, m)
           rest == [toDir EXCEPT ![c] = Tail(@)]
<1>1. toDir[c] # <<>> /\ DirStep(z, rest) /\ UNCHANGED sys
  BY DEF DirHandles
<1>2. w = Working(dir, v, o) /\ m = Head(toDir[c]) /\ z = handleMsgFromL2Cache(w, c, m)
  OBVIOUS
<1>3. sys \in Systems /\ toDir \in [Llcs -> Seq(ToDirMsg)]
  BY DEF IInv, Types
<1>4. toDir[c] \in Seq(ToDirMsg) /\ m \in ToDirMsg /\ m.a \in Addrs
  <2>1. toDir[c] \in Seq(ToDirMsg)
    BY <1>3
  <2>2. m \in ToDirMsg
    BY <1>1, <2>1, Popped
  <2> QED BY <2>1, <2>2 DEF ToDirMsg
<1>5. rest \in [Llcs -> Seq(ToDirMsg)] /\ Taken(toDir, rest, c)
  BY <1>1, <1>3, <1>4 DEF Taken
<1> HIDE DEF w, m, z, rest
<1>6. Fine(w, toDir) /\ w.next = FALSE
  BY <1>2, WorkBegins
<1> DEFINE a == m.a
           q == w.d.q[a]
           e == w.d.e[a]
           rep == w.d.reply[a]
<1>7. At(w, a, q, e, rep)
  <2>1. w \in Works
    BY <1>6 DEF Fine
  <2> QED BY <1>4, <2>1, FieldTypes DEF At
<1>8. Arriving(w, toDir, rest, c, a, q, e, rep)
  BY <1>1, <1>2, <1>4, <1>5, <1>6, <1>7 DEF Arriving
<1> HIDE DEF a, q, e, rep
<1>9. TidyAll(w, toDir)
  BY <1>2, TidyBegins
<1>10. TidyAll(z, rest)
  BY <1>2, <1>3, <1>8, <1>9, MessageTidy
<1> QED BY <1>1, <1>10, DirStepTidy

LEMMA DramRepliesTidy ==
  ASSUME IInv, Tidy, Roomy, NEW a \in Addrs, NEW v \in Addrs, NEW o \in Llcs, DramReplies(a, v, o)
  PROVE  Tidy' /\ UNCHANGED failed
<1> DEFINE w == Working(dir, v, o)
           z == processDRAMReply(w, a)
           q == w.d.q[a]
           e == w.d.e[a]
           rep == w.d.reply[a]
<1>1. dir.reply[a] # <<>> /\ DirStep(z, toDir) /\ UNCHANGED sys
  BY DEF DramReplies
<1>2. w = Working(dir, v, o) /\ z = processDRAMReply(w, a) /\ q = w.d.q[a] /\ e = w.d.e[a]
      /\ rep = w.d.reply[a]
  OBVIOUS
<1>3. sys \in Systems
  BY DEF IInv, Types
<1> HIDE DEF w, z, q, e, rep
<1>4. Fine(w, toDir) /\ w.d = dir
  BY <1>2, WorkBegins
<1>5. At(w, a, q, e, rep)
  <2>1. w \in Works
    BY <1>4 DEF Fine
  <2> QED BY <1>2, <2>1, FieldTypes DEF At
<1>6. rep # <<>>
  BY <1>1, <1>2, <1>4
<1>7. TidyAll(w, toDir)
  BY <1>2, TidyBegins
<1>8. TidyAll(z, toDir)
  BY <1>2, <1>3, <1>4, <1>5, <1>6, <1>7, DramDoneTidy
<1> QED BY <1>1, <1>8, DirStepTidy

-----------------------------------------------------------------------------
(* The steps of a cache.  A store makes data old, and changes nothing else.        *)
LEMMA TidyPairAged ==
  ASSUME NEW k, NEW a, NEW st, NEW ws, NEW s, NEW r, NEW q \in Seq(DirReq), NEW e,
         TidyPair(k, a, st, ws, s, r, q, e), NEW z, NEW y, Alike(s, z, a), Alike(r, y, a),
         NEW p, QueueAged(q, p)
  PROVE  TidyPair(k, a, st, ws, z, y, p, e)
<1>1. TidyPair(k, a, st, ws, z, y, q, e)
  BY TidyAlike
<1>2. /\ p \in Seq(DirReq) /\ Len(p) = Len(q) /\ DOMAIN p = 1 .. Len(q) /\ DOMAIN q = 1 .. Len(q)
      /\ \A i \in 1 .. Len(q) : p[i].c = q[i].c /\ p[i].t = q[i].t
  BY DEF QueueAged
<1>3. CallsFor(q, k) => CallsFor(p, k)
  BY QueueAgedFront DEF CallsFor
<1>4. Upgrading(p, k) => Upgrading(q, k)
  BY <1>2 DEF Upgrading
<1> QED BY <1>1, <1>3, <1>4 DEF TidyPair, Called, UpgradeExpected, SharedKnown, OnlyUsed

LEMMA TidyFrontAged ==
  ASSUME NEW q \in Seq(DirReq), NEW e, TidyFront(q, e), NEW p, QueueAged(q, p)
  PROVE  TidyFront(p, e)
<1>1. /\ p \in Seq(DirReq) /\ Len(p) = Len(q) /\ DOMAIN p = 1 .. Len(q) /\ DOMAIN q = 1 .. Len(q)
      /\ \A i \in 1 .. Len(q) : p[i].t = q[i].t
  BY DEF QueueAged
<1>2. p # <<>> => q # <<>>
  BY <1>1
<1>3. q # <<>> => Head(p).t = Head(q).t /\ Head(p).wait = Head(q).wait
  BY QueueAgedFront
<1> QED BY <1>1, <1>2, <1>3 DEF TidyFront

LEMMA TidyWrites ==
  ASSUME NEW k, NEW a, NEW st \in {"E", "M"}, NEW ws, NEW s, NEW r, NEW q, NEW e,
         TidyPair(k, a, st, ws, s, r, q, e)
  PROVE  TidyPair(k, a, "M", ws, s, r, q, e)
<1>1. (st # "I") = TRUE /\ ("M" # "I") = TRUE /\ st \notin {"I", "S", "SU"}
  OBVIOUS
<1>2. Called(k, a, "M", s, r, q, e)
  BY <1>1 DEF TidyPair, Called
<1> QED BY <1>1, <1>2 DEF TidyPair, UpgradeExpected, SharedKnown, OnlyUsed

TidiesAfter(c, lines, s, r) ==
    \A b \in Addrs : TidyPair(c, b, lines[b].st, waiters'[c][b], s, r, dir.q[b], dir.e[b])

LEMMA TidyHere ==
  ASSUME Tidy, NEW k \in Llcs, NEW b \in Addrs
  PROVE  TidyPair(k, b, cache[k][b].st, waiters[k][b], toCache[k], toDir[k], dir.q[b], dir.e[b])
  BY DEF Tidy, TidyLine

LEMMA TidyMoved ==
  ASSUME Tidy, NEW c \in Llcs, NEW lines, NEW out,
         cache' = [k \in Llcs |-> IF k = c THEN lines ELSE cache[k]],
         toDir' = [k \in Llcs |-> IF k = c THEN toDir[k] \o out ELSE toDir[k]],
         dir' = dir, UNCHANGED sys, OthersKept(c, toCache'),
         TidiesAfter(c, lines, toCache'[c], toDir[c] \o out)
  PROVE  Tidy'
<1>1. TidySlots(dir') /\ \A a \in Addrs : TidyFront(dir'.q[a], dir'.e[a])
  BY DEF Tidy, TidyLine
<1>2. ASSUME NEW b \in Addrs, NEW k \in Llcs
      PROVE  TidyPair(k, b, cache'[k][b].st, waiters'[k][b], toCache'[k], toDir'[k],
                      dir'.q[b], dir'.e[b])
  <2>1. CASE k = c
    <3>1. cache'[k] = lines /\ toDir'[k] = toDir[c] \o out
      BY <2>1
    <3> QED BY <2>1, <3>1 DEF TidiesAfter
  <2>2. CASE k # c
    <3>1. /\ cache'[k] = cache[k] /\ toDir'[k] = toDir[k]
          /\ toCache'[k] = toCache[k] /\ waiters'[k] = waiters[k]
      BY <2>2 DEF OthersKept
    <3>2. TidyPair(k, b, cache[k][b].st, waiters[k][b], toCache[k], toDir[k], dir.q[b], dir.e[b])
      BY TidyHere
    <3> QED BY <3>1, <3>2
  <2> QED BY <2>1, <2>2
<1> QED BY <1>1, <1>2, TidyAfter

LEMMA TidyPlain ==
  ASSUME IInv, Tidy, NEW c \in Llcs, NEW lines \in [Addrs -> CacheLine], NEW out,
         CacheStep(c, lines, out, {}), UNCHANGED sys, OthersKept(c, toCache'),
         TidiesAfter(c, lines, toCache'[c], toDir[c] \o out)
  PROVE  Tidy'
<1>1. Types
  BY DEF IInv
<1>2. /\ cache' = [k \in Llcs |-> IF k = c THEN lines ELSE cache[k]]
      /\ toDir' = [k \in Llcs |-> IF k = c THEN toDir[k] \o out ELSE toDir[k]]
      /\ dir' = dir
  BY <1>1, StepPlain
<1> QED BY <1>2, TidyMoved

LEMMA TidyStore ==
  ASSUME IInv, Tidy, NEW c \in Llcs, NEW lines \in [Addrs -> CacheLine], NEW out \in Seq(ToDirMsg),
         NEW a \in Addrs, lines[a].st \in {"E", "M"},
         CacheStep(c, lines, out, {a}), UNCHANGED sys,
         NEW ss \in [Llcs -> Seq(ToCacheMsg)], OthersKept(c, ss),
         toCache' = [k \in Llcs |-> OldMsgs(ss[k], a)],
         TidiesAfter(c, lines, ss[c], toDir[c] \o out)
  PROVE  Tidy'
<1>1. Types /\ dir \in Directory
  BY DEF IInv, Types
<1> DEFINE rr == [k \in Llcs |-> IF k = c THEN toDir[k] \o out ELSE toDir[k]]
           mine == [x \in Addrs |-> IF x = a THEN Line("M", Fresh) ELSE lines[x]]
           others(k) == [x \in Addrs |-> IF x = a THEN [cache[k][x] EXCEPT !.data = Old(@)]
                                                  ELSE cache[k][x]]
<1>2. /\ cache' = [k \in Llcs |-> IF k = c THEN mine ELSE others(k)]
      /\ toDir' = [k \in Llcs |-> OldMsgs(rr[k], a)]
      /\ dir' = OldDir(dir, a)
  BY StepStore
<1>3. rr \in [Llcs -> Seq(ToDirMsg)] /\ rr[c] = toDir[c] \o out /\ \A k \in Llcs : k # c => rr[k] = toDir[k]
  <2>1. toDir[c] \o out \in Seq(ToDirMsg)
    BY <1>1 DEF Types
  <2> QED BY <1>1, <2>1 DEF Types
<1>4. mine[a].st = "M" /\ \A b \in Addrs : b # a => mine[b] = lines[b]
  BY WrittenLine
<1>5. ASSUME NEW k \in Llcs, NEW b \in Addrs PROVE others(k)[b].st = cache[k][b].st
  <2>1. cache[k][b] \in CacheLine
    BY <1>1 DEF Types
  <2>2. CASE b = a
    <3>1. others(k)[b] = [cache[k][b] EXCEPT !.data = Old(@)]
      BY <2>2
    <3> QED BY <2>1, <3>1, LineOld
  <2> QED BY <2>2
<1>6. ASSUME NEW k \in Llcs, NEW b \in Addrs
      PROVE  Alike(ss[k], toCache'[k], b) /\ Alike(rr[k], toDir'[k], b)
  <2>1. toCache'[k] = OldMsgs(ss[k], a) /\ toDir'[k] = OldMsgs(rr[k], a)
    BY <1>2
  <2>2. ss[k] \in Seq(ToCacheMsg) /\ rr[k] \in Seq(ToDirMsg)
    BY <1>3
  <2> HIDE DEF rr
  <2> QED BY <2>1, <2>2, OldToDir, OldToCache
<1>7. dir' \in Directory /\ DirAged(dir, dir')
  BY <1>1, <1>2, OldDirAged
<1> HIDE DEF rr, mine, others
<1>8. /\ \A b \in Addrs : dir.q[b] \in Seq(DirReq) /\ QueueAged(dir.q[b], dir'.q[b])
      /\ dir'.e = dir.e /\ dir'.slots = dir.slots /\ dir'.replaced = dir.replaced
  BY <1>1, <1>7 DEF Directory, DirAged
<1>9. ASSUME NEW b \in Addrs, NEW k \in Llcs
      PROVE  TidyPair(k, b, cache'[k][b].st, waiters'[k][b], toCache'[k], toDir'[k],
                      dir'.q[b], dir'.e[b])
  <2>1. Alike(ss[k], toCache'[k], b) /\ Alike(rr[k], toDir'[k], b)
    BY <1>6
  <2>2. TidyPair(k, b, cache'[k][b].st, waiters'[k][b], ss[k], rr[k], dir.q[b], dir.e[b])
    <3>1. CASE k = c
      <4>1. TidyPair(c, b, lines[b].st, waiters'[c][b], ss[c], rr[c], dir.q[b], dir.e[b])
        BY <1>3 DEF TidiesAfter
      <4>2. cache'[c] = mine
        BY <1>2
      <4>3. CASE b = a
        <5>1. TidyPair(c, b, "M", waiters'[c][b], ss[c], rr[c], dir.q[b], dir.e[b])
          BY <4>1, <4>3, TidyWrites
        <5> QED BY <1>4, <3>1, <4>2, <4>3, <5>1
      <4>4. CASE b # a
        BY <1>4, <3>1, <4>1, <4>2, <4>4
      <4> QED BY <4>3, <4>4
    <3>2. CASE k # c
      <4>1. cache'[k] = others(k) /\ rr[k] = toDir[k] /\ ss[k] = toCache[k] /\ waiters'[k] = waiters[k]
        BY <1>2, <1>3, <3>2 DEF OthersKept
      <4>2. cache'[k][b].st = cache[k][b].st
        BY <1>5, <4>1
      <4>3. TidyPair(k, b, cache[k][b].st, waiters[k][b], toCache[k], toDir[k], dir.q[b], dir.e[b])
        BY TidyHere
      <4> QED BY <4>1, <4>2, <4>3
    <3> QED BY <3>1, <3>2
  <2>3. dir.q[b] \in Seq(DirReq) /\ QueueAged(dir.q[b], dir'.q[b]) /\ dir'.e[b] = dir.e[b]
    BY <1>8
  <2>4. TidyPair(k, b, cache'[k][b].st, waiters'[k][b], toCache'[k], toDir'[k], dir'.q[b], dir.e[b])
    BY <2>1, <2>2, <2>3, TidyPairAged
  <2> QED BY <2>3, <2>4
<1>10. ASSUME NEW b \in Addrs PROVE TidyFront(dir'.q[b], dir'.e[b])
  <2>1. TidyFront(dir.q[b], dir.e[b])
    BY DEF Tidy, TidyLine
  <2>2. dir.q[b] \in Seq(DirReq) /\ QueueAged(dir.q[b], dir'.q[b]) /\ dir'.e[b] = dir.e[b]
    BY <1>8
  <2> QED BY <2>1, <2>2, TidyFrontAged
<1>11. TidySlots(dir')
  BY <1>8 DEF Tidy, TidySlots
<1> QED BY <1>9, <1>10, <1>11, TidyAfter

(* What the steps of a cache do to a pair. *)
LEMMA TidyPopped ==
  ASSUME NEW k, NEW a, NEW st, NEW ws, NEW s \in Seq(ToCacheMsg), NEW r, NEW q, NEW e,
         s # <<>>, Head(s).t # "UPGRADE_REP", TidyPair(k, a, st, ws, s, r, q, e)
  PROVE  TidyPair(k, a, st, ws, Tail(s), r, q, e)
<1> DEFINE z == Tail(s)
           m == Head(s)
           copy == st # "I"
<1>1. /\ \A T : Has(s, T, a) <=> On(m, T, a) \/ Has(z, T, a)
      /\ \A T, U : Behind(z, T, U, a) => Behind(s, T, U, a)
  BY PopHas
<1>2. Live(z, {"INV_REQ"}, a, copy) => Live(s, {"INV_REQ"}, a, copy)
  <2>1. copy \in BOOLEAN
    OBVIOUS
  <2> HIDE DEF copy
  <2> QED BY <2>1, PopLive
<1>3. ~On(m, {"UPGRADE_REP"}, a)
  BY DEF On
<1> HIDE DEF z, m
<1>4. TidyPair(k, a, st, ws, z, r, q, e)
  BY <1>1, <1>2, <1>3 DEF TidyPair, Called, UpgradeExpected, SharedKnown, OnlyUsed
<1> QED BY <1>4 DEF z

LEMMA TidyReleases ==
  ASSUME NEW k, NEW a, NEW st, NEW ws, NEW s, NEW r \in Seq(ToDirMsg), NEW q, NEW e,
         NEW m \in ToDirMsg, m.t \in Gives, st # "I", TidyPair(k, a, st, ws, s, r, q, e),
         CallsFor(q, k), m.t = "INV_REP" => e.st = "S", ~Has(s, {"UPGRADE_REP"}, a)
  PROVE  TidyPair(k, a, "I", ws, s, Append(r, m), q, e)
<1> DEFINE z == Append(r, m)
<1>1. \A T : Has(z, T, a) <=> Has(r, T, a) \/ On(m, T, a)
  BY PushHas
<1>2. (st # "I") = TRUE /\ ("I" # "I") = FALSE
  OBVIOUS
<1>3. Live(s, {"INV_REQ"}, a, FALSE) => Live(s, {"INV_REQ"}, a, TRUE)
  BY DEF Live
<1>4. On(m, {"INV_REP"}, a) => m.t = "INV_REP"
  BY DEF On
<1> HIDE DEF z
<1>5. Called(k, a, "I", s, z, q, e)
  BY <1>1, <1>2, <1>3, <1>4 DEF TidyPair, Called
<1>6. UpgradeExpected(k, a, "I", s, z, q)
  BY DEF TidyPair, UpgradeExpected
<1>7. SharedKnown(a, "I", s, z, e) /\ OnlyUsed(k, a, ws, e)
  BY DEF TidyPair, SharedKnown
<1>8. TidyPair(k, a, "I", ws, s, z, q, e)
  BY <1>5, <1>6, <1>7 DEF TidyPair
<1> QED BY <1>8 DEF z

LEMMA TidyTakesData ==
  ASSUME NEW c, NEW a, NEW ws, NEW vs, NEW s \in Seq(ToCacheMsg), NEW r, NEW q, NEW e,
         s # <<>>, Head(s).a = a, Head(s).t \in DataReps,
         NEW st, st = IF Head(s).t = "EX_REP" THEN "E" ELSE "S",
         PairInv(c, a, "I", ws, s, r, q, e), TidyPair(c, a, "I", ws, s, r, q, e)
  PROVE  TidyPair(c, a, st, vs, Tail(s), r, q, e)
<1> DEFINE z == Tail(s)
           m == Head(s)
<1>1. /\ \A T : Has(s, T, a) <=> On(m, T, a) \/ Has(z, T, a)
      /\ \A T, U : Behind(z, T, U, a) => Behind(s, T, U, a)
  BY PopHas
<1>2. On(m, DataReps, a) /\ (st = "S" => On(m, {"SH_REP"}, a))
  BY DEF On, DataReps
<1>3. Live(z, {"INV_REQ"}, a, TRUE) => Live(s, {"INV_REQ"}, a, FALSE)
  BY <1>2, PopLive
<1>4. Idle(c, a, z, r, q)
  BY PairTakesData
<1>5. (st # "I") = TRUE /\ ("I" # "I") = FALSE /\ st # "SU"
  OBVIOUS
<1> HIDE DEF z, m
<1>6. /\ ~Has(z, {"UPGRADE_REP"}, a) /\ ~Has(z, {"SH_REP"}, a) /\ ~Has(r, {"UPGRADE_REQ"}, a)
      /\ ~Upgrading(q, c)
  BY <1>4 DEF Idle, Has, On, Reps, Reqs, Queued, Upgrading
<1>7. InUse(c, a)
  <2>1. Has(s, DataReps, a)
    BY <1>1, <1>2
  <2> QED BY <2>1 DEF PairInv, Listed, TidyPair, OnlyUsed
<1>8. Called(c, a, st, z, r, q, e)
  BY <1>3, <1>5 DEF TidyPair, Called
<1>9. UpgradeExpected(c, a, st, z, r, q)
  BY <1>1, <1>6 DEF TidyPair, UpgradeExpected
<1>10. SharedKnown(a, st, z, r, e)
  BY <1>1, <1>2, <1>5, <1>6 DEF TidyPair, SharedKnown
<1>11. OnlyUsed(c, a, vs, e)
  BY <1>7 DEF OnlyUsed
<1>12. TidyPair(c, a, st, vs, z, r, q, e)
  BY <1>8, <1>9, <1>10, <1>11 DEF TidyPair
<1> QED BY <1>12 DEF z

LEMMA TidyRequests ==
  ASSUME NEW c, NEW a, NEW st, NEW ws, NEW vs, NEW s, NEW r \in Seq(ToDirMsg), NEW q, NEW e,
         NEW m \in ToDirMsg, m.a = a, NEW new,
         \/ m.t \in Fetches /\ st = "I" /\ new = "I"
         \/ m.t = "UPGRADE_REQ" /\ st = "S" /\ new = "SU",
         TidyPair(c, a, st, ws, s, r, q, e), Idle(c, a, s, r, q), InUse(c, a)
  PROVE  TidyPair(c, a, new, vs, s, Append(r, m), q, e)
<1> DEFINE z == Append(r, m)
<1>1. \A T : Has(z, T, a) <=> Has(r, T, a) \/ On(m, T, a)
  BY PushHas
<1>2. (new # "I") = (st # "I") /\ new \in {"I", "SU"} /\ (new = "SU" => st = "S")
  OBVIOUS
<1>3. ~On(m, Gives, a) /\ ~On(m, {"INV_REP"}, a) /\ ~On(m, {"WB_REP"}, a)
  BY DEF On, Gives, Fetches
<1> HIDE DEF z
<1>4. ~Has(s, {"UPGRADE_REP"}, a)
  BY Kinds DEF Idle
<1>5. Called(c, a, new, s, z, q, e)
  BY <1>1, <1>2, <1>3 DEF TidyPair, Called
<1>6. UpgradeExpected(c, a, new, s, z, q)
  BY <1>2, <1>4 DEF TidyPair, UpgradeExpected
<1>7. SharedKnown(a, new, s, z, e)
  BY <1>1, <1>2 DEF TidyPair, SharedKnown
<1>8. OnlyUsed(c, a, vs, e)
  BY DEF OnlyUsed
<1>9. TidyPair(c, a, new, vs, s, z, q, e)
  BY <1>5, <1>6, <1>7, <1>8 DEF TidyPair
<1> QED BY <1>9 DEF z

LEMMA TidyUpgraded ==
  ASSUME NEW c, NEW a, NEW ws, NEW vs, NEW s \in Seq(ToCacheMsg), NEW r, NEW q, NEW e,
         s # <<>>, Head(s).a = a, Head(s).t = "UPGRADE_REP",
         PairInv(c, a, "SU", ws, s, r, q, e), TidyPair(c, a, "SU", ws, s, r, q, e)
  PROVE  TidyPair(c, a, "M", vs, Tail(s), r, q, e)
<1> DEFINE z == Tail(s)
           m == Head(s)
<1>1. /\ \A T : Has(s, T, a) <=> On(m, T, a) \/ Has(z, T, a)
      /\ \A T, U : Behind(z, T, U, a) => Behind(s, T, U, a)
  BY PopHas
<1>2. Live(z, {"INV_REQ"}, a, TRUE) => Live(s, {"INV_REQ"}, a, TRUE)
  BY PopLive
<1>3. Idle(c, a, z, r, q)
  BY PairUpgraded
<1>4. ("M" # "I") = TRUE /\ ("SU" # "I") = TRUE
  OBVIOUS
<1> HIDE DEF z, m
<1>5. /\ ~Has(z, {"UPGRADE_REP"}, a) /\ ~Has(z, {"SH_REP"}, a) /\ ~Has(r, {"UPGRADE_REQ"}, a)
      /\ ~Upgrading(q, c)
  BY <1>3 DEF Idle, Has, On, Reps, Reqs, Queued, Upgrading
<1>6. InUse(c, a)
  BY DEF PairInv, Listed, TidyPair, OnlyUsed
<1>7. Called(c, a, "M", z, r, q, e)
  BY <1>2, <1>4 DEF TidyPair, Called
<1>8. UpgradeExpected(c, a, "M", z, r, q)
  BY <1>1, <1>5 DEF TidyPair, UpgradeExpected
<1>9. SharedKnown(a, "M", z, r, e) /\ OnlyUsed(c, a, vs, e)
  BY <1>5, <1>6 DEF SharedKnown, OnlyUsed
<1>10. TidyPair(c, a, "M", vs, z, r, q, e)
  BY <1>7, <1>8, <1>9 DEF TidyPair
<1> QED BY <1>10 DEF z

LEMMA TidyWritesOut ==
  ASSUME NEW c, NEW a, NEW st, NEW ws, NEW s \in Seq(ToCacheMsg), NEW r \in Seq(ToDirMsg),
         NEW q, NEW e, s # <<>>, Head(s).t = "WB_REQ", st # "I",
         NEW new, new = IF st = "SU" THEN "SU" ELSE "S",
         NEW x \in ToDirMsg, x.a = a, x.t = "WB_REP", TidyPair(c, a, st, ws, s, r, q, e)
  PROVE  TidyPair(c, a, new, ws, Tail(s), Append(r, x), q, e)
<1> DEFINE z == Tail(s)
           y == Append(r, x)
<1>1. TidyPair(c, a, st, ws, z, r, q, e)
  BY TidyPopped
<1>2. \A T : Has(y, T, a) <=> Has(r, T, a) \/ On(x, T, a)
  BY PushHas
<1>3. On(x, {"WB_REP"}, a) /\ ~On(x, Gives, a) /\ ~On(x, {"INV_REP"}, a) /\ ~On(x, {"UPGRADE_REQ"}, a)
  BY DEF On, Gives
<1>4. (new # "I") = TRUE /\ (st # "I") = TRUE /\ (st = "SU" => new = "SU")
  OBVIOUS
<1> HIDE DEF z, y
<1>5. Called(c, a, new, z, y, q, e)
  BY <1>1, <1>2, <1>3, <1>4 DEF TidyPair, Called
<1>6. UpgradeExpected(c, a, new, z, y, q)
  BY <1>1, <1>2, <1>3, <1>4 DEF TidyPair, UpgradeExpected
<1>7. SharedKnown(a, new, z, y, e) /\ OnlyUsed(c, a, ws, e)
  BY <1>1, <1>2, <1>3 DEF TidyPair, SharedKnown
<1>8. TidyPair(c, a, new, ws, z, y, q, e)
  BY <1>5, <1>6, <1>7 DEF TidyPair
<1> QED BY <1>8 DEF z, y

LEMMA TidyJoined ==
  ASSUME NEW c, NEW a, NEW st, NEW ws, NEW vs, NEW s, NEW r, NEW q, NEW e,
         TidyPair(c, a, st, ws, s, r, q, e), InUse(c, a)
  PROVE  TidyPair(c, a, st, vs, s, r, q, e)
  BY DEF TidyPair, OnlyUsed

LEMMA TidyUnmoved ==
  ASSUME NEW c, NEW a, NEW st, NEW ws, NEW s, NEW z, NEW r, NEW y, NEW q, NEW e,
         TidyPair(c, a, st, ws, s, r, q, e), Alike(s, z, a), Alike(r, y, a)
  PROVE  TidyPair(c, a, st, ws, z, y, q, e)
<1>1. Live(z, {"INV_REQ"}, a, st # "I") <=> Live(s, {"INV_REQ"}, a, st # "I")
  <2>1. (st # "I") \in BOOLEAN
    OBVIOUS
  <2> QED BY <2>1, AlikeLive
<1>2. /\ \A T : (Has(z, T, a) <=> Has(s, T, a)) /\ (Has(y, T, a) <=> Has(r, T, a))
      /\ \A T, U : Behind(z, T, U, a) <=> Behind(s, T, U, a)
  BY DEF Alike
<1> QED BY <1>1, <1>2 DEF TidyPair, Called, UpgradeExpected, SharedKnown, OnlyUsed

(* The steps of a user thread. *)
LEMMA WriteHitTidy ==
  ASSUME IInv, Tidy, NEW th \in Threads, NEW a \in Addrs, WriteHit(th, a)
  PROVE  Tidy' /\ UNCHANGED failed
<1> DEFINE c == LlcOf[th]
<1>1. c \in Llcs
  BY ThreadsCache
<1>2. /\ cache[c][a].st \in {"E", "M"}
      /\ CacheStep(c, cache[c], <<>>, {a})
      /\ toCache' = [k \in Llcs |-> OldMsgs(toCache[k], a)]
      /\ UNCHANGED <<sys, waiters, failed>>
  BY DEF WriteHit
<1> HIDE DEF c
<1>3. /\ cache[c] \in [Addrs -> CacheLine]
      /\ toDir[c] \in Seq(ToDirMsg) /\ toCache \in [Llcs -> Seq(ToCacheMsg)]
  BY <1>1, <1>2, CacheTypes
<1>4. toDir[c] \o <<>> = toDir[c] /\ <<>> \in Seq(ToDirMsg)
  BY <1>3, NothingSent
<1>5. OthersKept(c, toCache)
  BY <1>2 DEF OthersKept
<1>6. TidiesAfter(c, cache[c], toCache[c], toDir[c] \o <<>>)
  BY <1>1, <1>2, <1>4, TidyHere DEF TidiesAfter
<1> DEFINE lines == cache[c]
           out == <<>>
<1>7. /\ lines \in [Addrs -> CacheLine] /\ out \in Seq(ToDirMsg) /\ lines[a].st \in {"E", "M"}
      /\ CacheStep(c, lines, out, {a}) /\ TidiesAfter(c, lines, toCache[c], toDir[c] \o out)
  BY <1>2, <1>3, <1>4, <1>6
<1> HIDE DEF lines, out
<1>8. Tidy'
  BY <1>1, <1>2, <1>3, <1>5, <1>7, TidyStore
<1> QED BY <1>2, <1>8

TidyThis(c, a, lines, out) ==
    \A vs : vs # <<>> => TidyPair(c, a, lines[a].st, vs, toCache[c], toDir[c] \o out,
                                  dir.q[a], dir.e[a])

LEMMA MissMovesTidy ==
  ASSUME IInv, Tidy, NEW c \in Llcs, NEW a \in Addrs, NEW x \in Waiter,
         NEW lines \in [Addrs -> CacheLine], NEW out \in Seq(ToDirMsg),
         MissStep(c, a, x, lines, out), OtherLines(c, a, lines, out), TidyThis(c, a, lines, out)
  PROVE  Tidy'
<1>1. /\ cache \in [Llcs -> [Addrs -> CacheLine]] /\ waiters \in WaitersType
      /\ toDir \in [Llcs -> Seq(ToDirMsg)] /\ toCache \in [Llcs -> Seq(ToCacheMsg)]
  BY CacheTypes
<1>2. /\ cache' = [k \in Llcs |-> IF k = c THEN lines ELSE cache[k]]
      /\ toDir' = [k \in Llcs |-> IF k = c THEN toDir[k] \o out ELSE toDir[k]]
      /\ UNCHANGED <<sys, toCache, dir>>
  BY <1>1 DEF MissStep
<1>3. waiters[c] \in [Addrs -> Seq(Waiter)] /\ waiters[c][a] \in Seq(Waiter)
  BY <1>1 DEF WaitersType
<1> DEFINE ws == Append(waiters[c][a], x)
<1>4. ws \in Seq(Waiter) /\ ws # <<>>
  BY <1>3, QueueGrows, Zenon
<1>5. waiters' = [waiters EXCEPT ![c] = [waiters[c] EXCEPT ![a] = ws]]
  BY DEF MissStep
<1> HIDE DEF ws
<1>6. /\ waiters'[c][a] = ws
      /\ \A b \in Addrs : b # a => waiters'[c][b] = waiters[c][b]
      /\ \A k \in Llcs : k # c => waiters'[k] = waiters[k]
  BY <1>1, <1>3, <1>4, <1>5 DEF WaitersType
<1>7. OthersKept(c, toCache')
  BY <1>2, <1>6 DEF OthersKept
<1>8. ASSUME NEW b \in Addrs
      PROVE  TidyPair(c, b, lines[b].st, waiters'[c][b], toCache'[c], toDir[c] \o out,
                      dir.q[b], dir.e[b])
  <2>1. CASE b = a
    BY <1>2, <1>4, <1>6, <2>1 DEF TidyThis
  <2>2. CASE b # a
    <3>1. TidyPair(c, b, cache[c][b].st, waiters[c][b], toCache[c], toDir[c], dir.q[b], dir.e[b])
      BY TidyHere
    <3>2. Alike(toDir[c], toDir[c] \o out, b) /\ lines[b] = cache[c][b]
      BY <2>2 DEF OtherLines
    <3>3. TidyPair(c, b, cache[c][b].st, waiters[c][b], toCache[c], toDir[c] \o out, dir.q[b], dir.e[b])
      BY <3>1, <3>2, AlikeSelf, TidyUnmoved
    <3> QED BY <1>2, <1>6, <2>2, <3>2, <3>3
  <2> QED BY <2>1, <2>2
<1>9. TidiesAfter(c, lines, toCache'[c], toDir[c] \o out)
  BY <1>8 DEF TidiesAfter
<1> QED BY <1>2, <1>7, <1>9, TidyMoved

LEMMA MissSendsTidy ==
  ASSUME IInv, Tidy, NEW c \in Llcs, NEW a \in Addrs, InUse(c, a), NEW x \in Waiter,
         NEW lines \in [Addrs -> CacheLine], NEW m \in ToDirMsg, m.a = a,
         MissSent(c, a, x, lines, m), MissLines(c, a, lines, m)
  PROVE  Tidy'
<1>0. /\ waiters[c][a] = <<>> /\ \A b \in Addrs : b # a => lines[b] = cache[c][b]
      /\ \/ m.t \in Fetches /\ cache[c][a].st = "I" /\ lines[a].st = "I"
         \/ m.t = "UPGRADE_REQ" /\ cache[c][a].st = "S" /\ lines[a].st = "SU"
  BY DEF MissSent, MissLines
<1>1. toDir[c] \in Seq(ToDirMsg)
  BY CacheTypes
<1> DEFINE out == <<m>>
<1>2. toDir[c] \o out = Append(toDir[c], m) /\ out \in Seq(ToDirMsg)
  BY <1>1, OneSent
<1> HIDE DEF out
<1>3. MissStep(c, a, x, lines, out)
  BY <1>2 DEF MissStep, MissSent
<1>4. ASSUME NEW b \in Addrs, b # a
      PROVE  lines[b] = cache[c][b] /\ Alike(toDir[c], toDir[c] \o out, b)
  <2>1. Alike(toDir[c], Append(toDir[c], m), b)
    BY <1>1, <1>4, PushOther
  <2> QED BY <1>0, <1>2, <1>4, <2>1
<1>5. ASSUME NEW vs, vs # <<>>
      PROVE  TidyPair(c, a, lines[a].st, vs, toCache[c], toDir[c] \o out, dir.q[a], dir.e[a])
  <2>1. PairInv(c, a, cache[c][a].st, <<>>, toCache[c], toDir[c], dir.q[a], dir.e[a])
    BY <1>0, PairsHere DEF PairHere
  <2>2. TidyPair(c, a, cache[c][a].st, waiters[c][a], toCache[c], toDir[c], dir.q[a], dir.e[a])
    BY TidyHere
  <2>3. Idle(c, a, toCache[c], toDir[c], dir.q[a])
    BY <2>1, IdleIfNobodyWaits
  <2>4. TidyPair(c, a, lines[a].st, vs, toCache[c], Append(toDir[c], m), dir.q[a], dir.e[a])
    BY <1>0, <1>1, <2>2, <2>3, TidyRequests
  <2> QED BY <1>2, <2>4
<1>6. OtherLines(c, a, lines, out) /\ TidyThis(c, a, lines, out)
  BY <1>4, <1>5 DEF OtherLines, TidyThis
<1> QED BY <1>2, <1>3, <1>6, MissMovesTidy

LEMMA MissJoinsTidy ==
  ASSUME IInv, Tidy, NEW c \in Llcs, NEW a \in Addrs, InUse(c, a), NEW x \in Waiter,
         waiters' = [waiters EXCEPT ![c][a] = Append(@, x)],
         UNCHANGED <<sys, cache, toDir, toCache, dir>>
  PROVE  Tidy'
<1>1. /\ cache \in [Llcs -> [Addrs -> CacheLine]] /\ toDir \in [Llcs -> Seq(ToDirMsg)]
      /\ toDir[c] \in Seq(ToDirMsg) /\ cache[c] \in [Addrs -> CacheLine]
  BY CacheTypes
<1> DEFINE out == <<>>
           lines == cache[c]
<1>2. toDir[c] \o out = toDir[c] /\ out \in Seq(ToDirMsg)
  BY <1>1, NothingSent
<1> HIDE DEF out
<1>3. MissStep(c, a, x, lines, out)
  BY <1>1, <1>2 DEF MissStep
<1>4. ASSUME NEW b \in Addrs, b # a
      PROVE  lines[b] = cache[c][b] /\ Alike(toDir[c], toDir[c] \o out, b)
  BY <1>2, AlikeSelf
<1>5. ASSUME NEW vs
      PROVE  TidyPair(c, a, lines[a].st, vs, toCache[c], toDir[c] \o out, dir.q[a], dir.e[a])
  <2>1. TidyPair(c, a, cache[c][a].st, waiters[c][a], toCache[c], toDir[c], dir.q[a], dir.e[a])
    BY TidyHere
  <2>2. TidyPair(c, a, cache[c][a].st, vs, toCache[c], toDir[c], dir.q[a], dir.e[a])
    BY <2>1, TidyJoined
  <2> QED BY <1>2, <2>2
<1>6. lines \in [Addrs -> CacheLine]
  BY <1>1
<1> HIDE DEF lines
<1>7. OtherLines(c, a, lines, out) /\ TidyThis(c, a, lines, out)
  BY <1>4, <1>5 DEF OtherLines, TidyThis
<1> QED BY <1>2, <1>3, <1>6, <1>7, MissMovesTidy

(* The thread that is the first to miss on a line finds it absent, or SHARED and *)
(* upgrades it.                                                              *)
LEMMA MissTidy ==
  ASSUME IInv, Tidy, NEW th \in Threads, NEW a \in Uses[th], NEW ex \in BOOLEAN, Miss(th, a, ex)
  PROVE  Tidy' /\ UNCHANGED failed
<1> DEFINE c == LlcOf[th]
           st == cache[c][a].st
           first == waiters[c][a] = <<>>
           t == CASE ex /\ st = "S" -> "UPGRADE_REQ"
                  [] ex /\ st # "S" -> "EX_REQ"
                  [] ~ex            -> "SH_REQ"
           fails == first /\ t = "EX_REQ" /\ st # "I"
           x == [th |-> th, ex |-> ex]
           m == Msg(t, a, NoData)
<1>0. a \in Addrs /\ InUse(c, a)
  BY ThreadsCache DEF InUse, Users, Touched
<1>1. c \in Llcs
  BY ThreadsCache
<1>2. /\ ~Permissible(st, ex) /\ UNCHANGED sys
      /\ ~fails => /\ waiters' = [waiters EXCEPT ![c][a] = Append(@, x)]
                   /\ toDir' = IF first THEN [toDir EXCEPT ![c] = Append(@, m)] ELSE toDir
                   /\ cache' = IF first /\ t = "UPGRADE_REQ" THEN [cache EXCEPT ![c][a].st = "SU"]
                                                             ELSE cache
                   /\ UNCHANGED <<toCache, dir, failed>>
  <2> HIDE DEF c
  <2> QED BY DEF Miss, Stop, c
<1>3. x \in Waiter
  BY DEF Waiter
<1>4. cache \in [Llcs -> [Addrs -> CacheLine]] /\ cache[c] \in [Addrs -> CacheLine] /\ st \in CStates
  <2>1. cache \in [Llcs -> [Addrs -> CacheLine]]
    BY CacheTypes
  <2> QED BY <1>0, <1>1, <2>1 DEF CacheLine
<1>5. t \in Reqs /\ (t # "UPGRADE_REQ" => t \in Fetches) /\ (t = "UPGRADE_REQ" => st = "S")
  BY DEF Reqs, Fetches
<1>6. m \in ToDirMsg /\ m.a = a /\ m.t = t
  <2> HIDE DEF t, c
  <2> QED BY <1>0, <1>5 DEF Msg, ToDirMsg, Data, Reqs
<1>7. first => st # "SU"
  <2>1. PairInv(c, a, st, waiters[c][a], toCache[c], toDir[c], dir.q[a], dir.e[a])
    BY <1>0, <1>1, PairsHere DEF PairHere
  <2> QED BY <2>1 DEF PairInv, SomebodyWaits
<1>8. first /\ t # "UPGRADE_REQ" => st = "I"
  BY <1>2, <1>4, <1>7 DEF Permissible, CStates
<1>9. ~fails
  BY <1>8
<1> HIDE DEF c, st, t, x, m
<1>10. UNCHANGED failed
  BY <1>2, <1>9
<1>11. CASE ~first
  <2>1. waiters' = [waiters EXCEPT ![c][a] = Append(@, x)] /\ UNCHANGED <<sys, cache, toDir, toCache, dir>>
    BY <1>2, <1>9, <1>11
  <2> QED BY <1>0, <1>1, <1>3, <1>10, <2>1, MissJoinsTidy
<1>12. CASE first /\ t = "UPGRADE_REQ"
  <2> DEFINE lines == [cache[c] EXCEPT ![a].st = "SU"]
  <2>1. "SU" \in CStates /\ cache[c][a].st = "S"
    BY <1>5, <1>12 DEF CStates, st
  <2>2. /\ lines \in [Addrs -> CacheLine] /\ lines[a].st = "SU"
        /\ \A b \in Addrs : b # a => lines[b] = cache[c][b]
    <3>1. lines = [cache[c] EXCEPT ![a].st = "SU"]
      OBVIOUS
    <3> HIDE DEF lines
    <3> QED BY <1>0, <1>4, <2>1, <3>1, StateSet
  <2>3. cache' = [cache EXCEPT ![c] = lines]
    BY <1>2, <1>9, <1>12
  <2> HIDE DEF lines
  <2>4. /\ waiters' = [waiters EXCEPT ![c][a] = Append(@, x)] /\ waiters[c][a] = <<>>
        /\ toDir' = [toDir EXCEPT ![c] = Append(@, m)] /\ UNCHANGED <<sys, toCache, dir>>
    BY <1>2, <1>9, <1>12
  <2>5. m.t = "UPGRADE_REQ"
    BY <1>6, <1>12
  <2>6. MissSent(c, a, x, lines, m) /\ MissLines(c, a, lines, m)
    BY <2>1, <2>2, <2>3, <2>4, <2>5 DEF MissSent, MissLines
  <2>7. Tidy'
    BY <1>0, <1>1, <1>3, <1>6, <2>2, <2>6, MissSendsTidy
  <2> QED BY <1>10, <2>7
<1>13. CASE first /\ t # "UPGRADE_REQ"
  <2> DEFINE lines == cache[c]
  <2>1. m.t \in Fetches /\ cache[c][a].st = "I" /\ lines[a].st = "I"
    BY <1>5, <1>6, <1>8, <1>13 DEF st
  <2>2. /\ lines \in [Addrs -> CacheLine] /\ cache' = [cache EXCEPT ![c] = lines]
        /\ \A b \in Addrs : b # a => lines[b] = cache[c][b]
    BY <1>2, <1>4, <1>9, <1>13
  <2> HIDE DEF lines
  <2>3. /\ waiters' = [waiters EXCEPT ![c][a] = Append(@, x)] /\ waiters[c][a] = <<>>
        /\ toDir' = [toDir EXCEPT ![c] = Append(@, m)] /\ UNCHANGED <<sys, toCache, dir>>
    BY <1>2, <1>9, <1>13
  <2>4. MissSent(c, a, x, lines, m) /\ MissLines(c, a, lines, m)
    BY <2>1, <2>2, <2>3 DEF MissSent, MissLines
  <2>5. Tidy'
    BY <1>0, <1>1, <1>3, <1>6, <2>2, <2>4, MissSendsTidy
  <2> QED BY <1>10, <2>5
<1> QED BY <1>11, <1>12, <1>13

(* A reply serves the waiters. *)
ReplyingTidy(c, a, lines, out) ==
    /\ \A b \in Addrs : b # a =>
           TidyPair(c, b, lines[b].st, waiters[c][b], Tail(toCache[c]), toDir[c] \o out,
                    dir.q[b], dir.e[b])
    /\ \A vs : TidyPair(c, a, lines[a].st, vs, Tail(toCache[c]), toDir[c] \o out,
                        dir.q[a], dir.e[a])
    /\ InUse(c, a)

LEMMA TidiesReplied ==
  ASSUME NEW c, NEW a, NEW lines, NEW out, ReplyingTidy(c, a, lines, out),
         NEW s, s = Tail(toCache[c]),
         \A b \in Addrs : b # a => waiters'[c][b] = waiters[c][b]
  PROVE  TidiesAfter(c, lines, s, toDir[c] \o out)
<1>1. ASSUME NEW b \in Addrs
      PROVE  TidyPair(c, b, lines[b].st, waiters'[c][b], s, toDir[c] \o out, dir.q[b], dir.e[b])
  <2>1. CASE b = a
    BY <2>1 DEF ReplyingTidy
  <2>2. CASE b # a
    BY <2>2 DEF ReplyingTidy
  <2> QED BY <2>1, <2>2
<1> QED BY <1>1 DEF TidiesAfter

LEMMA ReplyServesTidy ==
  ASSUME IInv, Tidy, NEW c \in Llcs, NEW a \in Addrs, toCache[c] # <<>>,
         NEW lines \in [Addrs -> CacheLine], NEW out \in Seq(ToDirMsg), ReplyingTidy(c, a, lines, out),
         waiters' = [waiters EXCEPT ![c][a] = <<>>], UNCHANGED sys,
         CacheStep(c, lines, out, {}), toCache' = Answered(c)
  PROVE  Tidy'
<1>1. waiters \in WaitersType /\ <<>> \in Seq(Waiter)
  BY CacheTypes
<1>2. /\ \A b \in Addrs : b # a => waiters'[c][b] = waiters[c][b]
      /\ \A k \in Llcs : k # c => waiters'[k] = waiters[k]
  BY <1>1, WaitersSet
<1>3. /\ toCache'[c] = Tail(toCache[c]) /\ \A k \in Llcs : k # c => toCache'[k] = toCache[k]
  BY AnsweredIs
<1>4. OthersKept(c, toCache')
  BY <1>2, <1>3 DEF OthersKept
<1>5. TidiesAfter(c, lines, toCache'[c], toDir[c] \o out)
  BY <1>2, <1>3, TidiesReplied
<1> QED BY <1>4, <1>5, TidyPlain

LEMMA ReplyStoresTidy ==
  ASSUME IInv, Tidy, NEW c \in Llcs, NEW a \in Addrs, toCache[c] # <<>>,
         NEW lines \in [Addrs -> CacheLine], NEW out \in Seq(ToDirMsg), ReplyingTidy(c, a, lines, out),
         lines[a].st \in {"E", "M"},
         waiters' = [waiters EXCEPT ![c][a] = <<>>], UNCHANGED sys,
         CacheStep(c, lines, out, {a}),
         toCache' = [k \in Llcs |-> OldMsgs(Answered(c)[k], a)]
  PROVE  Tidy'
<1>1. waiters \in WaitersType /\ <<>> \in Seq(Waiter)
  BY CacheTypes
<1>2. /\ \A b \in Addrs : b # a => waiters'[c][b] = waiters[c][b]
      /\ \A k \in Llcs : k # c => waiters'[k] = waiters[k]
  BY <1>1, WaitersSet
<1> DEFINE ss == Answered(c)
<1>3. /\ ss \in [Llcs -> Seq(ToCacheMsg)] /\ ss[c] = Tail(toCache[c])
      /\ \A k \in Llcs : k # c => ss[k] = toCache[k]
  BY AnsweredIs
<1>4. toCache' = [k \in Llcs |-> OldMsgs(ss[k], a)]
  OBVIOUS
<1> HIDE DEF ss
<1>5. OthersKept(c, ss)
  BY <1>2, <1>3 DEF OthersKept
<1>6. TidiesAfter(c, lines, ss[c], toDir[c] \o out)
  BY <1>2, <1>3, TidiesReplied
<1> QED BY <1>3, <1>4, <1>5, <1>6, TidyStore

LEMMA Upgraded ==
  ASSUME NEW lines \in [Addrs -> CacheLine], NEW a \in Addrs, lines[a].st # "I",
         NEW new, new = [lines EXCEPT ![a].st = "SU"]
  PROVE  /\ new \in [Addrs -> CacheLine] /\ new[a].st = "SU"
         /\ \A b \in Addrs : b # a => new[b] = lines[b]
<1>1. "SU" \in CStates
  BY DEF CStates
<1> QED BY <1>1, StateSet

LEMMA ReplyUpgradesTidy ==
  ASSUME IInv, Tidy, NEW c \in Llcs, NEW a \in Addrs, toCache[c] # <<>>,
         NEW lines \in [Addrs -> CacheLine], NEW out \in Seq(ToDirMsg), Replying(c, a, lines, out),
         ReplyingTidy(c, a, lines, out), lines[a].st = "S", NEW ws \in Seq(Waiter),
         waiters' = [waiters EXCEPT ![c][a] = ws], UNCHANGED sys,
         UpgradeStep(c, a, lines, out), toCache' = Answered(c)
  PROVE  Tidy'
<1>1. /\ waiters \in WaitersType /\ toDir[c] \in Seq(ToDirMsg)
      /\ toDir[c] \o out \in Seq(ToDirMsg)
  BY CacheTypes
<1>2. /\ waiters' \in WaitersType /\ waiters'[c][a] = ws
      /\ \A b \in Addrs : b # a => waiters'[c][b] = waiters[c][b]
      /\ \A k \in Llcs : k # c => waiters'[k] = waiters[k]
  BY <1>1, WaitersSet
<1>3. toCache'[c] = Tail(toCache[c]) /\ \A k \in Llcs : k # c => toCache'[k] = toCache[k]
  BY AnsweredIs
<1>4. OthersKept(c, toCache')
  BY <1>2, <1>3 DEF OthersKept
<1> DEFINE m == Msg("UPGRADE_REQ", a, NoData)
           ups == UpgradeForWriter(a)
           out2 == out \o ups
           lines2 == [lines EXCEPT ![a].st = "SU"]
<1>5. m \in ToDirMsg /\ m.a = a /\ m.t = "UPGRADE_REQ" /\ ups = <<m>>
  BY DEF Msg, ToDirMsg, Data, Reqs, UpgradeForWriter
<1>7. CacheStep(c, lines2, out2, {})
  BY DEF UpgradeStep
<1>8. lines2 = [lines EXCEPT ![a].st = "SU"]
  OBVIOUS
<1>9. OneMore(out, m, out2)
  BY <1>5 DEF OneMore
<1> HIDE DEF m, ups, out2, lines2
<1>10. /\ lines2 \in [Addrs -> CacheLine] /\ lines2[a].st = "SU"
       /\ \A b \in Addrs : b # a => lines2[b] = lines[b]
  <2>1. lines[a].st # "I"
    OBVIOUS
  <2> QED BY <1>8, <2>1, Upgraded
<1>11. toDir[c] \o out2 = Append(toDir[c] \o out, m)
  <2>1. m \in ToDirMsg /\ toDir[c] \in Seq(ToDirMsg)
    BY <1>1, <1>5
  <2>2. AlsoSent(toDir[c], out, m, out2)
    BY <1>9, <2>1, SentAfter
  <2> QED BY <2>2 DEF AlsoSent
<1> DEFINE r == toDir[c] \o out
           s == Tail(toCache[c])
<1>12. ASSUME NEW b \in Addrs
       PROVE  TidyPair(c, b, lines2[b].st, waiters'[c][b], s, Append(r, m), dir.q[b], dir.e[b])
  <2>1. CASE b = a
    <3>1. TidyPair(c, a, "S", ws, s, r, dir.q[a], dir.e[a]) /\ InUse(c, a)
      BY DEF ReplyingTidy
    <3>2. Idle(c, a, s, r, dir.q[a])
      BY DEF Replying
    <3>3. r \in Seq(ToDirMsg)
      BY <1>1
    <3> HIDE DEF r, s
    <3>4. TidyPair(c, a, "SU", ws, s, Append(r, m), dir.q[a], dir.e[a])
      BY <1>5, <3>1, <3>2, <3>3, TidyRequests
    <3> QED BY <1>2, <1>10, <2>1, <3>4
  <2>2. CASE b # a
    <3>1. TidyPair(c, b, lines[b].st, waiters[c][b], s, r, dir.q[b], dir.e[b])
      BY <2>2 DEF ReplyingTidy
    <3>2. r \in Seq(ToDirMsg)
      BY <1>1
    <3> HIDE DEF r, s
    <3>3. Alike(r, Append(r, m), b) /\ Alike(s, s, b)
      BY <1>5, <2>2, <3>2, PushOther, AlikeSelf
    <3>4. TidyPair(c, b, lines[b].st, waiters[c][b], s, Append(r, m), dir.q[b], dir.e[b])
      BY <3>1, <3>3, TidyUnmoved
    <3> QED BY <1>2, <1>10, <2>2, <3>4
  <2> QED BY <2>1, <2>2
<1>13. TidiesAfter(c, lines2, toCache'[c], toDir[c] \o out2)
  BY <1>3, <1>11, <1>12 DEF TidiesAfter
<1> QED BY <1>4, <1>7, <1>10, <1>13, TidyPlain

LEMMA ReplyTidy ==
  ASSUME IInv, Tidy, NEW c \in Llcs, NEW a \in Addrs, toCache[c] # <<>>,
         NEW lines \in [Addrs -> CacheLine], NEW out \in Seq(ToDirMsg), Replying(c, a, lines, out),
         ReplyingTidy(c, a, lines, out), Reply(c, a, lines, out), UNCHANGED sys
  PROVE  Tidy'
<1>1. lines[a].st \in {"E", "S", "M"} /\ "S" \notin {"E", "M"}
  BY DEF Replying
<1>2. CASE Writers(c, a) = {}
  <2>1. /\ waiters' = [waiters EXCEPT ![c][a] = <<>>] /\ CacheStep(c, lines, out, {})
        /\ toCache' = Answered(c)
    BY <1>2 DEF Reply, Answered
  <2> QED BY <2>1, ReplyServesTidy
<1>3. CASE Writers(c, a) # {} /\ lines[a].st = "S"
  <2> DEFINE ws == SubSeq(waiters[c][a], Min(Writers(c, a)), Len(waiters[c][a]))
  <2>1. waiters' = [waiters EXCEPT ![c][a] = ws] /\ toCache' = Answered(c)
    BY <1>1, <1>3 DEF Reply, Answered
  <2>2. UpgradeStep(c, a, lines, out)
    BY <1>1, <1>3 DEF Reply, UpgradeStep
  <2>3. ws \in Seq(Waiter)
    BY <1>3, FirstWriter, CacheTypes
  <2> HIDE DEF ws
  <2> QED BY <1>3, <2>1, <2>2, <2>3, ReplyUpgradesTidy
<1>4. CASE Writers(c, a) # {} /\ lines[a].st # "S"
  <2>1. lines[a].st \in {"E", "M"}
    BY <1>1, <1>4
  <2>2. /\ waiters' = [waiters EXCEPT ![c][a] = <<>>] /\ CacheStep(c, lines, out, {a})
        /\ toCache' = [k \in Llcs |-> OldMsgs(Answered(c)[k], a)]
    BY <1>1, <1>4, <2>1 DEF Reply, Answered
  <2> QED BY <2>1, <2>2, ReplyStoresTidy
<1> QED BY <1>2, <1>3, <1>4

(* What a reply with data finds: no copy, somebody who waits, and room for the line. *)
LEMMA RoomForLine ==
  ASSUME IInv, Tidy, Roomy, NEW c \in Llcs, NEW a \in Addrs, cache[c][a].st = "I", InUse(c, a)
  PROVE  ~Evicts(c)
<1>1. sys \in Systems
  BY CacheTypes
<1>2. ASSUME NEW b \in Held(c) PROVE b \in Touched
  <2>1. b \in Addrs /\ cache[c][b].st # "I"
    BY DEF Held
  <2>2. PairInv(c, b, cache[c][b].st, waiters[c][b], toCache[c], toDir[c], dir.q[b], dir.e[b])
    BY <2>1, PairsHere DEF PairHere
  <2>3. c \in dir.e[b].sharers
    BY <2>1, <2>2 DEF PairInv, Listed
  <2>4. TidyPair(c, b, cache[c][b].st, waiters[c][b], toCache[c], toDir[c], dir.q[b], dir.e[b])
    BY <2>1, TidyHere
  <2>5. InUse(c, b)
    BY <2>3, <2>4 DEF TidyPair, OnlyUsed
  <2> QED BY <2>5 DEF InUse
<1>3. a \notin Held(c) /\ a \in Touched
  BY DEF Held, InUse
<1>4. Cardinality(Held(c)) \in Nat /\ Cardinality(Held(c)) < Cardinality(Touched)
  BY <1>1, <1>2, <1>3, RoomyFacts, Fewer
<1>5. ~(Cardinality(Held(c)) >= CacheWays)
  BY <1>1, <1>4, RoomyFacts
<1> QED BY <1>5 DEF Evicts

LEMMA ReplyExpected ==
  ASSUME IInv, Tidy, NEW c \in Llcs, toCache[c] # <<>>, NEW a \in Addrs, a = HeadMsg(c).a,
         HeadMsg(c).t \in DataReps
  PROVE  cache[c][a].st = "I" /\ waiters[c][a] # <<>> /\ InUse(c, a)
<1>1. toCache[c] \in Seq(ToCacheMsg)
  BY CacheTypes
<1>2. Has(toCache[c], DataReps, a)
  <2>1. On(Head(toCache[c]), DataReps, a)
    BY DEF On, HeadMsg
  <2> QED BY <1>1, <2>1, PopHas
<1>3. Has(toCache[c], Reps, a)
  BY <1>2, Kinds
<1>4. PairInv(c, a, cache[c][a].st, waiters[c][a], toCache[c], toDir[c], dir.q[a], dir.e[a])
  BY PairsHere DEF PairHere
<1>5. TidyPair(c, a, cache[c][a].st, waiters[c][a], toCache[c], toDir[c], dir.q[a], dir.e[a])
  BY TidyHere
<1> QED BY <1>2, <1>3, <1>4, <1>5 DEF PairInv, OneStake, SomebodyWaits, TidyPair, OnlyUsed

LEMMA DataReplyTidy ==
  ASSUME IInv, Tidy, Roomy, NEW c \in Llcs, NEW v \in Addrs, DataReply(c, v)
  PROVE  Tidy' /\ UNCHANGED failed
<1> DEFINE m == HeadMsg(c)
           a == m.a
           st == IF m.t = "EX_REP" THEN "E" ELSE "S"
           line == Line(st, m.data)
           lines == Inserted(c, a, line, v)
           out == <<>>
<1>1. /\ toCache[c] # <<>> /\ m.t \in {"EX_REP", "SH_REP"} /\ UNCHANGED sys
  BY DEF DataReply, Arrives, HeadMsg
<1>2. /\ m \in ToCacheMsg /\ a \in Addrs
      /\ toCache[c] \in Seq(ToCacheMsg) /\ toDir[c] \in Seq(ToDirMsg)
      /\ \A b \in Addrs : b # a => Alike(toCache[c], Tail(toCache[c]), b)
  BY <1>1, HeadHere
<1>3. cache[c][a].st = "I" /\ waiters[c][a] # <<>> /\ InUse(c, a)
  <2>1. HeadMsg(c).t \in DataReps
    BY <1>1 DEF DataReps
  <2> QED BY <1>1, <1>2, <2>1, ReplyExpected
<1>4. ~Evicts(c)
  <2> HIDE DEF a
  <2> QED BY <1>2, <1>3, RoomForLine
<1>5. Reply(c, a, lines, out) /\ UNCHANGED failed
  <2>1. Evicted(c, v) = out
    BY <1>4 DEF Evicted
  <2>2. Reply(c, a, lines, Evicted(c, v)) /\ UNCHANGED failed
    BY <1>3, <1>4 DEF DataReply
  <2> HIDE DEF lines, out
  <2> QED BY <2>1, <2>2
<1>6. line \in CacheLine /\ line.st = st /\ st \in {"E", "S", "M"}
  BY <1>1, <1>2 DEF Line, CacheLine, CStates, ToCacheMsg, DataReps
<1>7. lines = Inserted(c, a, line, v) /\ m = Head(toCache[c]) /\ a = m.a
  BY DEF HeadMsg
<1>8. st = IF Head(toCache[c]).t = "EX_REP" THEN "E" ELSE "S"
  BY <1>7
<1>9. toDir[c] \o out = toDir[c] /\ out \in Seq(ToDirMsg)
  BY <1>2, NothingSent
<1> HIDE DEF st, line, lines, out, m, a
<1>10. /\ lines \in [Addrs -> CacheLine] /\ lines[a] = line
       /\ \A b \in Addrs : b # a => lines[b] = cache[c][b]
  BY <1>2, <1>3, <1>4, <1>6, <1>7, InsertedIs
<1> DEFINE s == toCache[c]
           z == Tail(toCache[c])
           r == toDir[c]
<1>11. ASSUME NEW b \in Addrs, b # a
       PROVE  /\ PairInv(c, b, lines[b].st, waiters[c][b], z, r, dir.q[b], dir.e[b])
              /\ TidyPair(c, b, lines[b].st, waiters[c][b], z, r, dir.q[b], dir.e[b])
  <2>1. /\ PairInv(c, b, cache[c][b].st, waiters[c][b], s, r, dir.q[b], dir.e[b])
        /\ TidyPair(c, b, cache[c][b].st, waiters[c][b], s, r, dir.q[b], dir.e[b])
    BY PairsHere, TidyHere DEF PairHere
  <2>2. Alike(s, z, b) /\ Alike(r, r, b) /\ lines[b] = cache[c][b]
    BY <1>2, <1>10, <1>11, AlikeSelf
  <2> HIDE DEF s, z, r
  <2>3. /\ PairInv(c, b, cache[c][b].st, waiters[c][b], z, r, dir.q[b], dir.e[b])
        /\ TidyPair(c, b, cache[c][b].st, waiters[c][b], z, r, dir.q[b], dir.e[b])
    BY <2>1, <2>2, PairElsewhere, TidyUnmoved
  <2> QED BY <2>2, <2>3
<1>12. /\ PairInv(c, a, "I", waiters[c][a], s, r, dir.q[a], dir.e[a])
       /\ TidyPair(c, a, "I", waiters[c][a], s, r, dir.q[a], dir.e[a])
  <2>1. /\ PairInv(c, a, cache[c][a].st, waiters[c][a], s, r, dir.q[a], dir.e[a])
        /\ TidyPair(c, a, cache[c][a].st, waiters[c][a], s, r, dir.q[a], dir.e[a])
    BY <1>2, PairsHere, TidyHere DEF PairHere
  <2> QED BY <1>3, <2>1
<1>13. s # <<>> /\ Head(s).a = a /\ Head(s).t \in DataReps /\ s \in Seq(ToCacheMsg)
  BY <1>1, <1>2, <1>7 DEF DataReps
<1>14. st = (IF Head(s).t = "EX_REP" THEN "E" ELSE "S") /\ z = Tail(s)
  BY <1>8
<1>15. ASSUME NEW vs
       PROVE  /\ PairInv(c, a, st, vs, z, r, dir.q[a], dir.e[a]) /\ Idle(c, a, z, r, dir.q[a])
              /\ TidyPair(c, a, st, vs, z, r, dir.q[a], dir.e[a])
  <2> HIDE DEF s, z, r
  <2>1. PairInv(c, a, st, vs, z, r, dir.q[a], dir.e[a]) /\ Idle(c, a, z, r, dir.q[a])
    BY <1>12, <1>13, <1>14, PairTakesData
  <2>2. TidyPair(c, a, st, vs, z, r, dir.q[a], dir.e[a])
    BY <1>12, <1>13, <1>14, TidyTakesData
  <2> QED BY <2>1, <2>2
<1>16. lines[a].st \in {"E", "S", "M"} /\ lines[a].st = st
  BY <1>6, <1>10
<1>17. Replying(c, a, lines, out)
  BY <1>9, <1>11, <1>15, <1>16 DEF Replying
<1>18. ReplyingTidy(c, a, lines, out)
  BY <1>3, <1>9, <1>11, <1>15, <1>16 DEF ReplyingTidy
<1>19. Tidy'
  BY <1>1, <1>2, <1>5, <1>9, <1>10, <1>17, <1>18, ReplyTidy
<1> QED BY <1>5, <1>19

LEMMA UpgradeReplyTidy ==
  ASSUME IInv, Tidy, NEW c \in Llcs, UpgradeReply(c) PROVE Tidy' /\ UNCHANGED failed
<1> DEFINE m == HeadMsg(c)
           a == m.a
           lines == [cache[c] EXCEPT ![a].st = "M"]
           out == <<>>
           s == toCache[c]
           z == Tail(toCache[c])
           r == toDir[c]
<1>1. s # <<>> /\ m.t = "UPGRADE_REP" /\ UNCHANGED sys
  BY DEF UpgradeReply, Arrives, HeadMsg
<1>2. /\ m \in ToCacheMsg /\ a \in Addrs /\ s \in Seq(ToCacheMsg) /\ r \in Seq(ToDirMsg)
      /\ cache[c] \in [Addrs -> CacheLine]
      /\ \A b \in Addrs : b # a => Alike(s, z, b)
  BY <1>1, HeadHere
<1>3. cache[c][a].st = "SU"
  <2>1. TidyPair(c, a, cache[c][a].st, waiters[c][a], s, r, dir.q[a], dir.e[a])
    BY <1>2, TidyHere
  <2>2. On(Head(s), {"UPGRADE_REP"}, a)
    BY <1>1 DEF On, HeadMsg
  <2>3. Has(s, {"UPGRADE_REP"}, a)
    <3> HIDE DEF s
    <3> QED BY <1>1, <1>2, <2>2, PopHas
  <2> QED BY <2>1, <2>3 DEF TidyPair, UpgradeExpected
<1>4. Reply(c, a, lines, out) /\ UNCHANGED failed
  BY <1>3 DEF UpgradeReply
<1>5. lines = [cache[c] EXCEPT ![a].st = "M"] /\ m = Head(s) /\ a = m.a /\ z = Tail(s) /\ s = toCache[c]
  BY DEF HeadMsg
<1>6. toDir[c] \o out = r /\ out \in Seq(ToDirMsg)
  BY <1>2, NothingSent
<1> HIDE DEF lines, out, m, a
<1>7. /\ lines \in [Addrs -> CacheLine] /\ lines[a].st = "M"
      /\ \A b \in Addrs : b # a => lines[b] = cache[c][b]
  <2>1. a \in Addrs /\ cache[c] \in [Addrs -> CacheLine] /\ cache[c][a].st # "I"
    BY <1>2, <1>3
  <2>2. "M" \in CStates
    BY DEF CStates
  <2> QED BY <1>5, <2>1, <2>2, StateSet
<1>8. ASSUME NEW b \in Addrs, b # a
      PROVE  /\ PairInv(c, b, lines[b].st, waiters[c][b], z, r, dir.q[b], dir.e[b])
             /\ TidyPair(c, b, lines[b].st, waiters[c][b], z, r, dir.q[b], dir.e[b])
  <2>1. /\ PairInv(c, b, cache[c][b].st, waiters[c][b], s, r, dir.q[b], dir.e[b])
        /\ TidyPair(c, b, cache[c][b].st, waiters[c][b], s, r, dir.q[b], dir.e[b])
    BY PairsHere, TidyHere DEF PairHere
  <2>2. Alike(s, z, b) /\ Alike(r, r, b) /\ lines[b] = cache[c][b]
    BY <1>2, <1>7, <1>8, AlikeSelf
  <2> HIDE DEF s, z, r
  <2>3. /\ PairInv(c, b, cache[c][b].st, waiters[c][b], z, r, dir.q[b], dir.e[b])
        /\ TidyPair(c, b, cache[c][b].st, waiters[c][b], z, r, dir.q[b], dir.e[b])
    BY <2>1, <2>2, PairElsewhere, TidyUnmoved
  <2> QED BY <2>2, <2>3
<1>9. /\ PairInv(c, a, "SU", waiters[c][a], s, r, dir.q[a], dir.e[a])
      /\ TidyPair(c, a, "SU", waiters[c][a], s, r, dir.q[a], dir.e[a])
  <2>1. /\ PairInv(c, a, cache[c][a].st, waiters[c][a], s, r, dir.q[a], dir.e[a])
        /\ TidyPair(c, a, cache[c][a].st, waiters[c][a], s, r, dir.q[a], dir.e[a])
    BY <1>2, PairsHere, TidyHere DEF PairHere
  <2> QED BY <1>3, <2>1
<1>10. s # <<>> /\ Head(s).a = a /\ Head(s).t = "UPGRADE_REP" /\ s \in Seq(ToCacheMsg) /\ z = Tail(s)
  BY <1>1, <1>2, <1>5
<1>11. ASSUME NEW vs
       PROVE  /\ PairInv(c, a, "M", vs, z, r, dir.q[a], dir.e[a]) /\ Idle(c, a, z, r, dir.q[a])
              /\ TidyPair(c, a, "M", vs, z, r, dir.q[a], dir.e[a])
  <2> HIDE DEF s, z, r
  <2>1. PairInv(c, a, "M", vs, z, r, dir.q[a], dir.e[a]) /\ Idle(c, a, z, r, dir.q[a])
    BY <1>9, <1>10, PairUpgraded
  <2>2. TidyPair(c, a, "M", vs, z, r, dir.q[a], dir.e[a])
    BY <1>9, <1>10, TidyUpgraded
  <2> QED BY <2>1, <2>2
<1>12. InUse(c, a)
  BY <1>9 DEF PairInv, Listed, TidyPair, OnlyUsed
<1>13. Replying(c, a, lines, out)
  BY <1>6, <1>7, <1>8, <1>11 DEF Replying
<1>14. ReplyingTidy(c, a, lines, out)
  BY <1>6, <1>7, <1>8, <1>11, <1>12 DEF ReplyingTidy
<1>15. Tidy'
  BY <1>1, <1>2, <1>4, <1>6, <1>7, <1>13, <1>14, ReplyTidy
<1> QED BY <1>4, <1>15

(* A request from the directory is taken, with no copy to answer for. *)
LEMMA IgnoredTidy ==
  ASSUME IInv, Tidy, NEW c \in Llcs, toCache[c] # <<>>,
         HeadMsg(c).t \in {"INV_REQ", "FLUSH_REQ", "WB_REQ"},
         Consume(c), UNCHANGED <<sys, cache, waiters, toDir, dir>>
  PROVE  Tidy'
<1> DEFINE s == toCache[c]
           z == Tail(toCache[c])
           r == toDir[c]
           out == <<>>
           lines == cache[c]
<1>1. s \in Seq(ToCacheMsg) /\ r \in Seq(ToDirMsg)
  BY HeadHere
<1>2. toCache'[c] = z /\ OthersKept(c, toCache')
  BY ConsumeIs
<1>3. r \o out = r
  BY <1>1, NothingSent
<1>4. s # <<>> /\ Head(s).t # "UPGRADE_REP" /\ z = Tail(s)
  BY DEF HeadMsg
<1>5. /\ cache' = [k \in Llcs |-> IF k = c THEN lines ELSE cache[k]]
      /\ toDir' = [k \in Llcs |-> IF k = c THEN toDir[k] \o out ELSE toDir[k]]
  <2>1. cache \in [Llcs -> [Addrs -> CacheLine]] /\ toDir \in [Llcs -> Seq(ToDirMsg)]
    BY CacheTypes
  <2> HIDE DEF out
  <2> QED BY <1>3, <2>1
<1>6. ASSUME NEW b \in Addrs
      PROVE  TidyPair(c, b, lines[b].st, waiters[c][b], z, r, dir.q[b], dir.e[b])
  <2>1. TidyPair(c, b, lines[b].st, waiters[c][b], s, r, dir.q[b], dir.e[b])
    BY TidyHere
  <2> HIDE DEF s, z, r, out, lines
  <2> QED BY <1>1, <1>4, <2>1, TidyPopped
<1>7. TidiesAfter(c, lines, toCache'[c], toDir[c] \o out)
  <2> HIDE DEF z, out, lines
  <2> QED BY <1>2, <1>3, <1>6 DEF TidiesAfter
<1> HIDE DEF s, z, r, out, lines
<1> QED BY <1>2, <1>5, <1>7, TidyMoved

(* A request from the directory is answered. *)
LEMMA AnsweredForTidy ==
  ASSUME IInv, Tidy, NEW c \in Llcs, toCache[c] # <<>>, NEW lines \in [Addrs -> CacheLine],
         NEW x \in ToDirMsg, NEW a \in Addrs, a = HeadMsg(c).a, x.a = a,
         \A b \in Addrs : b # a => lines[b] = cache[c][b],
         TidyPair(c, a, lines[a].st, waiters[c][a], Tail(toCache[c]), Append(toDir[c], x),
                  dir.q[a], dir.e[a]),
         CacheStep(c, lines, <<x>>, {}), Consume(c), UNCHANGED <<sys, waiters>>
  PROVE  Tidy'
<1> DEFINE s == toCache[c]
           z == Tail(toCache[c])
           r == toDir[c]
           y == Append(toDir[c], x)
           out == <<x>>
<1>1. s \in Seq(ToCacheMsg) /\ r \in Seq(ToDirMsg)
  BY HeadHere
<1>2. \A b \in Addrs : b # a => Alike(s, z, b)
  BY HeadHere
<1>3. toCache'[c] = z /\ OthersKept(c, toCache') /\ UNCHANGED <<sys, waiters>>
  BY ConsumeIs
<1>4. r \o out = y
  BY <1>1, OneSent
<1>5. ASSUME NEW b \in Addrs
      PROVE  TidyPair(c, b, lines[b].st, waiters[c][b], z, y, dir.q[b], dir.e[b])
  <2>1. CASE b = a
    BY <2>1
  <2>2. CASE b # a
    <3>1. TidyPair(c, b, cache[c][b].st, waiters[c][b], s, r, dir.q[b], dir.e[b])
      BY TidyHere
    <3>2. Alike(s, z, b) /\ Alike(r, y, b) /\ lines[b] = cache[c][b]
      BY <1>1, <1>2, <2>2, PushOther
    <3> HIDE DEF s, z, r, y, out
    <3>3. TidyPair(c, b, cache[c][b].st, waiters[c][b], z, y, dir.q[b], dir.e[b])
      BY <3>1, <3>2, TidyUnmoved
    <3> QED BY <3>2, <3>3
  <2> QED BY <2>1, <2>2
<1>6. CacheStep(c, lines, out, {})
  OBVIOUS
<1>7. TidiesAfter(c, lines, toCache'[c], toDir[c] \o out)
  <2>1. toDir[c] \o out = y
    BY <1>4
  <2> HIDE DEF s, z, r, y, out
  <2> QED BY <1>3, <1>5, <2>1 DEF TidiesAfter
<1> HIDE DEF s, z, r, y, out
<1> QED BY <1>3, <1>6, <1>7, TidyPlain

(* A copy that the directory asks for: the front request calls for it, and no grant of an *)
(* upgrade follows.                                                              *)
LEMMA AskExpected ==
  ASSUME IInv, Tidy, NEW c \in Llcs, toCache[c] # <<>>, NEW a \in Addrs, a = HeadMsg(c).a,
         HeadMsg(c).t \in {"INV_REQ", "FLUSH_REQ"}, cache[c][a].st # "I"
  PROVE  /\ CallsFor(dir.q[a], c) /\ ~Has(Tail(toCache[c]), {"UPGRADE_REP"}, a)
         /\ HeadMsg(c).t = "INV_REQ" => dir.e[a].st = "S" /\ cache[c][a].st # "M"
<1> DEFINE s == toCache[c]
           z == Tail(toCache[c])
           r == toDir[c]
           q == dir.q[a]
           e == dir.e[a]
           m == HeadMsg(c)
           st == cache[c][a].st
<1>1. /\ PairInv(c, a, st, waiters[c][a], s, r, q, e) /\ TidyPair(c, a, st, waiters[c][a], s, r, q, e)
      /\ (st # "I") = TRUE /\ st # "I"
  BY PairsHere, TidyHere DEF PairHere
<1>2. s \in Seq(ToCacheMsg) /\ s # <<>> /\ m = Head(s) /\ z = Tail(s)
  BY CacheTypes DEF HeadMsg
<1>3. FrontWaits(q, e) /\ TidyFront(q, e) /\ q \in Seq(DirReq)
  BY CacheTypes DEF IInv, Lines, LineInv, Tidy, TidyLine, Directory
<1>4. On(m, {"INV_REQ", "FLUSH_REQ"}, a) /\ On(m, {m.t}, a)
  BY DEF On
<1>5. m.t \in {"INV_REQ", "FLUSH_REQ"}
  OBVIOUS
<1> HIDE DEF s, z, r, q, e, m, st
<1>6. /\ Has(s, {m.t}, a)
      /\ Has(z, {"UPGRADE_REP"}, a) => Behind(s, {"INV_REQ", "FLUSH_REQ"}, {"UPGRADE_REP"}, a)
  BY <1>2, <1>4, PopHas
<1>7. ~Has(z, {"UPGRADE_REP"}, a)
  BY <1>1, <1>6 DEF TidyPair, UpgradeExpected
<1>8. CASE m.t = "INV_REQ"
  <2>1. Live(s, {"INV_REQ"}, a, TRUE)
    BY <1>6, <1>8 DEF Live
  <2>2. e.st = "S" /\ CallsFor(q, c)
    BY <1>1, <2>1 DEF TidyPair, Called
  <2>3. st # "M"
    BY <1>1, <2>2 DEF PairInv, OwnerKnown
  <2> QED BY <1>7, <2>2, <2>3 DEF z, q, e, m, st
<1>9. CASE m.t = "FLUSH_REQ"
  <2>1. Live(s, {"FLUSH_REQ"}, a, TRUE)
    BY <1>6, <1>9 DEF Live
  <2>2. q # <<>> /\ Head(q).t # "SH_REQ" /\ ~Head(q).wait /\ Head(q).c # c
    BY <1>1, <2>1 DEF PairInv, FlushUnderWay
  <2>3. Head(q) = q[1] /\ 1 \in DOMAIN q /\ q[1] \in DirReq
    BY <1>3, <2>2
  <2>4. Head(q).from = NoCore
    BY <1>3, <2>2, <2>3 DEF FrontWaits
  <2>5. Head(q).t \in {"EX_REQ", "UPGRADE_REQ"}
    BY <1>3, <2>2, <2>3 DEF TidyFront, DirReq, Reqs
  <2>6. CallsFor(q, c)
    BY <2>2, <2>4, <2>5 DEF CallsFor, Granted
  <2> QED BY <1>7, <1>9, <2>6 DEF z, q, e, m, st
<1> QED BY <1>5, <1>8, <1>9

LEMMA GivesUpTidy ==
  ASSUME IInv, Tidy, NEW c \in Llcs, toCache[c] # <<>>, NEW a \in Addrs, a = HeadMsg(c).a,
         HeadMsg(c).t \in {"INV_REQ", "FLUSH_REQ"}, cache[c][a].st # "I",
         NEW x \in ToDirMsg, x.a = a, x.t \in Gives, x.t = "INV_REP" => HeadMsg(c).t = "INV_REQ",
         CacheStep(c, [cache[c] EXCEPT ![a] = Absent], <<x>>, {}), Consume(c), UNCHANGED <<sys, waiters>>
  PROVE  Tidy'
<1> DEFINE lines == [cache[c] EXCEPT ![a] = Absent]
           s == toCache[c]
           z == Tail(toCache[c])
           r == toDir[c]
           q == dir.q[a]
           e == dir.e[a]
           st == cache[c][a].st
<1>1. /\ cache[c] \in [Addrs -> CacheLine] /\ s \in Seq(ToCacheMsg) /\ r \in Seq(ToDirMsg)
      /\ s # <<>> /\ Head(s).t # "UPGRADE_REP" /\ z = Tail(s) /\ st # "I"
  BY HeadHere DEF HeadMsg
<1>2. /\ lines \in [Addrs -> CacheLine] /\ lines[a].st = "I"
      /\ \A b \in Addrs : b # a => lines[b] = cache[c][b]
  <2>1. lines = [cache[c] EXCEPT ![a] = Absent]
    OBVIOUS
  <2> HIDE DEF lines
  <2> QED BY <1>1, <2>1, AbsentIs, LineSet
<1>3. TidyPair(c, a, st, waiters[c][a], s, r, q, e)
  BY TidyHere
<1>4. CallsFor(q, c) /\ ~Has(z, {"UPGRADE_REP"}, a) /\ (x.t = "INV_REP" => e.st = "S")
  BY AskExpected
<1>5. CacheStep(c, lines, <<x>>, {})
  OBVIOUS
<1>6. TidyPair(c, a, "I", waiters[c][a], z, Append(r, x), q, e)
  <2> HIDE DEF lines, s, z, r, q, e, st
  <2>1. TidyPair(c, a, st, waiters[c][a], z, r, q, e)
    BY <1>1, <1>3, TidyPopped
  <2> QED BY <1>1, <1>4, <2>1, TidyReleases
<1>7. TidyPair(c, a, lines[a].st, waiters[c][a], Tail(toCache[c]), Append(toDir[c], x), dir.q[a], dir.e[a])
  BY <1>2, <1>6
<1> HIDE DEF lines, s, z, r, q, e, st
<1> QED BY <1>2, <1>5, <1>7, AnsweredForTidy

LEMMA InvalidateTidy ==
  ASSUME IInv, Tidy, NEW c \in Llcs, Invalidate(c) PROVE Tidy' /\ UNCHANGED failed
<1> DEFINE a == HeadMsg(c).a
           st == cache[c][a].st
           x == Msg("INV_REP", a, NoData)
<1>1. toCache[c] # <<>> /\ HeadMsg(c).t = "INV_REQ" /\ UNCHANGED sys
  BY DEF Invalidate, Arrives, HeadMsg
<1>2. a \in Addrs
  BY <1>1, HeadHere
<1>3. CASE st = "I"
  <2>1. Consume(c) /\ UNCHANGED <<sys, cache, waiters, toDir, dir, failed>>
    BY <1>1, <1>3 DEF Invalidate
  <2>2. Tidy'
    BY <1>1, <2>1, IgnoredTidy
  <2> QED BY <2>1, <2>2
<1>4. CASE st # "I"
  <2>1. st # "M"
    BY <1>1, <1>2, <1>4, AskExpected
  <2>2. /\ CacheStep(c, [cache[c] EXCEPT ![a] = Absent], <<x>>, {})
        /\ Consume(c) /\ UNCHANGED <<sys, waiters, failed>>
    BY <1>1, <1>4, <2>1 DEF Invalidate, InvStateAfter
  <2>3. x \in ToDirMsg /\ x.a = a /\ x.t \in Gives
    BY <1>2 DEF Msg, ToDirMsg, Gives, Data
  <2>4. a = HeadMsg(c).a /\ cache[c][a].st # "I"
    BY <1>4
  <2> HIDE DEF a, st, x
  <2>5. Tidy'
    BY <1>1, <1>2, <2>2, <2>3, <2>4, GivesUpTidy
  <2> QED BY <2>2, <2>5
<1> QED BY <1>3, <1>4

LEMMA FlushLineTidy ==
  ASSUME IInv, Tidy, NEW c \in Llcs, FlushLine(c) PROVE Tidy' /\ UNCHANGED failed
<1> DEFINE a == HeadMsg(c).a
           st == cache[c][a].st
           x == Msg("FLUSH_REP", a, cache[c][a].data)
<1>1. /\ toCache[c] # <<>> /\ HeadMsg(c).t = "FLUSH_REQ" /\ UNCHANGED <<sys, waiters, failed>>
      /\ Consume(c)
  BY DEF FlushLine, Arrives, HeadMsg
<1>2. a \in Addrs /\ cache[c] \in [Addrs -> CacheLine]
  BY <1>1, HeadHere
<1>3. CASE st = "I"
  <2>1. UNCHANGED <<sys, cache, waiters, toDir, dir>>
    BY <1>1, <1>3 DEF FlushLine
  <2>2. Tidy'
    BY <1>1, <2>1, IgnoredTidy
  <2> QED BY <1>1, <2>2
<1>4. CASE st # "I"
  <2>1. CacheStep(c, [cache[c] EXCEPT ![a] = Absent], <<x>>, {})
    BY <1>4 DEF FlushLine
  <2>2. x \in ToDirMsg /\ x.a = a /\ x.t \in Gives /\ x.t # "INV_REP"
    <3>1. cache[c][a].data \in Data /\ cache[c][a].data # NoData
      BY <1>2, <1>4 DEF CacheLine
    <3> QED BY <1>2, <3>1 DEF Msg, ToDirMsg, Gives
  <2>3. a = HeadMsg(c).a /\ cache[c][a].st # "I"
    BY <1>4
  <2> HIDE DEF a, st, x
  <2>4. Tidy'
    BY <1>1, <1>2, <2>1, <2>2, <2>3, GivesUpTidy
  <2> QED BY <1>1, <2>4
<1> QED BY <1>3, <1>4

LEMMA WriteBackTidy ==
  ASSUME IInv, Tidy, NEW c \in Llcs, WriteBack(c) PROVE Tidy' /\ UNCHANGED failed
<1> DEFINE a == HeadMsg(c).a
           st == cache[c][a].st
           new == WriteBackState(st)
           data == IF st = "SU" THEN Uninit ELSE cache[c][a].data
           x == Msg("WB_REP", a, data)
           lines == [cache[c] EXCEPT ![a].st = new]
<1>1. /\ toCache[c] # <<>> /\ HeadMsg(c).t = "WB_REQ" /\ UNCHANGED <<sys, waiters, failed>>
      /\ Consume(c)
  BY DEF WriteBack, Arrives, HeadMsg
<1>2. a \in Addrs /\ cache[c] \in [Addrs -> CacheLine] /\ toDir[c] \in Seq(ToDirMsg)
      /\ toCache[c] \in Seq(ToCacheMsg)
  BY <1>1, HeadHere
<1>3. CASE st = "I"
  <2>1. UNCHANGED <<sys, cache, waiters, toDir, dir>>
    BY <1>1, <1>3 DEF WriteBack
  <2>2. Tidy'
    BY <1>1, <2>1, IgnoredTidy
  <2> QED BY <1>1, <2>2
<1>4. CASE st # "I"
  <2>1. CacheStep(c, lines, <<x>>, {})
    BY <1>4 DEF WriteBack
  <2>2. new = (IF st = "SU" THEN "SU" ELSE "S") /\ new \in CStates
    BY DEF WriteBackState, CStates
  <2>3. /\ lines \in [Addrs -> CacheLine] /\ lines[a].st = new
        /\ \A b \in Addrs : b # a => lines[b] = cache[c][b]
    <3>1. lines = [cache[c] EXCEPT ![a].st = new]
      OBVIOUS
    <3>2. /\ a \in Addrs /\ cache[c] \in [Addrs -> CacheLine] /\ new \in CStates
          /\ cache[c][a].st # "I"
      BY <1>2, <1>4, <2>2
    <3> HIDE DEF lines, a, new
    <3> QED BY <3>1, <3>2, StateSet
  <2>4. x \in ToDirMsg /\ x.a = a /\ x.t = "WB_REP"
    <3>1. cache[c][a].data \in Data /\ cache[c][a].data # NoData
      BY <1>2, <1>4 DEF CacheLine
    <3>2. data \in Data /\ data # NoData
      BY <3>1 DEF Data, Uninit, NoData
    <3> HIDE DEF data
    <3> QED BY <1>2, <3>2 DEF Msg, ToDirMsg
  <2> DEFINE s == toCache[c]
             z == Tail(toCache[c])
             r == toDir[c]
  <2>5. TidyPair(c, a, st, waiters[c][a], s, r, dir.q[a], dir.e[a])
    BY <1>2, TidyHere
  <2>6. s # <<>> /\ Head(s).t = "WB_REQ" /\ st # "I"
        /\ s \in Seq(ToCacheMsg) /\ r \in Seq(ToDirMsg) /\ z = Tail(s)
    BY <1>1, <1>2, <1>4 DEF HeadMsg
  <2>7. TidyPair(c, a, new, waiters[c][a], z, Append(r, x), dir.q[a], dir.e[a])
    <3> HIDE DEF a, st, new, data, x, lines, s, z, r
    <3>1. TidyPair(c, a, new, waiters[c][a], Tail(s), Append(r, x), dir.q[a], dir.e[a])
      BY <2>2, <2>4, <2>5, <2>6, TidyWritesOut
    <3> QED BY <2>6, <3>1
  <2>8. TidyPair(c, a, lines[a].st, waiters[c][a], Tail(toCache[c]), Append(toDir[c], x),
                 dir.q[a], dir.e[a])
    <3> HIDE DEF lines, new
    <3> QED BY <2>3, <2>7
  <2>9. a = HeadMsg(c).a
    OBVIOUS
  <2> HIDE DEF a, st, new, data, x, lines
  <2>10. Tidy'
    BY <1>1, <1>2, <2>1, <2>3, <2>4, <2>8, <2>9, AnsweredForTidy
  <2> QED BY <1>1, <2>10
<1> QED BY <1>3, <1>4

-----------------------------------------------------------------------------
(* In a system with room Tidy is inductive, and no step stops the simulator. *)
LEMMA InitTidy == Init => Tidy
<1> SUFFICES ASSUME Init PROVE Tidy
  OBVIOUS
<1>1. PICK junk \in Llcs \union {NoCore} : dir = InitDirectory(junk)
  BY DEF Init
<1> DEFINE e == NewEntry(junk)
<1>2. e.st = "U" /\ e.sharers = {}
  BY DEF NewEntry
<1>3. /\ dir.slots = {} /\ dir.replaced = {}
      /\ \A a \in Addrs : dir.e[a] = e /\ dir.q[a] = <<>>
  BY <1>1 DEF InitDirectory
<1>4. \A a \in Addrs, k \in Llcs : /\ cache[k][a].st = "I" /\ waiters[k][a] = <<>>
                                   /\ toCache[k] = <<>> /\ toDir[k] = <<>>
  BY AbsentIs DEF Init
<1> HIDE DEF e
<1>5. TidyFront(<<>>, e)
  BY <1>2 DEF TidyFront
<1>6. ASSUME NEW a, NEW k PROVE TidyPair(k, a, "I", <<>>, <<>>, <<>>, <<>>, e)
  <2> DEFINE none == <<>>
  <2>1. /\ \A T : ~Has(none, T, a) /\ ~Live(none, T, a, FALSE)
        /\ \A T, U : ~Behind(none, T, U, a)
    BY EmptyQueue
  <2>2. ("I" # "I") = FALSE /\ ~Upgrading(none, k)
    BY DEF Upgrading
  <2> HIDE DEF none
  <2>3. Called(k, a, "I", none, none, none, e) /\ UpgradeExpected(k, a, "I", none, none, none)
    BY <2>1, <2>2 DEF Called, UpgradeExpected
  <2>4. SharedKnown(a, "I", none, none, e)
    BY <2>1 DEF SharedKnown
  <2>5. OnlyUsed(k, a, <<>>, e)
    BY <1>2 DEF OnlyUsed
  <2> QED BY <2>3, <2>4, <2>5 DEF TidyPair, none
<1>7. ASSUME NEW a \in Addrs PROVE TidyLine(a, dir.q[a], dir.e[a], toCache, toDir)
  BY <1>3, <1>4, <1>5, <1>6 DEF TidyLine
<1> QED BY <1>3, <1>7 DEF Tidy, TidySlots

LEMMA SameSystem == [Next]_vars => UNCHANGED sys
<1>1. \A th \in Threads : UserStep(th) => UNCHANGED sys
  <2>1. \A th, a : WriteHit(th, a) => UNCHANGED sys
    BY DEF WriteHit
  <2>2. \A th, a, ex : Miss(th, a, ex) => UNCHANGED sys
    BY Zenon DEF Miss
  <2> QED BY <2>1, <2>2, Zenon DEF UserStep
<1>2. \A c \in Llcs : CacheThread(c) => UNCHANGED sys
  BY DEF CacheThread, DataReply, UpgradeReply, Invalidate, FlushLine, WriteBack
<1>3. \A c \in Llcs : DirThread(c) => UNCHANGED sys
  BY DEF DirThread, DirHandles
<1>4. \A a \in Addrs : DramThread(a) => UNCHANGED sys
  BY DEF DramThread, DramReplies
<1> QED BY <1>1, <1>2, <1>3, <1>4 DEF Next, vars

LEMMA TidyUnchanged == ASSUME Tidy, UNCHANGED vars PROVE Tidy'
<1>1. Users' = Users /\ Touched' = Touched
  BY DEF vars, Users, Touched, LlcOf, Uses
<1>2. TidySlots(dir) /\ \A a \in Addrs : TidyFront(dir.q[a], dir.e[a])
  BY DEF Tidy, TidyLine
<1>3. \A a \in Addrs, k \in Llcs :
          TidyPair(k, a, cache[k][a].st, waiters[k][a], toCache[k], toDir[k], dir.q[a], dir.e[a])
  BY TidyHere
<1> QED BY <1>2, <1>3, TidyAfter DEF vars

LEMMA NextTidy == IInv /\ Tidy /\ Roomy /\ [Next]_vars => Tidy' /\ UNCHANGED failed
<1> SUFFICES ASSUME IInv, Tidy, Roomy, [Next]_vars PROVE Tidy' /\ UNCHANGED failed
  OBVIOUS
<1>1. CASE UNCHANGED vars
  BY <1>1, TidyUnchanged DEF vars
<1>2. ASSUME NEW th \in Threads, UserStep(th) PROVE Tidy' /\ UNCHANGED failed
  <2>1. PICK a \in Uses[th] : WriteHit(th, a) \/ \E ex \in BOOLEAN : Miss(th, a, ex)
    BY <1>2 DEF UserStep
  <2>2. a \in Addrs
    BY ThreadsCache
  <2> QED BY <2>1, <2>2, WriteHitTidy, MissTidy
<1>3. ASSUME NEW c \in Llcs, CacheThread(c) PROVE Tidy' /\ UNCHANGED failed
  BY <1>3, DataReplyTidy, UpgradeReplyTidy, InvalidateTidy, FlushLineTidy, WriteBackTidy
     DEF CacheThread
<1>4. ASSUME NEW c \in Llcs, DirThread(c) PROVE Tidy' /\ UNCHANGED failed
  BY <1>4, DirHandlesTidy DEF DirThread
<1>5. ASSUME NEW a \in Addrs, DramThread(a) PROVE Tidy' /\ UNCHANGED failed
  BY <1>5, DramRepliesTidy DEF DramThread
<1> QED BY <1>1, <1>2, <1>3, <1>4, <1>5 DEF Next

(* The inductive invariant; the system is chosen once, so room does not come or go. *)
RoomyTidy == Roomy => Tidy /\ NoAssertionFails
LEMMA RoomyStays ==
  ASSUME IInv, RoomyTidy, [Next]_vars PROVE RoomyTidy'
<1>1. Roomy' <=> Roomy
  BY SameSystem DEF Roomy, Users, Touched, LlcOf, Uses, CacheWays, DirWays, MaxHwSharers
<1>2. CASE Roomy
  <2>1. Tidy /\ NoAssertionFails
    BY <1>2 DEF RoomyTidy
  <2>2. Tidy' /\ UNCHANGED failed
    BY <1>2, <2>1, NextTidy
  <2>3. NoAssertionFails'
    BY <2>1, <2>2 DEF NoAssertionFails
  <2> QED BY <2>2, <2>3 DEF RoomyTidy
<1>3. CASE ~Roomy
  BY <1>1, <1>3 DEF RoomyTidy
<1> QED BY <1>2, <1>3

(* Where nobody is ever out of room, no assertion of either controller fails,       *)
(* whatever crosses on the way: no reply reaches a line that is cached or that       *)
(* nobody waits for, no upgrade a line that is not SHARED_UPGRADING, no           *)
(* invalidation a MODIFIED line, and the directory finds in processShReq,           *)
(* processExReq, processUpgradeReq and the handlers of INV_REP, FLUSH_REP and       *)
(* WB_REP the states, sharers and requests that their asserts expect.           *)
THEOREM NoAssertionFailsCorrect == Spec => [](Roomy => NoAssertionFails)
<1>1. Init => RoomyTidy
  BY InitTidy DEF Init, RoomyTidy, NoAssertionFails
<1>2. IInv /\ RoomyTidy /\ [Next]_vars => RoomyTidy'
  BY RoomyStays
<1>3. RoomyTidy => (Roomy => NoAssertionFails)
  BY DEF RoomyTidy
<1> QED BY <1>1, <1>2, <1>3, Invariant, PTL DEF Spec

=============================================================================
