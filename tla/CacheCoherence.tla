--------------------------- MODULE CacheCoherence ---------------------------
(***************************************************************************)
(* The cache controllers of Sniper's coherence protocol (cache_cntlr.cc)   *)
(* around one DramDirectory.  A last-level cache and the private levels     *)
(* before it are one cache; the user threads of the cores that share it      *)
(* queue up in m_directory_waiters.  Each node's network thread handles one   *)
(* message at a time, with the stack lock held; the transport is a FIFO       *)
(* queue.                                                                   *)
(***************************************************************************)
EXTENDS DramDirectory

CONSTANT Threads    \* user threads

ASSUME CacheAssumption ==
    \A s \in Systems : /\ s.llcOf \in [Threads -> Llcs] /\ s.cacheWays \in Nat \ {0}
                       /\ s.uses \in [Threads -> SUBSET Addrs]

LlcOf == sys.llcOf          \* the last-level cache a thread's core uses
CacheWays == sys.cacheWays  \* lines of Addrs a cache can hold
Uses == sys.uses            \* a bound: the addresses a thread accesses

VARIABLES
    cache,      \* state and data of every line in every cache
    waiters,    \* m_directory_waiters: threads and whether they want to write
    toDir,      \* messages from a cache to the directory
    toCache,    \* messages from the directory to a cache
    dir,        \* the directory, with DRAM behind it
    failed      \* the assertion that stopped the simulator, if any

vars == <<sys, cache, waiters, toDir, toCache, dir, failed>>

CStates == {"I", "S", "SU", "E", "M"}

Line(st, data) == [st |-> st, data |-> data]
Absent == Line("I", NoData)

Init ==
    /\ sys \in Systems
    /\ cache = [c \in Llcs |-> [a \in Addrs |-> Absent]]
    /\ waiters = [c \in Llcs |-> [a \in Addrs |-> <<>>]]
    /\ toDir = [c \in Llcs |-> <<>>] /\ toCache = [c \in Llcs |-> <<>>]
    /\ \E junk \in Llcs \union {NoCore} :
           /\ Protocol # "mesif" => junk = NoCore
           /\ dir = InitDirectory(junk)
    /\ failed = NoFailure

Waiting(th) == \E a \in Addrs : \E i \in DOMAIN waiters[LlcOf[th]][a] :
                   waiters[LlcOf[th]][a][i].th = th
Held(c) == {a \in Addrs : cache[c][a].st # "I"}

(* An assertion that fails stops the simulator. *)
Stop(what) == failed' = what /\ UNCHANGED <<cache, waiters, toDir, toCache, dir>>

-----------------------------------------------------------------------------
(* History: a store makes every other copy of the line old, in caches, in    *)
(* messages, in DRAM and in requests.                                        *)
Old(data) == IF data \in {NoData, Uninit} THEN data ELSE Stale
OldMsgs(s, a) == [i \in DOMAIN s |-> IF s[i].a = a THEN [s[i] EXCEPT !.data = Old(@)] ELSE s[i]]
OldReqs(q) == [i \in DOMAIN q |-> [q[i] EXCEPT !.buf = Old(@)]]
OldDir(d, a) == [d EXCEPT !.mem[a] = Stale, !.reply[a] = [i \in DOMAIN @ |-> Stale],
                          !.q[a] = OldReqs(@)]

(* The lines of cache c become "lines", and out is sent to the directory;     *)
(* "store" is the set of addresses (one at most) that a thread of c wrote.   *)
CacheStep(c, lines, out, store) ==
    LET old(s) == IF store = {} THEN s ELSE OldMsgs(s, CHOOSE a \in store : TRUE)
        fresh(x) == [a \in Addrs |-> IF a \in store THEN Line("M", Fresh) ELSE x[a]]
        dim(x) == [a \in Addrs |-> IF a \in store THEN [x[a] EXCEPT !.data = Old(@)] ELSE x[a]]
    IN  /\ cache' = [k \in Llcs |-> IF k = c THEN fresh(lines) ELSE dim(cache[k])]
        /\ toDir' = [k \in Llcs |-> old(IF k = c THEN toDir[k] \o out ELSE toDir[k])]
        /\ dir' = IF store = {} THEN dir ELSE OldDir(dir, CHOOSE a \in store : TRUE)

-----------------------------------------------------------------------------
(* A thread writes a line its cache owns; EXCLUSIVE is upgraded silently.     *)
(* Reads that hit change nothing.                                           *)
WriteHit(th, a) ==
    LET c == LlcOf[th]
    IN  /\ failed = NoFailure /\ ~Waiting(th) /\ cache[c][a].st \in {"E", "M"}
        /\ CacheStep(c, cache[c], <<>>, {a})
        /\ toCache' = [k \in Llcs |-> OldMsgs(toCache[k], a)]
        /\ UNCHANGED <<sys, waiters, failed>>

Permissible(st, ex) == IF ex THEN st \in {"E", "M"} ELSE st \in {"S", "E", "M"}

(* initiateDirectoryAccess: the first thread to miss on a line sends the       *)
(* request, the others only queue up.                                        *)
Miss(th, a, ex) ==
    LET c == LlcOf[th]
        st == cache[c][a].st
        first == waiters[c][a] = <<>>
        t == CASE ex /\ st = "S" -> "UPGRADE_REQ"
               [] ex /\ st # "S" -> "EX_REQ"
               [] ~ex            -> "SH_REQ"
    IN  /\ failed = NoFailure /\ ~Waiting(th) /\ ~Permissible(st, ex)
        /\ IF first /\ t = "EX_REQ" /\ st # "I" THEN Stop("ExReq for a cached line")
           ELSE /\ waiters' = [waiters EXCEPT ![c][a] = Append(@, [th |-> th, ex |-> ex])]
                /\ toDir' = IF first THEN [toDir EXCEPT ![c] = Append(@, Msg(t, a, NoData))]
                                     ELSE toDir
                /\ cache' = IF first /\ t = "UPGRADE_REQ" THEN [cache EXCEPT ![c][a].st = "SU"]
                                                          ELSE cache
                /\ UNCHANGED <<toCache, dir, failed>>
        /\ UNCHANGED sys

-----------------------------------------------------------------------------
(* Messages from the directory. *)

(* The victim of an insertion: no line being upgraded, if there are two others. *)
(* The only other one may be the most recently used, which the search passes   *)
(* over; the victim is then whatever is in way 0.                             *)
Victims(c) == LET free == {v \in Held(c) : cache[c][v].st # "SU"}
              IN  IF Cardinality(free) <= 1 THEN Held(c) ELSE free

EvictMsg(c, v) == Msg(IF cache[c][v].st = "M" THEN "FLUSH_REP" ELSE "INV_REP", v,
                      IF cache[c][v].st = "M" THEN cache[c][v].data ELSE NoData)

(* insertCacheBlock: the lines after inserting a, and the eviction's message. *)
Evicts(c) == Cardinality(Held(c)) >= CacheWays
Inserted(c, a, line, v) ==
    [x \in Addrs |-> IF x = a THEN line ELSE IF Evicts(c) /\ x = v THEN Absent ELSE cache[c][x]]
Evicted(c, v) == IF Evicts(c) THEN <<EvictMsg(c, v)>> ELSE <<>>

(* The loop over the waiters: in a SHARED line readers are served up to the   *)
(* first writer, for which the line is upgraded; an owned line serves all.   *)
Writers(c, a) == {i \in DOMAIN waiters[c][a] : waiters[c][a][i].ex}

UpgradeForgotten(a) == <<>>
UpgradeForWriter(a) == <<Msg("UPGRADE_REQ", a, NoData)>>

Reply(c, a, lines, out) ==
    LET w == waiters[c][a]
        upgrade == Writers(c, a) # {} /\ lines[a].st = "S"
        rest == IF upgrade THEN SubSeq(w, Min(Writers(c, a)), Len(w)) ELSE <<>>
        store == IF Writers(c, a) # {} /\ lines[a].st \in {"E", "M"} THEN {a} ELSE {}
    IN  /\ waiters' = [waiters EXCEPT ![c][a] = rest]
        /\ IF upgrade
           THEN CacheStep(c, [lines EXCEPT ![a].st = "SU"],
                          out \o UpgradeForWriter(a), {})
           ELSE CacheStep(c, lines, out, store)
        /\ toCache' = [k \in Llcs |->
               LET s == IF k = c THEN Tail(toCache[k]) ELSE toCache[k]
               IN  IF store = {} THEN s ELSE OldMsgs(s, a)]

Arrives(c, types) == failed = NoFailure /\ toCache[c] # <<>> /\ Head(toCache[c]).t \in types
HeadMsg(c) == Head(toCache[c])
Consume(c) == toCache' = [toCache EXCEPT ![c] = Tail(@)]

DataReply(c, v) ==
    LET m == HeadMsg(c)
        line == Line(IF m.t = "EX_REP" THEN "E" ELSE "S", m.data)
    IN  /\ Arrives(c, {"EX_REP", "SH_REP"})
        /\ Evicts(c) => v \in Victims(c)
        /\ CASE cache[c][m.a].st # "I" -> Stop("we already have this line")
             [] waiters[c][m.a] = <<>> -> Stop("reply to nobody")
             [] Evicts(c) /\ cache[c][v].st = "SU" -> Stop("evict_state")
             [] OTHER -> Reply(c, m.a, Inserted(c, m.a, line, v), Evicted(c, v))
                         /\ UNCHANGED failed
        /\ UNCHANGED sys

UpgradeReply(c) ==
    LET a == HeadMsg(c).a
    IN  /\ Arrives(c, {"UPGRADE_REP"})
        /\ IF cache[c][a].st = "SU"
           THEN Reply(c, a, [cache[c] EXCEPT ![a].st = "M"], <<>>) /\ UNCHANGED failed
           ELSE Stop("Trying to upgrade a block that is not SHARED_UPGRADING")
        /\ UNCHANGED sys

(* INV_REQ, FLUSH_REQ, WB_REQ.  A line that is gone is not answered for: the   *)
(* eviction's message is on its way.                                          *)
InvStateAfterIgnored(st) == st
InvStateAfter(st) == "I"

Invalidate(c) ==
    LET a == HeadMsg(c).a
        st == cache[c][a].st
    IN  /\ Arrives(c, {"INV_REQ"})
        /\ CASE st = "I" -> Consume(c) /\ UNCHANGED <<cache, waiters, toDir, dir, failed>>
             [] st = "M" -> Stop("MODIFIED data is about to get lost!")
             [] OTHER -> /\ Consume(c)
                         /\ CacheStep(c, [cache[c] EXCEPT ![a] = IF InvStateAfter(st) = "I"
                                                                 THEN Absent ELSE @],
                                      <<Msg("INV_REP", a, NoData)>>, {})
                         /\ UNCHANGED <<waiters, failed>>
        /\ UNCHANGED sys

FlushLine(c) ==
    LET a == HeadMsg(c).a
    IN  /\ Arrives(c, {"FLUSH_REQ"})
        /\ Consume(c)
        /\ IF cache[c][a].st = "I" THEN UNCHANGED <<cache, toDir, dir>>
           ELSE CacheStep(c, [cache[c] EXCEPT ![a] = Absent],
                          <<Msg("FLUSH_REP", a, cache[c][a].data)>>, {})
        /\ UNCHANGED <<sys, waiters, failed>>

(* A line being upgraded keeps its state, and its data is not copied into the  *)
(* reply's buffer.                                                            *)
WriteBackStateShared(st) == "S"
WriteBackState(st) == IF st = "SU" THEN "SU" ELSE "S"

WriteBack(c) ==
    LET a == HeadMsg(c).a
        line == cache[c][a]
    IN  /\ Arrives(c, {"WB_REQ"})
        /\ Consume(c)
        /\ IF line.st = "I" THEN UNCHANGED <<cache, toDir, dir>>
           ELSE CacheStep(c, [cache[c] EXCEPT ![a].st = WriteBackState(@)],
                          <<Msg("WB_REP", a, IF line.st = "SU" THEN Uninit ELSE line.data)>>, {})
        /\ UNCHANGED <<sys, waiters, failed>>

-----------------------------------------------------------------------------
(* The directory's node. *)
DirStep(w, rest) ==
    IF w.err # NoFailure THEN Stop(w.err)
    ELSE /\ dir' = w.d /\ toDir' = rest
         /\ toCache' = [c \in Llcs |-> toCache[c] \o w.out[c]]
         /\ UNCHANGED <<cache, waiters, failed>>

DirHandles(c, victim, one) ==
    /\ failed = NoFailure /\ toDir[c] # <<>>
    /\ \E w \in {handleMsgFromL2Cache(Working(dir, victim, one), c, Head(toDir[c]))} :
           DirStep(w, [toDir EXCEPT ![c] = Tail(@)])
    /\ UNCHANGED sys

DramReplies(a, victim, one) ==
    /\ failed = NoFailure /\ dir.reply[a] # <<>>
    /\ \E w \in {processDRAMReply(Working(dir, victim, one), a)} : DirStep(w, toDir)
    /\ UNCHANGED sys

UserStep(th) == \E a \in Uses[th] : WriteHit(th, a) \/ \E ex \in BOOLEAN : Miss(th, a, ex)
CacheThread(c) == \/ \E v \in Addrs : DataReply(c, v)
                  \/ UpgradeReply(c) \/ Invalidate(c) \/ FlushLine(c) \/ WriteBack(c)
DirThread(c) == \E v \in Addrs, o \in Llcs : DirHandles(c, v, o)
DramThread(a) == \E v \in Addrs, o \in Llcs : DramReplies(a, v, o)

Next == \/ \E th \in Threads : UserStep(th)
        \/ \E c \in Llcs : CacheThread(c) \/ DirThread(c)
        \/ \E a \in Addrs : DramThread(a)

Spec == Init /\ [][Next]_vars

-----------------------------------------------------------------------------
(* Type correctness; with it, that no thread waits twice and that no more      *)
(* lines than ways are cached.                                               *)
TypeOK ==
    /\ \A c \in Llcs : /\ Cardinality(Held(c)) <= CacheWays
                       /\ \A a \in Addrs : cache[c][a].st \in CStates /\ cache[c][a].data \in Data
    /\ Cardinality(dir.slots) <= DirWays /\ dir.slots \intersect dir.replaced = {}
    /\ \A a \in Addrs : /\ Cardinality(dir.e[a].sharers) <= MaxHwSharers
                        /\ dir.e[a].st \in {"U", "S", "E", "M"}

(* A line that one cache may write is in no other cache: single writer or       *)
(* multiple readers, with requests, evictions and directory replacements of    *)
(* all caches in flight.                                                     *)
SingleWriter ==
    \A a \in Addrs, c \in Llcs :
        cache[c][a].st \in {"E", "M"} => \A k \in Llcs \ {c} : cache[k][a].st = "I"

(* The directory knows every copy: a cached line has an entry that lists the    *)
(* cache, although entries are replaced and caches evict silently.             *)
DirectoryKnowsCopies ==
    \A a \in Addrs, c \in Llcs :
        cache[c][a].st # "I" => /\ a \in dir.slots \union dir.replaced
                                /\ c \in dir.e[a].sharers

(* No assertion of either controller fails, whatever crosses on the way:       *)
(* eviction against invalidation, upgrade against upgrade, write-back against   *)
(* flush.                                                                    *)
NoAssertionFails == failed = NoFailure

(* What a cache holds is the last value written to the line: a load that hits    *)
(* reads what the last store wrote, whichever cache stored it.                  *)
(* retrieveDataAndSendToL2Cache takes data that no cache sent from DRAM ("Will  *)
(* have to get it from DRAM anyway"), so DRAM must have got what WB_REP and      *)
(* FLUSH_REP brought.                                                         *)
CopiesFresh ==
    \A a \in Addrs, c \in Llcs : cache[c][a].st # "I" => cache[c][a].data = Fresh

(* Nobody is ever out of room: the caches and the directory hold every line that   *)
(* is accessed, and an entry lists every cache.                               *)
Users == {LlcOf[th] : th \in Threads}
Touched == UNION {Uses[th] : th \in Threads}
Roomy ==
    /\ Cardinality(Touched) <= CacheWays /\ Cardinality(Touched) <= DirWays
    /\ Cardinality(Users) <= MaxHwSharers

(* It does hold between two last-level caches that have room: what passes from one  *)
(* to the other is passed with the request, and nobody reads DRAM later.  (A      *)
(* sharer invalidated for room, or a replaced directory entry, takes the only     *)
(* new copy with it: INV_REP brings no data.)                                  *)
PairFresh == Roomy /\ Cardinality(Users) <= 2 => CopiesFresh

(* No request is forgotten: when nothing is in flight any more, nobody waits at    *)
(* a cache and the directory has no request queued, whatever overtook the         *)
(* messages they waited for.                                                   *)
QuietMeansServed ==
    /\ failed = NoFailure
    /\ \A c \in Llcs : toDir[c] = <<>> /\ toCache[c] = <<>>
    /\ \A a \in Addrs : dir.reply[a] = <<>>
    => \A a \in Addrs : dir.q[a] = <<>> /\ \A c \in Llcs : waiters[c][a] = <<>>

(* No cache line is filled from an uninitialised buffer: the data that the       *)
(* directory passes on "was filled by a WB_REQ or FLUSH_REQ".                   *)
FilledByReply ==
    \A a \in Addrs, c \in Llcs : cache[c][a].data # Uninit
=============================================================================
