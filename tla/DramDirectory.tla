--------------------------- MODULE DramDirectory ---------------------------
(***************************************************************************)
(* The directory controller of Sniper's parametric_dram_directory_msi      *)
(* memory subsystem: dram_directory_cntlr.cc, dram_directory_cache.cc and  *)
(* the directory entries.  One home node, one set of DirWays entries, no   *)
(* NUCA slice.  Every handler is an operator from a directory to a          *)
(* directory; what it sends is collected in "out", in order.  A handler      *)
(* that is done with a request goes on with the next one in the queue        *)
(* (Settle).                                                               *)
(***************************************************************************)
EXTENDS Integers, SequencesExt

CONSTANTS
    Llcs,          \* last-level caches, by the number of their master core
    Addrs,         \* cache-line addresses of one directory set
    Systems        \* the machines the configuration files describe

ASSUME DirectoryAssumption ==
    /\ Llcs \subseteq Nat /\ IsFiniteSet(Llcs) /\ IsFiniteSet(Addrs)
    /\ \A s \in Systems : /\ s.protocol \in {"msi", "mesi", "mesif"}
                          /\ {s.dirWays, s.maxHwSharers} \subseteq Nat \ {0}

VARIABLE sys                         \* the machine that is simulated

Protocol == sys.protocol             \* cache coherency protocol
DirWays == sys.dirWays               \* associativity of the directory
MaxHwSharers == sys.maxHwSharers     \* sharers an entry can hold

NoCore == -1
NoFailure == "ok"      \* no assertion has failed
NoData == "none"       \* no data buffer
Fresh  == "fresh"      \* the value of the last write
Stale  == "stale"      \* an older value
Uninit == "uninit"     \* an uninitialised buffer: any value
Data == {NoData, Fresh, Stale, Uninit}

(* m_forwarder_id is not initialised: it is whatever "junk" says. *)
NewEntry(junk) == [st |-> "U", sharers |-> {}, owner |-> NoCore, fwd |-> junk]

Request(t, c) == [t |-> t, c |-> c, wait |-> FALSE, from |-> NoCore, buf |-> NoData]

InitDirectory(junk) ==
    [slots |-> {}, replaced |-> {}, junk |-> junk,
     e |-> [a \in Addrs |-> NewEntry(junk)], q |-> [a \in Addrs |-> <<>>],
     mem |-> [a \in Addrs |-> Fresh], reply |-> [a \in Addrs |-> <<>>]]

(* A directory at work: "out" collects messages, "err" the first assertion   *)
(* that fails; "next" says that the next request is to be started; "victim"  *)
(* and "one" are the choices of the replacement pointer and of getOneSharer. *)
Working(d, victim, one) ==
    [d |-> d, out |-> [c \in Llcs |-> <<>>], err |-> NoFailure, next |-> FALSE,
     victim |-> victim, one |-> one]

Assert_(w, cond, what) ==
    IF cond \/ w.err # NoFailure THEN w ELSE [w EXCEPT !.err = what]

Msg(t, a, data) == [t |-> t, a |-> a, data |-> data]

SendAll(w, cs, t, a) ==
    [w EXCEPT !.out = [c \in Llcs |-> IF c \in cs THEN Append(w.out[c], Msg(t, a, NoData))
                                                  ELSE w.out[c]]]
Send(w, c, t, a, data) ==
    IF c \in Llcs THEN [w EXCEPT !.out[c] = Append(@, Msg(t, a, data))]
                  ELSE Assert_(w, FALSE, "message to no core")

FrontReq(w, a) == Head(w.d.q[a])
Dstate(w, a) == w.d.e[a].st
Sharers(w, a) == w.d.e[a].sharers

HasEntry(w, a) == a \in w.d.slots \union w.d.replaced

(* getDirectoryEntry claims a free slot for an address that has none. *)
getDirectoryEntry(w, a) ==
    IF a \in w.d.slots \/ Cardinality(w.d.slots) >= DirWays THEN w
    ELSE [w EXCEPT !.d.slots = @ \union {a}, !.d.e[a] = NewEntry(w.d.junk)]

addSharer(w, a, c) == [w EXCEPT !.d.e[a].sharers = @ \union {c}]
removeSharer(w, a, c) ==
    LET rest == Sharers(w, a) \ {c}
    IN  [Assert_(w, c \in Sharers(w, a), "removeSharer of a core that is none")
            EXCEPT !.d.e[a].sharers = rest, !.d.e[a].st = IF rest = {} THEN "U" ELSE @]

sendDataToDram(w, a, data) == [w EXCEPT !.d.mem[a] = data]

(* The request is done: dequeue it and start the next one. *)
processNextReq(w, a) ==
    [w EXCEPT !.d.q[a] = Tail(@), !.next = Len(w.d.q[a]) > 1]

(* The entry is there: processDirectoryEntryAllocationReq has put it aside. *)
processNullifyReq(w, a) ==
    CASE Dstate(w, a) \in {"E", "M"} -> Send(w, w.d.e[a].owner, "FLUSH_REQ", a, NoData)
      [] Dstate(w, a) = "S"          -> SendAll(w, Sharers(w, a), "INV_REQ", a)
      [] Dstate(w, a) = "U"          ->
             processNextReq(Assert_([w EXCEPT !.d.replaced = @ \ {a}], a \in w.d.replaced,
                                    "invalidateDirectoryEntry"), a)

(* Entries that may be replaced, and among them those with fewest sharers. *)
Replaceable(w) == {v \in w.d.slots : w.d.q[v] = <<>>}
Candidates(w) ==
    {v \in Replaceable(w) : \A x \in Replaceable(w) :
         Cardinality(Sharers(w, v)) <= Cardinality(Sharers(w, x))}

(* Entry v makes room for a; its own NULLIFY_REQ is the only request it has. *)
Replace(w, v, a) ==
    [w EXCEPT !.d.slots = (@ \ {v}) \union {a}, !.d.replaced = @ \union {v},
              !.d.e[a] = NewEntry(w.d.junk),
              !.d.q[v] = Append(@, Request("NULLIFY_REQ", NoCore))]

processDirectoryEntryAllocationReq(w, a) ==
    LET cs == Candidates(w)
        v == IF w.victim \in cs THEN w.victim ELSE CHOOSE x \in cs : TRUE
    IN  IF cs = {} THEN Assert_(w, FALSE, "no directory entry to be replaced")
        ELSE processNullifyReq(Replace(w, v, a), v)

(* getDirectoryEntry in a request: another entry is replaced if need be. *)
OrAllocate(w, a) == IF HasEntry(w, a) THEN w ELSE processDirectoryEntryAllocationReq(w, a)
WithEntry(w, a) == OrAllocate(getDirectoryEntry(w, a), a)

(* Answer from the data at hand, from the forwarder, or after a DRAM read.   *)
(* The read's value is fixed here: DRAM serves requests in order.            *)
retrieveDataAndSend(w, t, c, a, buf) ==
    LET fwd == w.d.e[a].fwd
    IN  CASE buf # NoData ->
                 processNextReq(Send([w EXCEPT !.d.e[a].fwd = c], c, t, a, buf), a)
          [] /\ buf = NoData /\ Protocol = "mesif" /\ FrontReq(w, a).from = NoCore
             /\ Dstate(w, a) = "S" /\ fwd # NoCore ->
                 Send([w EXCEPT !.d.q[a][1].from = fwd], fwd, "WB_REQ", a, NoData)
          [] OTHER -> [w EXCEPT !.d.q[a][1].wait = TRUE, !.d.reply[a] = Append(@, w.d.mem[a])]

(* The requester becomes the only sharer and the owner. *)
Grant(w, a, c, st) ==
    [addSharer(w, a, c) EXCEPT !.d.e[a].owner = c, !.d.e[a].st = st]

(* The three requests, at an address that has an entry. *)
processExReq(w, a, buf) ==
    LET c == FrontReq(w, a).c
        idle == Assert_(w, buf = NoData, "data for a cached line")
    IN  CASE Dstate(w, a) \in {"E", "M"} -> Send(idle, w.d.e[a].owner, "FLUSH_REQ", a, NoData)
          [] Dstate(w, a) = "S"          -> SendAll(idle, Sharers(w, a), "INV_REQ", a)
          [] Dstate(w, a) = "U"          ->
                 retrieveDataAndSend(Grant(w, a, c, "M"), "EX_REP", c, a, buf)

(* addSharer fails on an entry that holds all the sharers it can. *)
EntryFull(w, a) == Cardinality(Sharers(w, a)) >= MaxHwSharers

processShReq(w, a, buf) ==
    LET c == FrontReq(w, a).c
        idle == Assert_(w, buf = NoData /\ (Dstate(w, a) = "E" => c # w.d.e[a].owner),
                        "WB_REQ with data, or to the requester")
        full == EntryFull(w, a)
        one == IF w.one \in Sharers(w, a) THEN w.one ELSE CHOOSE x \in Sharers(w, a) : TRUE
    IN  CASE Dstate(w, a) \in {"E", "M"} -> Send(idle, w.d.e[a].owner, "WB_REQ", a, NoData)
          [] Dstate(w, a) = "S" /\ c \in Sharers(w, a) ->
                 retrieveDataAndSend(w, "SH_REP", c, a, buf)
          [] Dstate(w, a) = "S" /\ c \notin Sharers(w, a) /\ full ->
                 Send(w, one, "INV_REQ", a, NoData)
          [] Dstate(w, a) = "S" /\ c \notin Sharers(w, a) /\ ~full ->
                 retrieveDataAndSend(addSharer(w, a, c), "SH_REP", c, a, buf)
          [] Dstate(w, a) = "U" /\ Protocol = "msi" ->
                 retrieveDataAndSend(Grant(w, a, c, "S"), "SH_REP", c, a, buf)
          [] Dstate(w, a) = "U" /\ Protocol # "msi" ->
                 retrieveDataAndSend(Grant(w, a, c, "E"), "EX_REP", c, a, buf)

(* Invalidate the other sharers; when the requester has lost its copy the    *)
(* first of them is flushed, to get at the data.                            *)
InvalidateOthers(w, a, c) ==
    LET others == Sharers(w, a) \ {c}
        first == Min(others)
    IN  IF c \in Sharers(w, a) THEN SendAll(w, others, "INV_REQ", a)
        ELSE Send(SendAll(w, others \ {first}, "INV_REQ", a), first, "FLUSH_REQ", a, NoData)

UpgradeDoneBeforeInvalidation(w, a) == FrontReq(w, a).c \in Sharers(w, a)
UpgradeDone(w, a) == Sharers(w, a) = {FrontReq(w, a).c}

processUpgradeReq(w, a, buf) ==
    LET c == FrontReq(w, a).c
        data == IF buf = NoData THEN FrontReq(w, a).buf ELSE buf
        upgraded == Send([w EXCEPT !.d.e[a].owner = c, !.d.e[a].st = "M"],
                         c, "UPGRADE_REP", a, NoData)
    IN  CASE Dstate(w, a) \in {"E", "M"} ->
                 IF Min(Sharers(w, a)) = c
                 THEN processNextReq(Assert_(upgraded, w.d.e[a].owner = c,
                                             "upgrade by no owner"), a)
                 ELSE Send(w, w.d.e[a].owner, "FLUSH_REQ", a, NoData)
          [] Dstate(w, a) = "S" -> IF UpgradeDone(w, a) THEN processNextReq(upgraded, a)
                                                        ELSE InvalidateOthers(w, a, c)
          [] Dstate(w, a) = "U" -> retrieveDataAndSend(Grant(w, a, c, "M"), "EX_REP", c, a, data)

processFront(w, a) ==
    CASE FrontReq(w, a).t = "EX_REQ" -> processExReq(w, a, NoData)
      [] FrontReq(w, a).t = "SH_REQ" -> processShReq(w, a, NoData)
      [] FrontReq(w, a).t = "UPGRADE_REQ" -> processUpgradeReq(w, a, NoData)
      [] FrontReq(w, a).t = "NULLIFY_REQ" -> Assert_(w, FALSE, "Unrecognized Request")

(* A failed assertion stops the simulator: nothing follows it. *)
StartReq(w, a) ==
    LET ready == WithEntry([w EXCEPT !.next = FALSE], a)
    IN  IF ready.err # NoFailure THEN ready ELSE processFront(ready, a)
GoesOn(w) == w.next /\ w.err = NoFailure

(* processNextReqFromL2Cache: a request that is done is followed by the next   *)
(* one.  That one can only be done at once if it is the upgrade of the only    *)
(* sharer, and then the request after it has to wait for that owner: the       *)
(* recursion is two deep at most.                                            *)
Settle(w, a) ==
    LET first == StartReq(w, a)
    IN  CASE ~GoesOn(w)                      -> w
          [] GoesOn(w) /\ ~GoesOn(first)    -> first
          [] GoesOn(w) /\ GoesOn(first)     -> StartReq(first, a)

(* handleMsgFromL2Cache for the three requests. *)
EnqueueReq(w0, c, m) ==
    LET w == [getDirectoryEntry(w0, m.a) EXCEPT !.d.q[m.a] = Append(@, Request(m.t, c))]
    IN  IF w0.d.q[m.a] = <<>> THEN StartReq(w, m.a) ELSE w

DramReplied(w, a, data) ==
    LET r == FrontReq(w, a)
        t == IF r.t = "SH_REQ" /\ Dstate(w, a) # "E" THEN "SH_REP" ELSE "EX_REP"
        ok == CASE r.t = "SH_REQ" -> Dstate(w, a) \in {"S", "E"}
                [] r.t = "EX_REQ" -> Dstate(w, a) = "M"
                [] OTHER          -> r.t = "UPGRADE_REQ"
    IN  IF w.d.q[a] = <<>> THEN Assert_(w, FALSE, "DRAM reply to nobody")
        ELSE processNextReq(Send(Assert_(w, ok /\ HasEntry(w, a), "DRAM reply in a wrong state"),
                                 r.c, t, a, data), a)

processDRAMReply(w, a) ==
    Settle(DramReplied(getDirectoryEntry([w EXCEPT !.d.reply[a] = Tail(@)], a), a,
                       Head(w.d.reply[a])), a)

(* Whether a voluntary invalidation is none of the front request's business. *)
KeepsWaiting(r, sender) == r.wait \/ (r.from # NoCore /\ sender # r.from)

(* The sharer's entry is cleared first, then the front request goes on. *)
Invalidated(w0, c, a) ==
    LET w == Assert_(w0, HasEntry(w0, a) /\ Dstate(w0, a) \in {"S", "E"}, "Ooops")
    IN  [removeSharer(w, a, c) EXCEPT !.d.e[a].fwd = IF @ = c THEN NoCore ELSE @]

AfterInv(w, c, a) ==
    LET r == FrontReq(w, a)
    IN  CASE w.d.q[a] = <<>> -> w
          [] w.d.q[a] # <<>> /\ r.t = "EX_REQ" ->
                 IF Dstate(w, a) = "U" THEN processExReq(w, a, NoData) ELSE w
          [] w.d.q[a] # <<>> /\ r.t = "UPGRADE_REQ" ->
                 IF Sharers(w, a) \subseteq {r.c} THEN processUpgradeReq(w, a, NoData) ELSE w
          [] w.d.q[a] # <<>> /\ r.t = "SH_REQ" ->
                 IF KeepsWaiting(r, c) THEN w ELSE processShReq(w, a, NoData)
          [] w.d.q[a] # <<>> /\ r.t = "NULLIFY_REQ" ->
                 IF Dstate(w, a) = "U" THEN processNullifyReq(w, a) ELSE w

processInvRep(w, c, a) == AfterInv(Invalidated(getDirectoryEntry(w, a), c, a), c, a)

Flushed(w0, c, a) ==
    LET w == removeSharer(Assert_(w0, HasEntry(w0, a), "flush without entry"), a, c)
    IN  [Assert_(w, Dstate(w, a) \in {"U", "S"}, "flush leaves sharers")
            EXCEPT !.d.e[a].fwd = NoCore, !.d.e[a].owner = NoCore]

AfterFlush(w, a, data) ==
    LET r == FrontReq(w, a)
    IN  CASE w.d.q[a] = <<>> -> sendDataToDram(w, a, data)
          [] w.d.q[a] # <<>> /\ r.t = "EX_REQ" -> processExReq(w, a, data)
          [] w.d.q[a] # <<>> /\ r.t = "SH_REQ" ->
                 processShReq(sendDataToDram(w, a, data), a, data)
          [] w.d.q[a] # <<>> /\ r.t = "UPGRADE_REQ" ->
                 IF Dstate(w, a) = "U" THEN processUpgradeReq(w, a, data)
                 ELSE [w EXCEPT !.d.q[a][1].buf = data]
          [] w.d.q[a] # <<>> /\ r.t = "NULLIFY_REQ" ->
                 processNullifyReq(sendDataToDram(w, a, data), a)

processFlushRep(w, c, a, data) == AfterFlush(Flushed(getDirectoryEntry(w, a), c, a), a, data)

WrittenBack(w0, c, a) ==
    [Assert_(w0, HasEntry(w0, a) /\ c \in Sharers(w0, a), "WB_REP of no sharer")
        EXCEPT !.d.e[a].owner = NoCore, !.d.e[a].st = "S"]

AfterWb(w, a, data) ==
    IF w.d.q[a] # <<>> /\ FrontReq(w, a).t = "SH_REQ" THEN processShReq(w, a, data)
    ELSE Assert_(w, FALSE, "WB_REP to no SH_REQ")

processWbRep(w, c, a, data) == AfterWb(WrittenBack(getDirectoryEntry(w, a), c, a), a, data)

Handled(w, c, m) ==
    CASE m.t \in {"EX_REQ", "SH_REQ", "UPGRADE_REQ"} -> EnqueueReq(w, c, m)
      [] m.t = "INV_REP"   -> processInvRep(w, c, m.a)
      [] m.t = "FLUSH_REP" -> processFlushRep(w, c, m.a, m.data)
      [] m.t = "WB_REP"    -> processWbRep(w, c, m.a, m.data)

handleMsgFromL2Cache(w, c, m) == Settle(Handled(w, c, m), m.a)
=============================================================================
