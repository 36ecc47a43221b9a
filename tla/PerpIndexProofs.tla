--------------------------- MODULE PerpIndexProofs ---------------------------
(***************************************************************************)
(* Proofs about the perp indexer, the reconciliation and the confirmation, *)
(* for any number of transactions, requests, blocks and forks.             *)
(*                                                                         *)
(* A tick that has read its range relies on an argument about forks:       *)
(* ReadsFit says that a block hash a tick holds can only name the block it *)
(* was read from, and that the logs are still those of the chain if the    *)
(* last block is.  MatchesFit joins the links that are stored with the     *)
(* verdicts still to be written, and ConfirmsFit carries what a            *)
(* confirmation has read and booked across its awaits.                     *)
(***************************************************************************)
EXTENDS PerpIndex, NumberFacts

\* A transaction is on the chain once, and no block is from a later fork.
ChainFits ==
    /\ \A h \in 1 .. Len(chain) : chain[h].fork <= forks /\ chain[h].index <= forks /\ (chain[h].ok => chain[h].tx # None)
    /\ \A g, h \in 1 .. Len(chain) : chain[g].tx # None /\ chain[g].tx = chain[h].tx => g = h

ReadFits(t) ==
    /\ t.pc = "tohash" => t.to >= 1
    /\ t.pc \in {"logs", "recheck", "persist"} =>
        /\ t.to >= 1 /\ t.toHash # None /\ t.toHash <= forks
        /\ t.toHash = forks => t.to <= Len(chain)
    /\ t.pc \in {"recheck", "persist"} =>
        /\ \A e, f \in t.logs : e.tx = f.tx => e = f
        /\ BlockHash(t.to) = t.toHash => t.logs = Logs(From(t), t.to)

ReadsFit == \A p \in Proc : ReadFits(task[p])

\* The unique key of indexed_perp_trades.
EventsFit == \A e, f \in events : Key(e) = Key(f) => e = f

\* A pass works on stored events, and has a verdict when it writes one.
PassFits(t) ==
    /\ t.pc \in {"count", "link"} => \A i \in 1 .. Len(t.todo) : t.todo[i] \in events
    /\ t.pc = "link" => t.verdict # "none"

TodoFits == \A p \in Proc : PassFits(task[p])

\* The events that are matched, or about to be.
Matching(p) == task[p].pc = "link" /\ task[p].verdict = "matched"

Matches ==
    {l.event : l \in {l \in links : l.status = "matched"}} \cup {Key(Head(task[p].todo)) : p \in {p \in Proc : Matching(p)}}

MatchesFit ==
    /\ \A k \in Matches : \E e \in events : Key(e) = k
    /\ \A k, m \in Matches : k[1] = m[1] => k = m

Booking == {"maker", "maker volume", "rebate", "taker", "taker volume"}

Settling == {"v2receipt", "v2block", "v2persist"}

Accounted(t, e) ==
    IF origin[t] = "V2" THEN e \in canonFees
    ELSE t \in feeless \/ \A role \in Roles : <<Key(e), Payer(t, role)>> \in feeEvents

ConfirmFits(t) ==
    /\ t.pc \in Booking => origin[t.tx] # "V2"
    /\ t.pc \in Settling => origin[t.tx] = "V2"
    /\ t.pc \in Booking \cup Settling => t.decision = "confirmed"
    /\ t.pc \in Booking \cup Settling \cup {"apply"} /\ t.decision = "confirmed" => t.event \in MatchedOf(t.tx)
    /\ t.pc \in Booking \ {"maker"} => <<Key(t.event), "maker">> \in feeEvents
    /\ t.pc = "taker volume" => <<Key(t.event), Payer(t.tx, "taker")>> \in feeEvents
    /\ t.pc = "apply" => t.decision # "none"
    /\ t.pc = "apply" /\ t.decision = "confirmed" => t.feeless \/ Accounted(t.tx, t.event)
    /\ t.pc = "apply" /\ t.feeless => t.decision = "confirmed" /\ origin[t.tx] # "V2"
    /\ t.pc \in {"receipt", "height", "decide"} \cup Booking \cup Settling => ~t.feeless

ConfirmsFit == \A p \in Proc : ConfirmFits(task[p])

\* Whoever inserted a fee event and still has to add its volume is alone in that.
VolumeFits ==
    /\ \A p \in Proc, role \in Roles : task[p].pc = VolumePc(role) => Fee(p, role) \notin DOMAIN volume
    /\ \A p, q \in Proc, r, s \in Roles :
        task[p].pc = VolumePc(r) /\ task[q].pc = VolumePc(s) /\ Fee(p, r) = Fee(q, s) => p = q

\* The volume of a stored fee event is counted, lost or owed by someone.
VolumeSplit ==
    /\ \A f \in DOMAIN volume : volume[f] = 1 /\ f \notin lost
    /\ \A p \in Proc, role \in Roles : task[p].pc = VolumePc(role) => Fee(p, role) \notin lost
    /\ \A f \in feeEvents : f \in DOMAIN volume \/ f \in lost \/ \E p \in Proc : Owes(p, f)

Inv ==
    /\ TypeOK /\ ChainFits /\ ReadsFit /\ EventsFit /\ TodoFits /\ MatchesFit /\ ConfirmsFit /\ VolumeFits
    /\ ConfirmedIsAccounted /\ VolumeSplit

Tasks == {Idle} \cup TickTasks \cup MatchTasks \cup ConfirmTasks

-----------------------------------------------------------------------------
(* Tasks and their places.                                                 *)

LEMMA PlaceTells ==
    ASSUME NEW t \in Tasks
    PROVE  /\ t = Idle \/ t.pc # "idle"
           /\ t.pc \in {"verify", "tohash", "logs", "recheck", "persist"} => t \in TickTasks
           /\ t.pc \in {"count", "link"} => t \in MatchTasks
           /\ t.pc \notin {"idle", "verify", "tohash", "logs", "recheck", "persist", "count", "link"} => t \in ConfirmTasks
<1>1. Idle.pc = "idle"
  BY DEF Idle
<1>2. t \in TickTasks => t.pc \in {"verify", "tohash", "logs", "recheck", "persist"}
  BY DEF TickTasks
<1>3. t \in MatchTasks => t.pc \in {"count", "link"}
  BY DEF MatchTasks
<1>4. t \in ConfirmTasks => t.pc \notin {"idle", "verify", "tohash", "logs", "recheck", "persist", "count", "link"}
  BY DEF ConfirmTasks
<1> QED BY <1>1, <1>2, <1>3, <1>4 DEF Tasks

LEMMA IdleFits == Idle \in Tasks /\ Idle.pc = "idle"
BY DEF Tasks, Idle

LEMMA BecomeChanges ==
    ASSUME NEW p \in Proc, NEW t \in Tasks, task \in [Proc -> Tasks], Become(p, t)
    PROVE  task' \in [Proc -> Tasks] /\ task'[p] = t /\ \A q \in Proc \ {p} : task'[q] = task[q]
<1> HIDE DEF Tasks
<1> QED BY DEF Become

\* A place at which a task owes neither a match nor a volume.
Quiet(t) == ~ (t.pc = "link" /\ t.verdict = "matched") /\ t.pc \notin {"maker volume", "taker volume"}

\* A task that owes no volume yet.
Clear(p) == task[p].pc \notin {"maker volume", "taker volume"}

\* What a confirmation relies on is only ever added to.
Grown ==
    /\ UNCHANGED origin /\ feeless \subseteq feeless'
    /\ events \subseteq events' /\ links \subseteq links' /\ feeEvents \subseteq feeEvents' /\ canonFees \subseteq canonFees'

-----------------------------------------------------------------------------
(* What a step of one task keeps of the invariant.                         *)

LEMMA ReadsKept ==
    ASSUME ReadsFit, task \in [Proc -> Tasks], UNCHANGED <<chain, forks>>,
           NEW p \in Proc, NEW t \in Tasks, Become(p, t), ReadFits(t)
    PROVE  ReadsFit'
<1>1. task'[p] = t /\ \A q \in Proc \ {p} : task'[q] = task[q]
  BY BecomeChanges
<1>2. ASSUME NEW u, ReadFits(u)
      PROVE  ReadFits(u)'
  BY <1>2 DEF ReadFits, BlockHash, Logs, From
<1>3. ASSUME NEW q \in Proc
      PROVE  ReadFits(task[q])'
  <2>1. PICK u : u = task'[q]
    OBVIOUS
  <2>2. ReadFits(u)
    BY <1>1, <2>1 DEF ReadsFit
  <2>3. ReadFits(u)'
    BY <1>2, <2>2
  <2> QED BY <2>1, <2>3 DEF ReadFits, BlockHash, Logs, From
<1> QED BY <1>3 DEF ReadsFit

LEMMA TodoKept ==
    ASSUME TodoFits, task \in [Proc -> Tasks], events \subseteq events',
           NEW p \in Proc, NEW t \in Tasks, Become(p, t), PassFits(t)
    PROVE  TodoFits'
<1>1. task'[p] = t /\ \A q \in Proc \ {p} : task'[q] = task[q]
  BY BecomeChanges
<1> QED BY <1>1 DEF TodoFits, PassFits

\* What a confirmation knows stays true.
LEMMA ConfirmStays ==
    ASSUME Grown, NEW t, ConfirmFits(t)
    PROVE  ConfirmFits(t)'
<1>1. MatchedOf(t.tx) \subseteq MatchedOf(t.tx)'
  BY DEF MatchedOf, EventsOf, Grown
<1>2. Accounted(t.tx, t.event) => Accounted(t.tx, t.event)'
  BY DEF Accounted, Payer, Grown
<1>3. UNCHANGED <<Payer(t.tx, "maker"), Payer(t.tx, "taker")>>
  BY DEF Payer, Grown
<1> QED BY <1>1, <1>2, <1>3 DEF ConfirmFits, Grown

LEMMA ConfirmsKept ==
    ASSUME ConfirmsFit, task \in [Proc -> Tasks], Grown,
           NEW p \in Proc, NEW t \in Tasks, Become(p, t), ConfirmFits(t)'
    PROVE  ConfirmsFit'
<1>1. task'[p] = t /\ \A q \in Proc \ {p} : task'[q] = task[q]
  BY BecomeChanges
<1>3. ASSUME NEW q \in Proc
      PROVE  ConfirmFits(task[q])'
  <2>1. PICK u : u = task'[q]
    OBVIOUS
  <2>2. ConfirmFits(u)'
    <3>1. CASE q = p
      BY <3>1, <2>1, <1>1
    <3>2. CASE q # p
      <4>1. ConfirmFits(u)
        BY <3>2, <1>1, <2>1 DEF ConfirmsFit
      <4> QED BY <4>1, ConfirmStays
    <3> QED BY <3>1, <3>2
  <2> QED BY <2>1, <2>2 DEF ConfirmFits, MatchedOf, EventsOf, Accounted, Payer
<1> QED BY <1>3 DEF ConfirmsFit

LEMMA MatchesKept ==
    ASSUME MatchesFit, task \in [Proc -> Tasks], events \subseteq events', UNCHANGED links,
           NEW p \in Proc, NEW t \in Tasks, Become(p, t), Quiet(t)
    PROVE  MatchesFit'
<1>1. task'[p] = t /\ \A q \in Proc \ {p} : task'[q] = task[q]
  BY BecomeChanges
<1>2. Matches' \subseteq Matches
  BY <1>1 DEF Matches, Matching, Quiet
<1> QED BY <1>2 DEF MatchesFit

\* Who is still to add a volume has not changed, and nothing was added.
LEMMA VolumeStays ==
    ASSUME VolumeFits, UNCHANGED volume,
           \A q \in Proc, role \in Roles :
               task'[q].pc = VolumePc(role) => task[q].pc = VolumePc(role) /\ Fee(q, role)' = Fee(q, role)
    PROVE  VolumeFits'
<1>1. ASSUME NEW q \in Proc, NEW role \in Roles, task'[q].pc = VolumePc(role)
      PROVE  Fee(q, role)' \notin DOMAIN volume'
  BY <1>1 DEF VolumeFits
<1>2. ASSUME NEW p \in Proc, NEW q \in Proc, NEW r \in Roles, NEW s \in Roles,
             task'[p].pc = VolumePc(r), task'[q].pc = VolumePc(s), Fee(p, r)' = Fee(q, s)'
      PROVE  p = q
  <2>1. task[p].pc = VolumePc(r) /\ task[q].pc = VolumePc(s) /\ Fee(p, r) = Fee(q, s)
    BY <1>2
  <2> QED BY <2>1 DEF VolumeFits
<1>3. \A r : VolumePc(r)' = VolumePc(r)
  BY DEF VolumePc
<1> QED BY <1>1, <1>2, <1>3 DEF VolumeFits, Roles

LEMMA VolumeKept ==
    ASSUME VolumeFits, task \in [Proc -> Tasks], UNCHANGED <<volume, origin>>,
           NEW p \in Proc, NEW t \in Tasks, Become(p, t), Quiet(t)
    PROVE  VolumeFits'
<1>1. task'[p] = t /\ \A q \in Proc \ {p} : task'[q] = task[q]
  BY BecomeChanges
<1>2. \A q \in Proc, role \in Roles : task'[q].pc = VolumePc(role) => task'[q] = task[q]
  BY <1>1 DEF Quiet, VolumePc
<1>3. \A q \in Proc, role \in Roles : task'[q].pc = VolumePc(role) => Fee(q, role)' = Fee(q, role)
  BY <1>2 DEF Fee, Payer
<1> QED BY <1>2, <1>3, VolumeStays

LEMMA SplitKept ==
    ASSUME VolumeSplit, task \in [Proc -> Tasks], UNCHANGED <<volume, origin, feeEvents, lost>>,
           NEW p \in Proc, NEW t \in Tasks, Become(p, t), Quiet(t), Clear(p)
    PROVE  VolumeSplit'
<1>1. task'[p] = t /\ \A q \in Proc \ {p} : task'[q] = task[q]
  BY BecomeChanges
<1>2. \A q \in Proc, role \in Roles : task'[q].pc = VolumePc(role) => task'[q] = task[q]
  BY <1>1 DEF Quiet, VolumePc
<1>3. \A q \in Proc, role \in Roles : task[q].pc = VolumePc(role) => task'[q] = task[q]
  BY <1>1 DEF Clear, VolumePc
<1>4. \A q \in Proc, f \in feeEvents : Owes(q, f) => Owes(q, f)'
  BY <1>3 DEF Owes, Fee, Payer
<1>5. \A q \in Proc, role \in Roles : task'[q].pc = VolumePc(role) => Fee(q, role)' = Fee(q, role)
  BY <1>2 DEF Fee, Payer
<1> QED BY <1>2, <1>4, <1>5 DEF VolumeSplit, VolumePc

LEMMA SplitStays ==
    ASSUME VolumeSplit, UNCHANGED <<task, volume, origin, feeEvents, lost>> PROVE VolumeSplit'
<1>1. \A q \in Proc, role \in Roles : Fee(q, role)' = Fee(q, role)
  BY DEF Fee, Payer
<1>2. \A q \in Proc, f \in feeEvents : Owes(q, f) => Owes(q, f)'
  BY <1>1 DEF Owes, VolumePc
<1> QED BY <1>1, <1>2 DEF VolumeSplit, VolumePc

LEMMA AccountsKept ==
    ASSUME ConfirmedIsAccounted, Grown, UNCHANGED confirmed PROVE ConfirmedIsAccounted'
<1>1. ASSUME NEW t \in confirmed'
      PROVE  \E e \in MatchedOf(t)' : Accounted(t, e)'
  <2>1. PICK e \in MatchedOf(t) : Accounted(t, e)
    BY <1>1 DEF ConfirmedIsAccounted, Accounted
  <2>2. e \in MatchedOf(t)'
    BY DEF MatchedOf, EventsOf, Grown
  <2>3. Accounted(t, e)'
    BY <2>1 DEF Accounted, Payer, Grown
  <2> QED BY <2>2, <2>3
<1> QED BY <1>1 DEF ConfirmedIsAccounted, Accounted

LEMMA TypedTasks == ASSUME TypeOK PROVE task \in [Proc -> Tasks] /\ StoreTypeOK
BY DEF TypeOK, Tasks

\* The bounds on requests and faults; no volume is lost.
Counts == requests' \in 0 .. MaxRequests /\ faults' \in 0 .. MaxFaults /\ lost' = lost

\* A step of one task that writes nothing.
LEMMA PlainStep ==
    ASSUME Inv, UNCHANGED storeVars, requests' \in 0 .. MaxRequests, faults' \in 0 .. MaxFaults,
           NEW p \in Proc, NEW t \in Tasks, Become(p, t), Quiet(t), ReadFits(t), ConfirmFits(t), PassFits(t),
           VolumeSplit', lost' \subseteq feeEvents
    PROVE  Inv'
<1>1. /\ task \in [Proc -> Tasks] /\ StoreTypeOK
      /\ ChainFits /\ ReadsFit /\ EventsFit /\ TodoFits /\ MatchesFit /\ ConfirmsFit /\ VolumeFits
      /\ ConfirmedIsAccounted /\ VolumeSplit
  BY TypedTasks DEF Inv
<1>2. /\ UNCHANGED <<chain, forks, origin, cursor, events, links, confStatus, confirmed, feeless>>
      /\ UNCHANGED <<feeEvents, volume, rebates, canonFees>>
  BY DEF storeVars, nodeVars, indexVars, ledgerVars
<1>3. Grown
  BY <1>2 DEF Grown
<1>4. TypeOK'
  <2>1. task' \in [Proc -> Tasks]
    BY <1>1, BecomeChanges
  <2>2. StoreTypeOK'
    BY <1>1, <1>2 DEF StoreTypeOK
  <2> QED BY <1>2, <2>1, <2>2 DEF TypeOK, Tasks
<1>5. ChainFits' /\ EventsFit'
  BY <1>1, <1>2 DEF ChainFits, EventsFit
<1>6. ReadsFit'
  BY <1>1, <1>2, ReadsKept
<1>7. TodoFits'
  BY <1>1, <1>2, TodoKept
<1>8. MatchesFit'
  BY <1>1, <1>2, MatchesKept
<1>9. ConfirmsFit'
  BY <1>1, <1>3, ConfirmsKept, ConfirmStays
<1>10. VolumeFits'
  BY <1>1, <1>2, VolumeKept
<1>11. ConfirmedIsAccounted'
  BY <1>1, <1>2, <1>3, AccountsKept
<1> QED BY <1>4, <1>5, <1>6, <1>7, <1>8, <1>9, <1>10, <1>11 DEF Inv

\* It owes nothing.
LEMMA QuietStep ==
    ASSUME Inv, UNCHANGED storeVars, Counts, NEW p \in Proc, NEW t \in Tasks, Become(p, t),
           Quiet(t), ReadFits(t), ConfirmFits(t), PassFits(t), Clear(p)
    PROVE  Inv'
<1>1. task \in [Proc -> Tasks] /\ VolumeSplit /\ lost' \subseteq feeEvents
  BY TypedTasks DEF Inv, TypeOK, Counts
<1>2. UNCHANGED <<origin, feeEvents, volume, lost>>
  BY DEF storeVars, nodeVars, ledgerVars, Counts
<1>3. VolumeSplit'
  BY <1>1, <1>2, SplitKept
<1> QED BY <1>1, <1>3, PlainStep DEF Counts

\* Whatever ends, ends quietly.
LEMMA EndStep ==
    ASSUME Inv, UNCHANGED storeVars, Counts, NEW p \in Proc, End(p), Clear(p) PROVE Inv'
<1>1. Idle \in Tasks /\ Idle.pc = "idle"
  BY IdleFits
<1>2. Quiet(Idle) /\ ReadFits(Idle) /\ ConfirmFits(Idle) /\ PassFits(Idle)
  BY <1>1 DEF Quiet, ReadFits, ConfirmFits, PassFits, Booking, Settling
<1> QED BY <1>1, <1>2, QuietStep DEF End

-----------------------------------------------------------------------------
(* The chain.                                                              *)

LEMMA HashType ==
    ASSUME StoreTypeOK, NEW h \in Nat
    PROVE  BlockHash(h) # None => BlockHash(h) \in 0 .. MaxForks /\ h <= Len(chain)
<1>1. chain \in Seq(Blocks)
  BY DEF StoreTypeOK
<1>2. h # 0 /\ h <= Len(chain) => chain[h] \in Blocks
  BY <1>1
<1> QED BY <1>1, <1>2, IndexBounds DEF BlockHash, Blocks

\* The logs of a range are trades, one for each transaction.
LEMMA LogsFit ==
    ASSUME StoreTypeOK, ChainFits, NEW lo, NEW hi
    PROVE  /\ Logs(lo, hi) \subseteq Trades
           /\ \A e, f \in Logs(lo, hi) : e.tx = f.tx => e = f
<1>1. \A h \in 1 .. Len(chain) : chain[h] \in Blocks
  BY DEF StoreTypeOK
<1>2. \A h \in 1 .. Len(chain) : chain[h].ok => chain[h].tx # None
  BY DEF ChainFits
<1> DEFINE L(h) == [tx |-> chain[h].tx, index |-> chain[h].index, height |-> h, hash |-> chain[h].fork]
           H == {h \in (lo .. hi) \cap (1 .. Len(chain)) : chain[h].ok}
<1>3. Logs(lo, hi) = {L(h) : h \in H}
  BY DEF Logs
<1>4. \A h \in H : h \in 1 .. Len(chain) /\ chain[h].ok
  OBVIOUS
<1>5. Len(chain) \in Nat /\ Len(chain) <= MaxHead
  BY DEF StoreTypeOK
<1>6. ASSUME NEW h \in H
      PROVE  L(h) \in Trades
  <2>1. h \in 1 .. Len(chain) /\ chain[h] \in Blocks /\ chain[h].tx # None
    BY <1>1, <1>2, <1>4
  <2>2. h \in 1 .. MaxHead
    BY <2>1, <1>5, IndexBounds
  <2> QED BY <2>1, <2>2 DEF Blocks, Trades
<1>7. ASSUME NEW g \in H, NEW h \in H, L(g).tx = L(h).tx
      PROVE  L(g) = L(h)
  <2>1. g = h
    BY <1>7, <1>4, <1>2 DEF ChainFits
  <2> QED BY <2>1
<1> HIDE DEF L, H
<1> QED BY <1>3, <1>6, <1>7

LEMMA MinOfTwo ==
    ASSUME NEW a \in Nat, NEW b \in Nat
    PROVE  Min({a, b}) \in {a, b} /\ Min({a, b}) <= a /\ Min({a, b}) <= b
<1>1. \E x \in {a, b} : \A y \in {a, b} : x <= y
  OBVIOUS
<1> QED BY <1>1 DEF Min

LEMMA FromType ==
    ASSUME NEW t \in TickTasks PROVE From(t) \in 1 .. MaxHead + 1
<1>1. t.stored \in Cursors \cup {None}
  BY DEF TickTasks
<1>2. CASE t.stored = None
  BY <1>2, IndexBounds DEF From
<1>3. CASE t.stored # None
  <2>1. t.stored.block \in 1 .. MaxHead
    BY <1>1, <1>3 DEF Cursors
  <2> QED BY <2>1, <1>3, IndexBounds DEF From
<1> QED BY <1>2, <1>3

\* Blocks up to a height both chains have in common answer as before.
LEMMA SamePrefix ==
    ASSUME chain \in Seq(Blocks), chain' \in Seq(Blocks), NEW n \in Nat, n <= Len(chain), n <= Len(chain'),
           \A h \in 1 .. n : chain'[h] = chain[h]
    PROVE  /\ \A h \in 0 .. n : BlockHash(h)' = BlockHash(h)
           /\ \A lo \in Nat, hi \in 0 .. n : Logs(lo, hi)' = Logs(lo, hi)
<1>1. Len(chain) \in Nat /\ Len(chain') \in Nat
  OBVIOUS
<1>2. \A h \in 0 .. n : BlockHash(h)' = BlockHash(h)
  BY <1>1 DEF BlockHash
<1>3. ASSUME NEW lo \in Nat, NEW hi \in 0 .. n
      PROVE  Logs(lo, hi)' = Logs(lo, hi)
  <2> DEFINE H == (lo .. hi) \cap (1 .. Len(chain))
             G == (lo .. hi) \cap (1 .. Len(chain'))
  <2>1. G = H /\ \A h \in H : h \in 1 .. n
    BY <1>1
  <2>2. \A h \in H : chain'[h] = chain[h]
    BY <2>1
  <2>3. /\ Logs(lo, hi) = {[tx |-> chain[h].tx, index |-> chain[h].index, height |-> h, hash |-> chain[h].fork] :
                              h \in {h \in H : chain[h].ok}}
        /\ Logs(lo, hi)' = {[tx |-> chain'[h].tx, index |-> chain'[h].index, height |-> h, hash |-> chain'[h].fork] :
                              h \in {h \in G : chain'[h].ok}}
    BY DEF Logs
  <2> HIDE DEF G, H
  <2> QED BY <2>1, <2>2, <2>3
<1> QED BY <1>2, <1>3

\* A tick's reads survive a new block: a hash it holds is not one that a block
\* yet to come can have, because the fork counter has passed it or the height
\* is already taken.
LEMMA MineKeepsRead ==
    ASSUME StoreTypeOK, NEW b \in Blocks, b.fork = forks, chain' = Append(chain, b), UNCHANGED forks,
           NEW t \in Tasks, ReadFits(t)
    PROVE  ReadFits(t)'
<1>1. /\ chain \in Seq(Blocks) /\ chain' \in Seq(Blocks) /\ Len(chain) \in Nat
      /\ Len(chain') = Len(chain) + 1 /\ chain'[Len(chain) + 1] = b
      /\ \A h \in 1 .. Len(chain) : chain'[h] = chain[h]
      /\ forks \in 0 .. MaxForks
  BY DEF StoreTypeOK
<1>2. SUFFICES ASSUME t.pc \in {"tohash", "logs", "recheck", "persist"}
               PROVE  ReadFits(t)'
  BY DEF ReadFits
<1>3. t \in TickTasks
  BY <1>2, PlaceTells
<1>4. t.to \in 0 .. MaxHead /\ t.toHash \in (0 .. MaxForks) \cup {None} /\ From(t) \in Nat
  BY <1>3, FromType DEF TickTasks
<1>5. UNCHANGED From(t)
  BY DEF From
<1>6. CASE t.to <= Len(chain)
  <2>1. BlockHash(t.to)' = BlockHash(t.to) /\ Logs(From(t), t.to)' = Logs(From(t), t.to)
    BY <1>1, <1>4, <1>5, <1>6, SamePrefix
  <2> QED BY <2>1, <1>1, <1>4, <1>6 DEF ReadFits
<1>7. CASE t.to > Len(chain)
  <2>1. ~ (t.pc \in {"logs", "recheck", "persist"} /\ BlockHash(t.to)' = t.toHash)
    <3> SUFFICES ASSUME t.pc \in {"logs", "recheck", "persist"}
                 PROVE  BlockHash(t.to)' # t.toHash
      OBVIOUS
    <3>1. t.toHash # None /\ t.toHash # forks /\ t.to # 0
      BY <1>1, <1>4, <1>7 DEF ReadFits
    <3>2. BlockHash(t.to)' \in {forks, None}
      BY <1>1, <1>4, <1>7 DEF BlockHash
    <3> QED BY <3>1, <3>2
  <2> QED BY <2>1, <1>1, <1>4 DEF ReadFits
<1> QED BY <1>4, <1>6, <1>7, <1>1

\* They survive a fork too: the hash of a block that is cut off is history.
LEMMA ForkKeepsRead ==
    ASSUME StoreTypeOK, NEW n \in 0 .. Len(chain), chain' = SubSeq(chain, 1, n), forks' = forks + 1,
           NEW t \in Tasks, ReadFits(t)
    PROVE  ReadFits(t)'
<1>1. /\ chain \in Seq(Blocks) /\ chain' \in Seq(Blocks) /\ Len(chain) \in Nat
      /\ Len(chain') = n /\ n \in Nat /\ n <= Len(chain)
      /\ \A h \in 1 .. n : chain'[h] = chain[h]
      /\ forks \in 0 .. MaxForks
  BY SubSeqProperties DEF StoreTypeOK
<1>2. SUFFICES ASSUME t.pc \in {"tohash", "logs", "recheck", "persist"}
               PROVE  ReadFits(t)'
  BY DEF ReadFits
<1>3. t \in TickTasks
  BY <1>2, PlaceTells
<1>4. t.to \in 0 .. MaxHead /\ t.toHash \in (0 .. MaxForks) \cup {None} /\ From(t) \in Nat
  BY <1>3, FromType DEF TickTasks
<1>5. UNCHANGED From(t)
  BY DEF From
<1>6. CASE t.to <= n
  <2>1. BlockHash(t.to)' = BlockHash(t.to) /\ Logs(From(t), t.to)' = Logs(From(t), t.to)
    BY <1>1, <1>4, <1>5, <1>6, SamePrefix
  <2> QED BY <2>1, <1>1, <1>4, <1>6 DEF ReadFits
<1>7. CASE t.to > n
  <2>1. BlockHash(t.to)' = None
    BY <1>1, <1>4, <1>7 DEF BlockHash
  <2> QED BY <2>1, <1>1, <1>4 DEF ReadFits
<1> QED BY <1>4, <1>6, <1>7, <1>1

LEMMA MineFits ==
    ASSUME StoreTypeOK, ChainFits, Mine
    PROVE  \E b \in Blocks : /\ b.fork = forks /\ b.index <= forks /\ (b.ok => b.tx # None)
                             /\ b.tx # None => \A h \in 1 .. Len(chain) : chain[h].tx # b.tx
                             /\ chain' = Append(chain, b)
<1>1. forks \in 0 .. MaxForks /\ MaxForks \in Nat /\ 0 \in 0 .. MaxForks
  BY IndexBounds DEF StoreTypeOK
<1>2. CASE chain' = Append(chain, Block(None, FALSE, 0))
  <2>1. Block(None, FALSE, 0) \in Blocks
    BY <1>1 DEF Block, Blocks
  <2> QED BY <1>1, <1>2, <2>1 DEF Block
<1>3. ASSUME NEW t \in Txs, NEW ok \in BOOLEAN, NEW index \in 0 .. forks,
             Receipt(t) = {}, chain' = Append(chain, Block(t, ok, index))
      PROVE  \E b \in Blocks : /\ b.fork = forks /\ b.index <= forks /\ (b.ok => b.tx # None)
                               /\ b.tx # None => \A h \in 1 .. Len(chain) : chain[h].tx # b.tx
                               /\ chain' = Append(chain, b)
  <2>1. Block(t, ok, index) \in Blocks /\ t # None
    BY <1>1, NoneAssumption DEF Block, Blocks
  <2>2. \A h \in 1 .. Len(chain) : chain[h].tx # t
    BY <1>3 DEF Receipt
  <2> QED BY <1>1, <1>3, <2>1, <2>2 DEF Block
<1>4. \/ chain' = Append(chain, Block(None, FALSE, 0))
      \/ \E t \in Txs, index \in 0 .. forks : Receipt(t) = {} /\ chain' = Append(chain, Block(t, TRUE, index))
      \/ \E t \in Txs : Receipt(t) = {} /\ chain' = Append(chain, Block(t, FALSE, 0))
  BY DEF Mine, Submitted
<1>5. TRUE \in BOOLEAN /\ FALSE \in BOOLEAN /\ 0 \in 0 .. forks
  BY <1>1
<1>6. CASE \E t \in Txs, index \in 0 .. forks : Receipt(t) = {} /\ chain' = Append(chain, Block(t, TRUE, index))
  BY <1>3, <1>5, <1>6
<1>7. CASE \E t \in Txs : Receipt(t) = {} /\ chain' = Append(chain, Block(t, FALSE, 0))
  BY <1>3, <1>5, <1>7
<1> QED BY <1>2, <1>4, <1>6, <1>7

LEMMA MineType ==
    ASSUME StoreTypeOK, ChainFits, Mine,
           UNCHANGED <<indexVars, links, confStatus, confirmed, feeless, ledgerVars>>
    PROVE  StoreTypeOK' /\ ChainFits'
<1>1. PICK b \in Blocks : /\ b.fork = forks /\ b.index <= forks /\ (b.ok => b.tx # None)
                          /\ b.tx # None => \A h \in 1 .. Len(chain) : chain[h].tx # b.tx
                          /\ chain' = Append(chain, b)
  BY MineFits
<1>2. /\ chain' \in Seq(Blocks) /\ Len(chain) \in Nat
      /\ Len(chain') = Len(chain) + 1 /\ chain'[Len(chain) + 1] = b
      /\ \A h \in 1 .. Len(chain) : chain'[h] = chain[h]
  BY <1>1 DEF StoreTypeOK
<1>3. Len(chain') <= MaxHead /\ UNCHANGED <<forks, origin>>
  BY <1>2, IndexBounds DEF Mine
<1>4. StoreTypeOK'
  BY <1>2, <1>3 DEF StoreTypeOK, indexVars, ledgerVars
<1>5. ChainFits'
  <2>1. \A h \in 1 .. Len(chain') : h = Len(chain) + 1 \/ h \in 1 .. Len(chain)
    BY <1>2
  <2>2. \A h \in 1 .. Len(chain') :
            chain'[h].fork <= forks' /\ chain'[h].index <= forks' /\ (chain'[h].ok => chain'[h].tx # None)
    BY <1>1, <1>2, <1>3, <2>1 DEF ChainFits, StoreTypeOK
  <2>3. \A g, h \in 1 .. Len(chain') : chain'[g].tx # None /\ chain'[g].tx = chain'[h].tx => g = h
    BY <1>1, <1>2, <2>1 DEF ChainFits
  <2> QED BY <2>2, <2>3 DEF ChainFits
<1> QED BY <1>4, <1>5

LEMMA ForkType ==
    ASSUME StoreTypeOK, ChainFits, NEW n \in 0 .. Len(chain), chain' = SubSeq(chain, 1, n),
           forks < MaxForks, forks' = forks + 1, UNCHANGED origin,
           UNCHANGED <<indexVars, links, confStatus, confirmed, feeless, ledgerVars>>
    PROVE  StoreTypeOK' /\ ChainFits'
<1>1. /\ chain' \in Seq(Blocks) /\ Len(chain) \in Nat
      /\ Len(chain') = n /\ n \in Nat /\ n <= Len(chain)
      /\ \A h \in 1 .. n : chain'[h] = chain[h] /\ chain[h] \in Blocks
  BY SubSeqProperties DEF StoreTypeOK
<1>2. forks \in 0 .. MaxForks /\ forks' \in 0 .. MaxForks /\ MaxForks \in Nat
  BY IndexBounds DEF StoreTypeOK
<1>3. Len(chain') <= MaxHead
  BY <1>1, IndexBounds DEF StoreTypeOK
<1>4. StoreTypeOK'
  BY <1>1, <1>2, <1>3 DEF StoreTypeOK, indexVars, ledgerVars
<1>5. ASSUME NEW h \in 1 .. Len(chain')
      PROVE  /\ chain'[h].fork <= forks' /\ chain'[h].index <= forks' /\ (chain'[h].ok => chain'[h].tx # None)
             /\ h \in 1 .. Len(chain) /\ chain'[h] = chain[h]
  <2>1. h \in 1 .. Len(chain) /\ chain'[h] = chain[h] /\ chain[h] \in Blocks
    BY <1>1
  <2>2. chain[h].fork \in Nat /\ chain[h].index \in Nat
    BY <2>1 DEF Blocks
  <2> QED BY <1>2, <2>1, <2>2 DEF ChainFits
<1>6. ChainFits'
  BY <1>5 DEF ChainFits
<1> QED BY <1>4, <1>6

LEMMA NodeKeeps == ASSUME Inv, Node PROVE Inv'
<1>1. /\ task \in [Proc -> Tasks] /\ StoreTypeOK
      /\ ChainFits /\ ReadsFit /\ EventsFit /\ TodoFits /\ MatchesFit /\ ConfirmsFit /\ VolumeFits
      /\ ConfirmedIsAccounted /\ VolumeSplit
  BY TypedTasks DEF Inv
<1>2. /\ UNCHANGED <<origin, cursor, events, links, confStatus, confirmed, feeless, task, requests, faults, lost>>
      /\ UNCHANGED <<feeEvents, volume, rebates, canonFees>>
  BY DEF Node, Mine, Fork, indexVars, ledgerVars
<1>3. StoreTypeOK' /\ ChainFits' /\ \A t \in Tasks : ReadFits(t) => ReadFits(t)'
  <2>1. CASE Mine
    <3>1. StoreTypeOK' /\ ChainFits'
      BY <1>1, <2>1, MineType DEF Node
    <3>2. PICK b \in Blocks : b.fork = forks /\ chain' = Append(chain, b)
      BY <1>1, <2>1, MineFits
    <3>3. UNCHANGED forks
      BY <2>1 DEF Mine
    <3> QED BY <1>1, <3>1, <3>2, <3>3, MineKeepsRead
  <2>2. CASE Fork
    <3>1. PICK n \in 0 .. Len(chain) - 1 : chain' = SubSeq(chain, 1, n)
      BY <2>2 DEF Fork
    <3>2. n \in 0 .. Len(chain)
      BY <1>1 DEF StoreTypeOK
    <3>3. StoreTypeOK' /\ ChainFits'
      BY <1>1, <2>2, <3>1, <3>2, ForkType DEF Node, Fork
    <3> QED BY <1>1, <2>2, <3>1, <3>2, <3>3, ForkKeepsRead DEF Fork
  <2> QED BY <2>1, <2>2 DEF Node
<1>4. ReadsFit'
  <2>1. ASSUME NEW q \in Proc
        PROVE  ReadFits(task[q])'
    <3>1. PICK u : u = task[q]
      OBVIOUS
    <3>2. u \in Tasks /\ ReadFits(u)
      BY <1>1, <3>1 DEF ReadsFit
    <3>3. ReadFits(u)' /\ u = task'[q]
      BY <1>2, <1>3, <3>1, <3>2
    <3> QED BY <3>3 DEF ReadFits, BlockHash, Logs, From
  <2> QED BY <2>1 DEF ReadsFit
<1>5. TypeOK'
  <2>1. task' \in [Proc -> Tasks]
    BY <1>1, <1>2
  <2> QED BY <1>2, <1>3, <2>1 DEF TypeOK, Tasks, Inv
<1>6. EventsFit' /\ TodoFits'
  BY <1>1, <1>2 DEF EventsFit, TodoFits, PassFits
<1>10. VolumeSplit'
  BY <1>1, <1>2, SplitStays
<1>7. MatchesFit'
  BY <1>1, <1>2 DEF MatchesFit, Matches, Matching
<1>8. ConfirmsFit' /\ ConfirmedIsAccounted'
  BY <1>1, <1>2 DEF ConfirmsFit, ConfirmFits, MatchedOf, EventsOf, Accounted, ConfirmedIsAccounted, Payer
<1>9. VolumeFits'
  <2>1. \A q \in Proc, role \in Roles : Fee(q, role)' = Fee(q, role)
    BY <1>2 DEF Fee, Payer
  <2>2. \A q \in Proc, role \in Roles :
          task'[q].pc = VolumePc(role) => task[q].pc = VolumePc(role) /\ Fee(q, role)' = Fee(q, role)
    BY <1>2, <2>1
  <2> QED BY <1>1, <1>2, <2>2, VolumeStays
<1> QED BY <1>3, <1>4, <1>5, <1>6, <1>7, <1>8, <1>9, <1>10 DEF Inv

-----------------------------------------------------------------------------
(* The indexer.                                                            *)

LEMMA TickStep ==
    ASSUME Inv, UNCHANGED storeVars, Counts, NEW p \in Proc, NEW t \in TickTasks, Become(p, t), ReadFits(t),
           Clear(p)
    PROVE  Inv'
<1>1. t \in Tasks /\ t.pc \in {"verify", "tohash", "logs", "recheck", "persist"}
  BY DEF Tasks, TickTasks
<1>2. Quiet(t) /\ ConfirmFits(t) /\ PassFits(t)
  BY <1>1 DEF Quiet, ConfirmFits, PassFits, Booking, Settling
<1> QED BY <1>1, <1>2, QuietStep

\* What a task at rest in a place of the tick knows.
LEMMA TickKnows ==
    ASSUME Inv, NEW p \in Proc, task[p].pc \in {"verify", "tohash", "logs", "recheck", "persist"}
    PROVE  task[p] \in TickTasks /\ ReadFits(task[p]) /\ StoreTypeOK /\ ChainFits
<1>1. task[p] \in Tasks /\ ReadFits(task[p]) /\ StoreTypeOK /\ ChainFits
  BY TypedTasks DEF Inv, ReadsFit
<1> QED BY <1>1, PlaceTells

LEMMA TickStartKeeps == ASSUME Inv, Counts, NEW p \in Proc, TickStart(p) PROVE Inv'
<1> Clear(p)
  BY DEF Clear, TickStart, Idle
<1> DEFINE t == [pc |-> "verify", head |-> BlockNumber, stored |-> cursor, to |-> 0, toHash |-> None, logs |-> {}]
<1>1. StoreTypeOK
  BY TypedTasks DEF Inv
<1>2. BlockNumber \in 0 .. MaxHead /\ cursor \in Cursors \cup {None} /\ 0 \in 0 .. MaxHead
  BY <1>1, IndexBounds DEF StoreTypeOK, BlockNumber
<1>3. t \in TickTasks
  BY <1>2 DEF TickTasks
<1>4. ReadFits(t)
  BY DEF ReadFits
<1> QED BY <1>3, <1>4, TickStep DEF TickStart

LEMMA RangedFits ==
    ASSUME NEW t \in TickTasks
    PROVE  Ranged(t) = Idle \/ (Ranged(t) \in TickTasks /\ Ranged(t).pc = "tohash" /\ Ranged(t).to >= 1)
<1>1. CASE From(t) > t.head
  BY <1>1 DEF Ranged
<1>2. CASE ~ (From(t) > t.head)
  <2> DEFINE m == Min({t.head, From(t) + MaxBlockRange - 1})
  <2>1. From(t) \in 1 .. MaxHead + 1 /\ t.head \in 0 .. MaxHead
    BY FromType DEF TickTasks
  <2>2. From(t) + MaxBlockRange - 1 \in Nat /\ From(t) + MaxBlockRange - 1 >= 1
    BY <2>1, PerpIndexBounds, IndexBounds
  <2>3. m \in 1 .. MaxHead
    BY <1>2, <2>1, <2>2, MinOfTwo, IndexBounds
  <2> HIDE DEF m
  <2>4. Ranged(t) = [t EXCEPT !.pc = "tohash", !.to = m, !.head = 0]
    BY <1>2 DEF Ranged, m
  <2>5. m \in 0 .. MaxHead /\ m >= 1 /\ 0 \in 0 .. MaxHead
    BY <2>3, IndexBounds
  <2> QED BY <2>4, <2>5 DEF TickTasks
<1> QED BY <1>1, <1>2

LEMMA TickVerifyKeeps == ASSUME Inv, Counts, NEW p \in Proc, TickVerify(p) PROVE Inv'
<1> Clear(p)
  BY DEF Clear, TickVerify
<1>1. task[p] \in TickTasks
  BY TickKnows DEF TickVerify
<1>2. Become(p, Ranged(task[p])) \/ End(p)
  BY DEF TickVerify, End
<1>3. UNCHANGED storeVars
  BY DEF TickVerify
<1>4. PICK t : t = Ranged(task[p])
  OBVIOUS
<1>5. CASE t = Idle
  BY <1>2, <1>3, <1>4, <1>5, EndStep DEF End
<1>6. CASE t # Idle
  <2>1. t \in TickTasks /\ t.pc = "tohash" /\ t.to >= 1
    BY <1>1, <1>4, <1>6, RangedFits
  <2>2. ReadFits(t)
    BY <2>1 DEF ReadFits
  <2> QED BY <1>2, <1>3, <1>4, <2>1, <2>2, TickStep, EndStep
<1> QED BY <1>5, <1>6

LEMMA TickToHashKeeps == ASSUME Inv, Counts, NEW p \in Proc, TickToHash(p) PROVE Inv'
<1> Clear(p)
  BY DEF Clear, TickToHash
<1>1. task[p] \in TickTasks /\ ReadFits(task[p]) /\ StoreTypeOK /\ ChainFits
  BY TickKnows DEF TickToHash
<1>2. PICK hash : hash = BlockHash(task[p].to)
  OBVIOUS
<1>3. UNCHANGED storeVars /\ task[p].pc = "tohash"
  BY DEF TickToHash
<1>4. CASE hash = None
  BY <1>2, <1>3, <1>4, EndStep DEF End, TickToHash
<1>5. CASE hash # None
  <2>1. PICK t : t = [task[p] EXCEPT !.pc = "logs", !.toHash = hash]
    OBVIOUS
  <2>2. task[p].to \in 0 .. MaxHead /\ task[p].to >= 1
    BY <1>1, <1>3 DEF TickTasks, ReadFits
  <2>3. hash \in 0 .. MaxForks /\ task[p].to <= Len(chain)
    BY <1>1, <1>2, <1>5, <2>2, HashType
  <2>4. t \in TickTasks /\ t.pc = "logs" /\ t.toHash = hash /\ t.to = task[p].to
    BY <1>1, <2>1, <2>3 DEF TickTasks
  <2>5. hash = chain[task[p].to].fork /\ task[p].to \in 1 .. Len(chain)
    BY <1>1, <1>2, <2>2, <2>3 DEF BlockHash, StoreTypeOK
  <2>6. hash <= forks
    BY <1>1, <2>5 DEF ChainFits
  <2>7. ReadFits(t)
    BY <1>5, <2>2, <2>3, <2>4, <2>6 DEF ReadFits
  <2>8. Become(p, t)
    BY <1>2, <1>5, <2>1 DEF TickToHash
  <2> QED BY <1>3, <2>4, <2>7, <2>8, TickStep
<1> QED BY <1>4, <1>5

LEMMA TickLogsKeeps == ASSUME Inv, Counts, NEW p \in Proc, TickLogs(p) PROVE Inv'
<1> Clear(p)
  BY DEF Clear, TickLogs
<1>1. task[p] \in TickTasks /\ ReadFits(task[p]) /\ StoreTypeOK /\ ChainFits
  BY TickKnows DEF TickLogs
<1>2. PICK logs : logs = Logs(From(task[p]), task[p].to)
  OBVIOUS
<1>3. PICK t : t = [task[p] EXCEPT !.pc = "recheck", !.logs = logs]
  OBVIOUS
<1>4. logs \subseteq Trades /\ \A e, f \in logs : e.tx = f.tx => e = f
  BY <1>1, <1>2, LogsFit
<1>5. t \in TickTasks /\ t.pc = "recheck" /\ t.logs = logs /\ t.to = task[p].to /\ t.toHash = task[p].toHash
      /\ t.stored = task[p].stored
  BY <1>1, <1>3, <1>4 DEF TickTasks
<1>6. logs = Logs(From(t), t.to)
  BY <1>2, <1>5 DEF From
<1>7. task[p].pc = "logs"
  BY DEF TickLogs
<1>8. ReadFits(t)
  <2>1. t.to >= 1 /\ t.toHash # None /\ t.toHash <= forks /\ (t.toHash = forks => t.to <= Len(chain))
    BY <1>1, <1>5, <1>7 DEF ReadFits
  <2> QED BY <1>4, <1>5, <1>6, <2>1 DEF ReadFits
<1>9. Become(p, t) /\ UNCHANGED storeVars
  BY <1>2, <1>3 DEF TickLogs
<1> QED BY <1>5, <1>8, <1>9, TickStep

LEMMA TickRecheckKeeps == ASSUME Inv, Counts, NEW p \in Proc, TickRecheck(p) PROVE Inv'
<1> Clear(p)
  BY DEF Clear, TickRecheck
<1>1. task[p] \in TickTasks /\ ReadFits(task[p]) /\ task[p].pc = "recheck"
  BY TickKnows DEF TickRecheck
<1>2. PICK t : t = [task[p] EXCEPT !.pc = "persist"]
  OBVIOUS
<1>3. t \in TickTasks /\ t.pc = "persist" /\ t.logs = task[p].logs /\ t.to = task[p].to
      /\ t.toHash = task[p].toHash /\ t.stored = task[p].stored
  BY <1>1, <1>2 DEF TickTasks
<1>4. From(t) = From(task[p])
  BY <1>3 DEF From
<1>5. ReadFits(t)
  BY <1>1, <1>3, <1>4 DEF ReadFits
<1>6. UNCHANGED storeVars /\ (Become(p, t) \/ End(p))
  BY <1>2 DEF TickRecheck, Goto
<1> QED BY <1>3, <1>5, <1>6, TickStep, EndStep

\* The insert leaves the key unique.
LEMMA InsertedFits ==
    ASSUME StoreTypeOK, EventsFit, NEW trades \in SUBSET Trades, \A e, f \in trades : e.tx = f.tx => e = f
    PROVE  /\ events \subseteq Inserted(trades) /\ Inserted(trades) \subseteq Trades
           /\ \A e, f \in Inserted(trades) : Key(e) = Key(f) => e = f
           /\ Inserted(trades) \ events \subseteq trades
           /\ \A e \in trades : \E f \in Inserted(trades) : Key(f) = Key(e)
<1>1. events \subseteq Trades
  BY DEF StoreTypeOK
<1>2. \A e, f : Key(e) = Key(f) => e.tx = f.tx
  BY DEF Key
<1>3. \A e, f \in Inserted(trades) : Key(e) = Key(f) => e = f
  <2> SUFFICES ASSUME NEW e \in Inserted(trades), NEW f \in Inserted(trades), Key(e) = Key(f)
               PROVE  e = f
    OBVIOUS
  <2>1. CASE e \in events /\ f \in events
    BY <2>1 DEF EventsFit
  <2>2. CASE e \notin events /\ f \notin events
    BY <2>2, <1>2 DEF Inserted
  <2>3. CASE (e \in events) # (f \in events)
    BY <2>3 DEF Inserted
  <2> QED BY <2>1, <2>2, <2>3
<1>4. \A e \in trades : \E f \in Inserted(trades) : Key(f) = Key(e)
  BY DEF Inserted
<1> QED BY <1>1, <1>3, <1>4 DEF Inserted

LEMMA TickPersistKeeps == ASSUME Inv, Counts, NEW p \in Proc, TickPersist(p) PROVE Inv'
<1> Clear(p)
  BY DEF Clear, TickPersist
<1>1. task[p] \in TickTasks /\ ReadFits(task[p]) /\ task[p].pc = "persist" /\ StoreTypeOK
  BY TickKnows DEF TickPersist
<1>2. /\ UNCHANGED <<chain, forks, origin, links, confStatus, confirmed, feeless>>
      /\ UNCHANGED <<feeEvents, volume, rebates, canonFees>>
      /\ End(p)
  BY DEF TickPersist, nodeVars, ledgerVars
<1>3. CASE cursor # task[p].stored
  <2>1. UNCHANGED storeVars
    BY <1>2, <1>3 DEF TickPersist, Persist, storeVars, nodeVars, indexVars, ledgerVars
  <2> QED BY <1>2, <2>1, EndStep
<1>4. CASE cursor = task[p].stored
  <2>1. PICK logs : logs = task[p].logs
    OBVIOUS
  <2>2. logs \in SUBSET Trades /\ \A e, f \in logs : e.tx = f.tx => e = f
    BY <1>1, <2>1 DEF TickTasks, ReadFits
  <2>3. events' = Inserted(logs) /\ cursor' = [block |-> task[p].to, hash |-> task[p].toHash]
    BY <1>4, <2>1 DEF TickPersist, Persist
  <2>4. /\ task \in [Proc -> Tasks]
        /\ ChainFits /\ ReadsFit /\ EventsFit /\ TodoFits /\ MatchesFit /\ ConfirmsFit /\ VolumeFits
        /\ ConfirmedIsAccounted /\ VolumeSplit
    BY TypedTasks DEF Inv
  <2>5. events \subseteq events' /\ events' \subseteq Trades /\ EventsFit'
    BY <1>1, <2>2, <2>3, <2>4, InsertedFits DEF EventsFit, Key
  <2>6. Grown
    BY <1>2, <2>5 DEF Grown
  <2>7. cursor' \in Cursors
    <3>1. task[p].to \in 1 .. MaxHead /\ task[p].toHash \in 0 .. MaxForks
      BY <1>1 DEF TickTasks, ReadFits
    <3> QED BY <2>3, <3>1 DEF Cursors
  <2>8. StoreTypeOK'
    BY <1>1, <1>2, <2>5, <2>7 DEF StoreTypeOK
  <2>9. /\ Idle \in Tasks /\ Become(p, Idle) /\ Idle.pc = "idle"
        /\ Quiet(Idle) /\ ReadFits(Idle) /\ ConfirmFits(Idle) /\ PassFits(Idle)
    BY IdleFits, <1>2 DEF End, Quiet, ReadFits, ConfirmFits, PassFits, Booking, Settling
  <2>10. TypeOK'
    <3>1. task' \in [Proc -> Tasks]
      BY <2>4, <2>9, BecomeChanges
    <3>2. lost' \subseteq feeEvents'
      BY <1>2 DEF Inv, TypeOK, Counts
    <3> QED BY <2>8, <3>1, <3>2 DEF TypeOK, Tasks, Counts
  <2>11. ChainFits' /\ VolumeSplit'
    BY <1>2, <2>4, <2>9, SplitKept DEF ChainFits, Counts
  <2>12. ReadsFit'
    BY <1>2, <2>4, <2>9, ReadsKept
  <2>13. TodoFits'
    BY <2>4, <2>5, <2>9, TodoKept
  <2>14. MatchesFit'
    BY <1>2, <2>4, <2>5, <2>9, MatchesKept
  <2>15. ConfirmsFit'
    BY <2>4, <2>6, <2>9, ConfirmsKept, ConfirmStays
  <2>16. VolumeFits'
    BY <1>2, <2>4, <2>9, VolumeKept
  <2>17. ConfirmedIsAccounted'
    BY <1>2, <2>4, <2>6, AccountsKept
  <2> QED BY <2>5, <2>10, <2>11, <2>12, <2>13, <2>14, <2>15, <2>16, <2>17 DEF Inv
<1> QED BY <1>3, <1>4

-----------------------------------------------------------------------------
(* The reconciliation.                                                     *)

LEMMA MatchStep ==
    ASSUME Inv, UNCHANGED storeVars, Counts, NEW p \in Proc, NEW t \in MatchTasks, Become(p, t), Quiet(t),
           PassFits(t), Clear(p)
    PROVE  Inv'
<1>1. t \in Tasks /\ t.pc \in {"count", "link"}
  BY DEF Tasks, MatchTasks
<1>2. ReadFits(t) /\ ConfirmFits(t)
  BY <1>1 DEF ReadFits, ConfirmFits, Booking, Settling
<1> QED BY <1>1, <1>2, QuietStep

LEMMA MatchKnows ==
    ASSUME Inv, NEW p \in Proc, task[p].pc \in {"count", "link"}
    PROVE  /\ task[p] \in MatchTasks /\ StoreTypeOK /\ EventsFit
           /\ task[p].todo \in Seq(Trades) \ {<<>>} /\ Len(task[p].todo) >= 1
           /\ \A i \in 1 .. Len(task[p].todo) : task[p].todo[i] \in events
           /\ Head(task[p].todo) = task[p].todo[1] /\ Head(task[p].todo) \in events
<1>1. task[p] \in Tasks /\ StoreTypeOK /\ EventsFit
  BY TypedTasks DEF Inv
<1>2. task[p] \in MatchTasks
  BY <1>1, PlaceTells
<1>3. task[p].todo \in Seq(Trades) \ {<<>>}
  BY <1>2 DEF MatchTasks
<1>4. Len(task[p].todo) >= 1 /\ Head(task[p].todo) = task[p].todo[1] /\ Len(task[p].todo) \in Nat
  BY <1>3
<1>5. \A i \in 1 .. Len(task[p].todo) : task[p].todo[i] \in events
  BY DEF Inv, TodoFits, PassFits
<1> QED BY <1>1, <1>2, <1>3, <1>4, <1>5

LEMMA ReconcileStartKeeps == ASSUME Inv, Counts, NEW p \in Proc, ReconcileStart(p) PROVE Inv'
<1> Clear(p)
  BY DEF Clear, ReconcileStart, Idle
<1>1. PICK trades \in Unreconciled \ {<<>>} : Become(p, [pc |-> "count", todo |-> trades, verdict |-> "none"])
  BY DEF ReconcileStart
<1>2. trades \in Seq(events)
  <2> DEFINE open == {e \in events : \A l \in links : l.event # Key(e)}
  <2>1. trades \in SeqOf(open, BatchSize)
    BY <1>1 DEF Unreconciled
  <2> HIDE DEF open
  <2>2. PICK m \in 0 .. BatchSize : trades \in [1 .. m -> open]
    BY <2>1 DEF SeqOf
  <2>3. m \in Nat /\ open \subseteq events
    BY IndexBounds DEF open
  <2>4. trades \in [1 .. m -> events]
    BY <2>2, <2>3
  <2> QED BY <2>3, <2>4, SeqDef
<1>3. events \subseteq Trades
  BY DEF Inv, TypeOK, StoreTypeOK
<1>4. trades \in Seq(Trades) \ {<<>>}
  BY <1>1, <1>2, <1>3, SeqMonotonic
<1>5. \A i \in 1 .. Len(trades) : trades[i] \in events
  BY <1>2
<1>6. PICK t : t = [pc |-> "count", todo |-> trades, verdict |-> "none"]
  OBVIOUS
<1>7. t \in MatchTasks
  BY <1>4, <1>6 DEF MatchTasks
<1>8. Quiet(t) /\ PassFits(t)
  BY <1>5, <1>6 DEF Quiet, PassFits
<1>9. UNCHANGED storeVars
  BY DEF ReconcileStart
<1> QED BY <1>1, <1>6, <1>7, <1>8, <1>9, MatchStep

\* The next trade of a pass, if there is one.
LEMMA NextTradeFits ==
    ASSUME NEW t \in MatchTasks, \A i \in 1 .. Len(t.todo) : t.todo[i] \in events
    PROVE  \/ NextTrade(t) = Idle
           \/ /\ NextTrade(t) \in MatchTasks /\ NextTrade(t).pc = "count"
              /\ Quiet(NextTrade(t)) /\ PassFits(NextTrade(t))
<1>1. t.todo \in Seq(Trades) /\ t.todo # <<>>
  BY DEF MatchTasks
<1>2. CASE Len(t.todo) = 1
  BY <1>2 DEF NextTrade
<1>3. CASE Len(t.todo) # 1
  <2>1. PICK rest : rest = Tail(t.todo)
    OBVIOUS
  <2>2. /\ rest \in Seq(Trades) /\ rest # <<>>
        /\ \A k \in DOMAIN rest : k + 1 \in DOMAIN t.todo /\ rest[k] = t.todo[k + 1]
    BY <1>1, <1>3, <2>1, TailFacts
  <2>3. \A i \in 1 .. Len(rest) : rest[i] \in events
    <3>1. DOMAIN rest = 1 .. Len(rest) /\ DOMAIN t.todo = 1 .. Len(t.todo)
      BY <1>1, <2>2
    <3> QED BY <2>2, <3>1
  <2>4. NextTrade(t) = [pc |-> "count", todo |-> rest, verdict |-> "none"]
    BY <1>3, <2>1 DEF NextTrade
  <2>5. NextTrade(t) \in MatchTasks /\ Quiet(NextTrade(t)) /\ NextTrade(t).pc = "count"
    BY <2>2, <2>4 DEF MatchTasks, Quiet
  <2> QED BY <2>3, <2>4, <2>5 DEF PassFits
<1> QED BY <1>2, <1>3

\* The events of one transaction differ in their log index.
LEMMA EventsOfFinite ==
    ASSUME StoreTypeOK, EventsFit, NEW t PROVE IsFiniteSet(EventsOf(t))
<1> DEFINE E == EventsOf(t)
           S == {e.index : e \in E}
           f == [i \in S |-> CHOOSE e \in E : e.index = i]
<1>1. \A e \in E : e \in Trades /\ e \in events /\ e.tx = t
  BY DEF EventsOf, StoreTypeOK
<1>2. \A e \in E : e.index \in 0 .. MaxForks
  BY <1>1 DEF Trades
<1>3. S \subseteq 0 .. MaxForks
  BY <1>2
<1>4. IsFiniteSet(S)
  <2>1. IsFiniteSet(0 .. MaxForks)
    BY FS_Interval, IndexBounds
  <2> HIDE DEF S
  <2> QED BY <1>3, <2>1, FS_Subset
<1>5. \A d, e \in E : d.index = e.index => d = e
  BY <1>1 DEF EventsFit, Key
<1>6. f \in [S -> E] /\ \A e \in E : f[e.index] = e
  <2> HIDE DEF E
  <2>1. \A i \in S : f[i] \in E /\ f[i].index = i
    OBVIOUS
  <2> QED BY <2>1, <1>5
<1>7. \A e \in E : \E i \in S : f[i] = e
  <2> HIDE DEF E, f
  <2> QED BY <1>6
<1> HIDE DEF E, S, f
<1>8. IsFiniteSet(E)
  BY <1>4, <1>6, <1>7, ImageIsSmaller
<1> QED BY <1>8 DEF E

LEMMA DecideFits ==
    ASSUME StoreTypeOK, EventsFit, NEW e \in events
    PROVE  /\ Decide(e.tx) \in {"unmatched", "matched", "ambiguous"}
           /\ Decide(e.tx) = "matched" => EventsOf(e.tx) = {e}
<1>1. IsFiniteSet(EventsOf(e.tx)) /\ e \in EventsOf(e.tx)
  BY EventsOfFinite DEF EventsOf
<1>2. Cardinality(EventsOf(e.tx)) \in Nat /\ Cardinality(EventsOf(e.tx)) # 0
  BY <1>1, FS_CardinalityType, FS_EmptySet
<1>3. CASE e.tx \notin Submitted
  BY <1>3 DEF Decide
<1>4. CASE e.tx \in Submitted /\ Cardinality(EventsOf(e.tx)) = 1
  <2>1. EventsOf(e.tx) = {e}
    BY <1>1, <1>4, FS_Singleton
  <2>2. Decide(e.tx) = "matched"
    BY <1>4 DEF Decide
  <2> QED BY <2>1, <2>2
<1>5. CASE e.tx \in Submitted /\ Cardinality(EventsOf(e.tx)) > 1
  <2>1. Decide(e.tx) = "ambiguous"
    BY <1>2, <1>5 DEF Decide
  <2> QED BY <2>1
<1> QED BY <1>2, <1>3, <1>4, <1>5

\* A step of one task that leaves the chain alone and only adds to the tables.
LEMMA CoreStep ==
    ASSUME Inv, UNCHANGED <<chain, forks>>, Grown, Counts, NEW p \in Proc, NEW t \in Tasks, Become(p, t),
           ReadFits(t), ConfirmFits(t)', PassFits(t),
           StoreTypeOK', EventsFit', MatchesFit', VolumeFits', ConfirmedIsAccounted', VolumeSplit'
    PROVE  Inv'
<1>1. task \in [Proc -> Tasks] /\ ChainFits /\ ReadsFit /\ TodoFits /\ ConfirmsFit
  BY TypedTasks DEF Inv
<1>2. TypeOK'
  <2>1. task' \in [Proc -> Tasks]
    BY <1>1, BecomeChanges
  <2>2. lost' \subseteq feeEvents'
    BY DEF Inv, TypeOK, Grown, Counts
  <2> QED BY <2>1, <2>2 DEF TypeOK, Tasks, Counts
<1>3. ChainFits'
  BY <1>1 DEF ChainFits
<1>4. ReadsFit'
  BY <1>1, ReadsKept
<1>5. TodoFits'
  BY <1>1, TodoKept DEF Grown
<1>6. ConfirmsFit'
  BY <1>1, ConfirmsKept
<1> QED BY <1>2, <1>3, <1>4, <1>5, <1>6 DEF Inv

\* The first match of a transaction: no other one is stored or under way.
LEMMA MatchedStep ==
    ASSUME Inv, UNCHANGED storeVars, Counts, NEW p \in Proc, task[p].pc = "count",
           Decide(Head(task[p].todo).tx) = "matched",
           Become(p, [task[p] EXCEPT !.pc = "link", !.verdict = "matched"])
    PROVE  Inv'
<1> Clear(p)
  BY DEF Clear
<1>1. /\ task \in [Proc -> Tasks] /\ StoreTypeOK /\ EventsFit /\ MatchesFit /\ VolumeFits
      /\ ConfirmedIsAccounted /\ VolumeSplit
  BY TypedTasks DEF Inv
<1>2. /\ UNCHANGED <<chain, forks, origin, cursor, events, links, confStatus, confirmed, feeless>>
      /\ UNCHANGED <<feeEvents, volume, rebates, canonFees>>
  BY DEF storeVars, nodeVars, indexVars, ledgerVars
<1>3. PICK t : t = [task[p] EXCEPT !.pc = "link", !.verdict = "matched"]
  OBVIOUS
<1>4. PICK e : e = Head(task[p].todo)
  OBVIOUS
<1>5. /\ task[p] \in MatchTasks /\ e \in events
      /\ \A i \in 1 .. Len(task[p].todo) : task[p].todo[i] \in events
  BY <1>4, MatchKnows
<1>6. t \in MatchTasks /\ t.pc = "link" /\ t.todo = task[p].todo
  BY <1>3, <1>5 DEF MatchTasks
<1>7. t \in Tasks /\ Become(p, t)
  BY <1>3, <1>6 DEF Tasks
<1>8. ReadFits(t) /\ ConfirmFits(t)' /\ PassFits(t)
  BY <1>3, <1>5, <1>6 DEF ReadFits, ConfirmFits, PassFits, MatchTasks, Booking, Settling
<1>9. task'[p] = t /\ \A q \in Proc \ {p} : task'[q] = task[q]
  BY <1>1, <1>7, BecomeChanges
<1>10. EventsOf(e.tx) = {e}
  BY <1>1, <1>4, <1>5, DecideFits
<1>11. MatchesFit'
  <2>1. \A k \in Matches' : k \in Matches \/ k = Key(e)
    BY <1>2, <1>4, <1>6, <1>9 DEF Matches, Matching
  <2>2. \A k \in Matches : k[1] = e.tx => k = Key(e)
    <3> SUFFICES ASSUME NEW k \in Matches, k[1] = e.tx
                 PROVE  k = Key(e)
      OBVIOUS
    <3>1. PICK f \in events : Key(f) = k
      BY <1>1 DEF MatchesFit
    <3>2. f.tx = e.tx
      BY <3>1 DEF Key
    <3>3. f = e
      BY <1>10, <3>2 DEF EventsOf
    <3> QED BY <3>1, <3>3
  <2>3. Key(e)[1] = e.tx
    BY DEF Key
  <2>4. \A k \in Matches' : \E f \in events : Key(f) = k
    BY <1>1, <1>5, <2>1 DEF MatchesFit
  <2>5. \A k, m \in Matches' : k[1] = m[1] => k = m
    BY <1>1, <2>1, <2>2, <2>3 DEF MatchesFit
  <2> QED BY <1>2, <2>4, <2>5 DEF MatchesFit, Key
<1>12. VolumeFits'
  <2>1. \A q \in Proc, role \in Roles : task'[q].pc = VolumePc(role) => task'[q] = task[q]
    BY <1>6, <1>9 DEF VolumePc
  <2>2. \A q \in Proc, role \in Roles : task'[q].pc = VolumePc(role) => Fee(q, role)' = Fee(q, role)
    BY <1>2, <2>1 DEF Fee, Payer
  <2> QED BY <1>1, <1>2, <2>1, <2>2, VolumeStays
<1>13. Grown
  BY <1>2 DEF Grown
<1>14. StoreTypeOK' /\ EventsFit'
  BY <1>1, <1>2 DEF StoreTypeOK, EventsFit
<1>16. VolumeSplit'
  <2>1. \A q \in Proc, role \in Roles : task'[q].pc = VolumePc(role) \/ task[q].pc = VolumePc(role) => task'[q] = task[q]
    BY <1>6, <1>9 DEF VolumePc, Clear
  <2>3. \A q \in Proc, role \in Roles :
            task'[q].pc = VolumePc(role) \/ task[q].pc = VolumePc(role) => Fee(q, role)' = Fee(q, role)
    BY <1>2, <2>1 DEF Fee, Payer
  <2>2. \A q \in Proc, f \in feeEvents : Owes(q, f) => Owes(q, f)'
    <3> SUFFICES ASSUME NEW q \in Proc, NEW f \in feeEvents, NEW role \in Roles,
                        task[q].pc = VolumePc(role), f = Fee(q, role)
                 PROVE  Owes(q, f)'
      BY DEF Owes
    <3>1. task'[q].pc = VolumePc(role) /\ f = Fee(q, role)'
      BY <2>1, <2>3
    <3> QED BY <3>1 DEF Owes, VolumePc
  <2> QED BY <1>1, <1>2, <2>1, <2>2, <2>3 DEF VolumeSplit, VolumePc, Counts
<1>15. ConfirmedIsAccounted'
  BY <1>1, <1>2, <1>13, AccountsKept
<1> QED BY <1>2, <1>5, <1>6, <1>7, <1>8, <1>11, <1>12, <1>13, <1>14, <1>15, <1>16, CoreStep

LEMMA ReconcileCountKeeps == ASSUME Inv, Counts, NEW p \in Proc, ReconcileCount(p) PROVE Inv'
<1> Clear(p)
  BY DEF Clear, ReconcileCount
<1>1. task[p].pc = "count" /\ UNCHANGED storeVars
  BY DEF ReconcileCount
<1>2. /\ task[p] \in MatchTasks /\ StoreTypeOK /\ EventsFit /\ Head(task[p].todo) \in events
      /\ \A i \in 1 .. Len(task[p].todo) : task[p].todo[i] \in events
  BY <1>1, MatchKnows
<1>3. PICK verdict : verdict = Decide(Head(task[p].todo).tx)
  OBVIOUS
<1>4. verdict \in {"unmatched", "matched", "ambiguous"}
  BY <1>2, <1>3, DecideFits
<1>5. CASE verdict = "unmatched"
  <2>1. PICK t : t = NextTrade(task[p])
    OBVIOUS
  <2>2. Become(p, t)
    BY <1>3, <1>5, <2>1 DEF ReconcileCount
  <2>3. t = Idle \/ (t \in MatchTasks /\ Quiet(t) /\ PassFits(t))
    BY <1>2, <2>1, NextTradeFits
  <2> QED BY <1>1, <2>2, <2>3, EndStep, MatchStep DEF End
<1>6. CASE verdict = "matched"
  <2>1. Become(p, [task[p] EXCEPT !.pc = "link", !.verdict = "matched"])
    BY <1>3, <1>6 DEF ReconcileCount
  <2> QED BY <1>1, <1>3, <1>6, <2>1, MatchedStep
<1>7. CASE verdict = "ambiguous"
  <2>1. PICK t : t = [task[p] EXCEPT !.pc = "link", !.verdict = "ambiguous"]
    OBVIOUS
  <2>2. Become(p, t)
    BY <1>3, <1>7, <2>1 DEF ReconcileCount
  <2>3. t \in MatchTasks /\ t.todo = task[p].todo /\ t.verdict = "ambiguous" /\ t.pc = "link"
    BY <1>2, <2>1 DEF MatchTasks
  <2>4. Quiet(t) /\ PassFits(t)
    BY <1>2, <2>3 DEF Quiet, PassFits
  <2> QED BY <1>1, <1>2, <2>2, <2>3, <2>4, MatchStep
<1> QED BY <1>4, <1>5, <1>6, <1>7

LEMMA ReconcileLinkKeeps == ASSUME Inv, Counts, NEW p \in Proc, ReconcileLink(p) PROVE Inv'
<1> Clear(p)
  BY DEF Clear, ReconcileLink
<1>1. /\ task \in [Proc -> Tasks] /\ StoreTypeOK /\ EventsFit /\ MatchesFit /\ VolumeFits
      /\ ConfirmedIsAccounted /\ VolumeSplit
  BY TypedTasks DEF Inv
<1>2. /\ UNCHANGED <<chain, forks, origin, cursor, events, confStatus, confirmed, feeless>>
      /\ UNCHANGED <<feeEvents, volume, rebates, canonFees>>
      /\ task[p].pc = "link"
  BY DEF ReconcileLink, nodeVars, indexVars, ledgerVars
<1>3. PICK e : e = Head(task[p].todo)
  OBVIOUS
<1>4. PICK v : v = task[p].verdict
  OBVIOUS
<1>5. PICK t : t = NextTrade(task[p])
  OBVIOUS
<1>6. /\ task[p] \in MatchTasks /\ e \in events
      /\ \A i \in 1 .. Len(task[p].todo) : task[p].todo[i] \in events
  BY <1>2, <1>3, MatchKnows
<1>7. t = Idle \/ (t \in MatchTasks /\ t.pc = "count" /\ PassFits(t))
  BY <1>5, <1>6, NextTradeFits
<1>8. t \in Tasks /\ Become(p, t) /\ t.pc \in {"idle", "count"}
  BY <1>5, <1>7, IdleFits DEF Tasks, ReconcileLink
<1>9. Quiet(t) /\ ReadFits(t) /\ ConfirmFits(t)'
  BY <1>8 DEF Quiet, ReadFits, ConfirmFits, Booking, Settling
<1>10. /\ links \subseteq links'
       /\ \A l \in links' : l \in links \/ l = [event |-> Key(e), status |-> v]
  BY <1>3, <1>4 DEF ReconcileLink, Link
<1>11. Grown
  BY <1>2, <1>10 DEF Grown
<1>12. StoreTypeOK'
  <2>1. e \in Trades /\ v \in {"none", "matched", "ambiguous"}
    BY <1>1, <1>4, <1>6 DEF StoreTypeOK, MatchTasks
  <2>2. Key(e) \in EventKeys
    BY <2>1 DEF Key, Trades, EventKeys
  <2>3. v # "none"
    BY <1>2, <1>4 DEF Inv, TodoFits, PassFits
  <2>4. links' \subseteq [event : EventKeys, status : {"matched", "ambiguous"}]
    BY <1>1, <1>10, <2>1, <2>2, <2>3 DEF StoreTypeOK
  <2> QED BY <1>1, <1>2, <2>4 DEF StoreTypeOK
<1>13. MatchesFit'
  <2>1. task'[p] = t /\ \A q \in Proc \ {p} : task'[q] = task[q]
    BY <1>1, <1>8, BecomeChanges
  <2>2. \A k \in Matches' : k \in Matches
    <3> SUFFICES ASSUME NEW k \in Matches'
                 PROVE  k \in Matches
      OBVIOUS
    <3>1. CASE \E q \in Proc : Matching(q)' /\ k = Key(Head(task'[q].todo))
      BY <3>1, <2>1, <1>8 DEF Matches, Matching
    <3>2. CASE \E l \in links' : l.status = "matched" /\ k = l.event
      <4>1. PICK l \in links' : l.status = "matched" /\ k = l.event
        BY <3>2
      <4>2. CASE l \in links
        BY <4>1, <4>2 DEF Matches
      <4>3. CASE l = [event |-> Key(e), status |-> v]
        <5>1. k = Key(Head(task[p].todo)) /\ Matching(p)
          BY <1>2, <1>3, <1>4, <4>1, <4>3 DEF Matching
        <5> QED BY <5>1 DEF Matches
      <4> QED BY <1>10, <4>2, <4>3
    <3> QED BY <3>1, <3>2 DEF Matches, Key
  <2> QED BY <1>1, <1>2, <2>2 DEF MatchesFit, Key
<1>14. VolumeFits'
  BY <1>1, <1>2, <1>8, <1>9, VolumeKept
<1>15. EventsFit' /\ VolumeSplit'
  BY <1>1, <1>2, <1>8, <1>9, SplitKept DEF EventsFit, Counts
<1>16. ConfirmedIsAccounted'
  BY <1>1, <1>2, <1>11, AccountsKept
<1>17. PassFits(t)
  BY <1>7, IdleFits DEF PassFits
<1> QED BY <1>2, <1>8, <1>9, <1>11, <1>12, <1>13, <1>14, <1>15, <1>16, <1>17, CoreStep

-----------------------------------------------------------------------------
(* The confirmation.                                                       *)

Confirming == {"receipt", "height", "decide", "apply"} \cup Booking \cup Settling

\* A task of a confirmation fits wherever it stands in the other processes.
LEMMA ConfirmTaskFits ==
    ASSUME NEW t \in ConfirmTasks PROVE t \in Tasks /\ ReadFits(t) /\ PassFits(t) /\ t.pc \in Confirming
<1>1. t.pc \in Confirming
  BY DEF ConfirmTasks, Confirming, Booking, Settling
<1>2. t.pc \notin {"tohash", "logs", "recheck", "persist", "count", "link"}
  BY <1>1 DEF Confirming, Booking, Settling
<1> QED BY <1>1, <1>2 DEF Tasks, ReadFits, PassFits

LEMMA ConfirmKnows ==
    ASSUME Inv, NEW p \in Proc, task[p].pc \in Confirming
    PROVE  /\ task \in [Proc -> Tasks] /\ task[p] \in ConfirmTasks /\ ConfirmFits(task[p]) /\ StoreTypeOK
           /\ EventsFit /\ MatchesFit /\ VolumeFits /\ ConfirmedIsAccounted /\ VolumeSplit
<1>1. /\ task \in [Proc -> Tasks] /\ ConfirmFits(task[p]) /\ StoreTypeOK /\ EventsFit
      /\ MatchesFit /\ VolumeFits /\ ConfirmedIsAccounted /\ VolumeSplit
  BY TypedTasks DEF Inv, ConfirmsFit
<1>2. task[p] \in Tasks
  BY <1>1
<1>3. task[p] \in ConfirmTasks
  BY <1>2, PlaceTells DEF Confirming, Booking, Settling
<1> QED BY <1>1, <1>3

LEMMA ConfirmStep ==
    ASSUME Inv, UNCHANGED storeVars, Counts, NEW p \in Proc, NEW t \in ConfirmTasks, Become(p, t), ConfirmFits(t),
           t.pc \notin {"maker volume", "taker volume"}, Clear(p)
    PROVE  Inv'
<1>1. t \in Tasks /\ ReadFits(t) /\ PassFits(t) /\ t.pc \in Confirming
  BY ConfirmTaskFits
<1>2. Quiet(t)
  BY <1>1 DEF Quiet, Confirming, Booking, Settling
<1> QED BY <1>1, <1>2, QuietStep

\* A move of a confirmation changes its place only.
LEMMA GotoFits ==
    ASSUME NEW t \in ConfirmTasks, NEW pc \in Confirming
    PROVE  LET u == [t EXCEPT !.pc = pc]
           IN  /\ u \in ConfirmTasks /\ u.pc = pc /\ u.tx = t.tx /\ u.todo = t.todo
               /\ u.decision = t.decision /\ u.event = t.event /\ u.feeless = t.feeless
BY DEF ConfirmTasks, Confirming, Booking, Settling

LEMMA ConfirmNextFits ==
    ASSUME NEW todo \in Seq(Txs)
    PROVE  \/ ConfirmNext(todo) = Idle
           \/ ConfirmNext(todo) \in ConfirmTasks /\ ConfirmNext(todo).pc = "receipt" /\ ~ConfirmNext(todo).feeless
<1>1. CASE todo = <<>>
  BY <1>1 DEF ConfirmNext
<1>2. CASE todo # <<>>
  <2>1. PICK first, rest : first = Head(todo) /\ rest = Tail(todo)
    OBVIOUS
  <2>2. first \in Txs /\ rest \in Seq(Txs)
    BY <1>2, <2>1
  <2>3. ConfirmNext(todo) = [pc |-> "receipt", tx |-> first, todo |-> rest,
                             receipt |-> None, head |-> 0, decision |-> "none", event |-> None,
                             feeless |-> FALSE]
    BY <1>2, <2>1 DEF ConfirmNext
  <2>4. 0 \in 0 .. MaxHead
    BY IndexBounds
  <2> QED BY <2>2, <2>3, <2>4 DEF ConfirmTasks
<1> QED BY <1>1, <1>2

LEMMA ConfirmNextStep ==
    ASSUME Inv, UNCHANGED storeVars, Counts, NEW p \in Proc, NEW todo \in Seq(Txs), Become(p, ConfirmNext(todo)),
           Clear(p)
    PROVE  Inv'
<1>1. PICK t : t = ConfirmNext(todo)
  OBVIOUS
<1>2. CASE t = Idle
  BY <1>1, <1>2, EndStep DEF End
<1>3. CASE t # Idle
  <2>1. t \in ConfirmTasks /\ t.pc = "receipt" /\ ~t.feeless
    BY <1>1, <1>3, ConfirmNextFits
  <2>2. ConfirmFits(t)
    BY <2>1 DEF ConfirmFits, Booking, Settling
  <2> QED BY <1>1, <2>1, <2>2, ConfirmStep
<1> QED BY <1>2, <1>3

LEMMA ConfirmStartKeeps == ASSUME Inv, Counts, NEW p \in Proc, ConfirmStart(p) PROVE Inv'
<1> Clear(p)
  BY DEF Clear, ConfirmStart, Idle
<1>1. UNCHANGED storeVars
  BY DEF ConfirmStart
<1>2. \/ \E t \in Submitted : Become(p, ConfirmNext(<<t>>))
      \/ \E todo \in SetToSeqs(Unconfirmed) : Become(p, ConfirmNext(todo))
  BY DEF ConfirmStart
<1>3. CASE \E t \in Submitted : Become(p, ConfirmNext(<<t>>))
  <2>1. PICK t \in Txs : Become(p, ConfirmNext(<<t>>))
    BY <1>3 DEF Submitted
  <2>2. <<t>> \in Seq(Txs)
    OBVIOUS
  <2> QED BY <1>1, <2>1, <2>2, ConfirmNextStep
<1>4. CASE \E todo \in SetToSeqs(Unconfirmed) : Become(p, ConfirmNext(todo))
  <2>1. PICK todo \in SetToSeqs(Unconfirmed) : Become(p, ConfirmNext(todo))
    BY <1>4
  <2>2. Unconfirmed \subseteq Txs
    BY DEF Unconfirmed, Submitted
  <2>3. PICK n : n = Cardinality(Unconfirmed)
    OBVIOUS
  <2>4. n \in Nat
    BY <2>2, <2>3, FS_Subset, FS_CardinalityType, IndexBounds
  <2>5. todo \in [1 .. n -> Unconfirmed]
    BY <2>1, <2>3 DEF SetToSeqs
  <2>6. todo \in [1 .. n -> Txs]
    BY <2>2, <2>5
  <2>7. todo \in Seq(Txs)
    BY <2>4, <2>6, SeqDef
  <2> QED BY <1>1, <2>1, <2>7, ConfirmNextStep
<1> QED BY <1>2, <1>3, <1>4

LEMMA ReceiptType == ASSUME StoreTypeOK, NEW t PROVE Receipt(t) \subseteq Receipts
<1>1. \A h \in 1 .. Len(chain) : chain[h] \in Blocks /\ h \in 1 .. MaxHead
  BY IndexBounds DEF StoreTypeOK
<1>2. \A h \in 1 .. Len(chain) : [height |-> h, hash |-> chain[h].fork, ok |-> chain[h].ok] \in Receipts
  BY <1>1 DEF Blocks, Receipts
<1> QED BY <1>2 DEF Receipt

LEMMA ConfirmReceiptKeeps == ASSUME Inv, Counts, NEW p \in Proc, ConfirmReceipt(p) PROVE Inv'
<1> Clear(p)
  BY DEF Clear, ConfirmReceipt
<1>1. task[p] \in ConfirmTasks /\ StoreTypeOK /\ UNCHANGED storeVars /\ ~task[p].feeless
  BY ConfirmKnows DEF ConfirmReceipt, Confirming, ConfirmFits
<1>2. PICK found : found = Receipt(task[p].tx)
  OBVIOUS
<1>3. found \subseteq Receipts
  BY <1>1, <1>2, ReceiptType
<1>4. CASE found = {}
  <2>1. PICK t : t = [task[p] EXCEPT !.pc = "decide"]
    OBVIOUS
  <2>2. t \in ConfirmTasks /\ t.pc = "decide" /\ Become(p, t) /\ ~t.feeless
    BY <1>1, <1>2, <1>4, <2>1 DEF ConfirmTasks, ConfirmReceipt
  <2>3. ConfirmFits(t)
    BY <2>2 DEF ConfirmFits, Booking, Settling
  <2> QED BY <1>1, <2>2, <2>3, ConfirmStep
<1>5. CASE found # {}
  <2>1. PICK r : r = CHOOSE x \in found : TRUE
    OBVIOUS
  <2>2. r \in Receipts
    BY <1>3, <1>5, <2>1
  <2>3. PICK t : t = [task[p] EXCEPT !.pc = "height", !.receipt = r]
    OBVIOUS
  <2>4. t \in ConfirmTasks /\ t.pc = "height" /\ ~t.feeless
    BY <1>1, <2>2, <2>3 DEF ConfirmTasks
  <2>5. Become(p, t)
    BY <1>2, <1>5, <2>1, <2>3 DEF ConfirmReceipt
  <2>6. ConfirmFits(t)
    BY <2>4 DEF ConfirmFits, Booking, Settling
  <2> QED BY <1>1, <2>4, <2>5, <2>6, ConfirmStep
<1> QED BY <1>4, <1>5

LEMMA ConfirmHeightKeeps == ASSUME Inv, Counts, NEW p \in Proc, ConfirmHeight(p) PROVE Inv'
<1> Clear(p)
  BY DEF Clear, ConfirmHeight
<1>1. task[p] \in ConfirmTasks /\ StoreTypeOK /\ UNCHANGED storeVars /\ ~task[p].feeless
  BY ConfirmKnows DEF ConfirmHeight, Confirming, ConfirmFits
<1>2. BlockNumber \in 0 .. MaxHead
  BY <1>1, IndexBounds DEF StoreTypeOK, BlockNumber
<1>3. PICK t : t = [task[p] EXCEPT !.pc = "decide", !.head = BlockNumber]
  OBVIOUS
<1>4. t \in ConfirmTasks /\ t.pc = "decide" /\ Become(p, t) /\ ~t.feeless
  BY <1>1, <1>2, <1>3 DEF ConfirmTasks, ConfirmHeight
<1>5. ConfirmFits(t)
  BY <1>4 DEF ConfirmFits, Booking, Settling
<1> QED BY <1>1, <1>4, <1>5, ConfirmStep

\* The events matched with a transaction are one event, which is the first.
LEMMA FirstOfFits ==
    ASSUME StoreTypeOK, EventsFit, MatchesFit, NEW t, MatchedOf(t) # {}
    PROVE  FirstOf(MatchedOf(t)) \in MatchedOf(t) /\ MatchedOf(t) \subseteq Trades
<1>1. \A e \in MatchedOf(t) : e \in events /\ e.tx = t /\ Key(e) \in Matches
  <2> SUFFICES ASSUME NEW e \in MatchedOf(t)
               PROVE  e \in events /\ e.tx = t /\ Key(e) \in Matches
    OBVIOUS
  <2>1. e \in events /\ e.tx = t /\ [event |-> Key(e), status |-> "matched"] \in links
    BY DEF MatchedOf, EventsOf
  <2>2. PICK l \in links : l.status = "matched" /\ l.event = Key(e)
    BY <2>1
  <2>3. Key(e) \in {m.event : m \in {m \in links : m.status = "matched"}}
    BY <2>2
  <2> QED BY <2>1, <2>3 DEF Matches
<1>2. \A e : Key(e)[1] = e.tx
  BY DEF Key
<1>3. \A e, f \in MatchedOf(t) : e = f
  BY <1>1, <1>2 DEF MatchesFit, EventsFit
<1>4. MatchedOf(t) \subseteq Trades
  BY <1>1 DEF StoreTypeOK
<1>5. PICK e \in MatchedOf(t) : TRUE
  OBVIOUS
<1>6. e.height \in Nat /\ e.index \in Nat
  BY <1>4, <1>5 DEF Trades
<1>7. \A f \in MatchedOf(t) : e.height < f.height \/ (e.height = f.height /\ e.index <= f.index)
  BY <1>3, <1>5, <1>6
<1> QED BY <1>4, <1>5, <1>7 DEF FirstOf

LEMMA ConfirmDecideKeeps == ASSUME Inv, Counts, NEW p \in Proc, ConfirmDecide(p) PROVE Inv'
<1> Clear(p)
  BY DEF Clear, ConfirmDecide
<1>1. /\ task[p] \in ConfirmTasks /\ StoreTypeOK /\ EventsFit /\ MatchesFit
      /\ UNCHANGED storeVars /\ ~task[p].feeless
  BY ConfirmKnows DEF ConfirmDecide, Confirming, ConfirmFits
<1>2. PICK u : u = [task[p] EXCEPT !.receipt = None, !.head = 0]
  OBVIOUS
<1>3. u \in ConfirmTasks /\ u.tx = task[p].tx /\ ~u.feeless
  <2>1. 0 \in 0 .. MaxHead
    BY IndexBounds
  <2> QED BY <1>1, <1>2, <2>1 DEF ConfirmTasks
<1>4. CASE DecideConfirmation(task[p])
  <2>1. MatchedOf(u.tx) # {}
    BY <1>3, <1>4 DEF DecideConfirmation
  <2>2. PICK e : e = FirstOf(MatchedOf(u.tx))
    OBVIOUS
  <2>3. e \in MatchedOf(u.tx) /\ e \in Trades
    BY <1>1, <2>1, <2>2, FirstOfFits
  <2>4. PICK pc \in FeePaths(u.tx) :
            Become(p, [u EXCEPT !.decision = "confirmed", !.event = e, !.pc = pc, !.feeless = (pc = "apply")])
    BY <1>2, <1>4, <2>2 DEF ConfirmDecide
  <2>5. PICK t : t = [u EXCEPT !.decision = "confirmed", !.event = e, !.pc = pc, !.feeless = (pc = "apply")]
    OBVIOUS
  <2>6. IF origin[u.tx] = "V2" THEN pc = "v2receipt" ELSE pc \in {"maker", "apply"}
    BY <2>4 DEF FeePaths
  <2>7. /\ t \in ConfirmTasks /\ t.pc = pc /\ t.decision = "confirmed" /\ t.event = e /\ t.tx = u.tx
        /\ t.feeless = (pc = "apply")
    BY <1>3, <2>3, <2>5, <2>6 DEF ConfirmTasks
  <2>8. ConfirmFits(t)
    BY <2>3, <2>6, <2>7 DEF ConfirmFits, Booking, Settling
  <2>9. Become(p, t) /\ t.pc \notin {"maker volume", "taker volume"}
    BY <2>4, <2>5, <2>6, <2>7
  <2> QED BY <1>1, <2>7, <2>8, <2>9, ConfirmStep
<1>5. CASE ~DecideConfirmation(task[p])
  <2>1. PICK t : t = [u EXCEPT !.decision = "refused", !.pc = "apply"]
    OBVIOUS
  <2>2. t \in ConfirmTasks /\ t.pc = "apply" /\ t.decision = "refused" /\ ~t.feeless
    BY <1>3, <2>1 DEF ConfirmTasks
  <2>3. ConfirmFits(t)
    BY <2>2 DEF ConfirmFits, Booking, Settling
  <2>4. Become(p, t)
    BY <1>2, <1>5, <2>1 DEF ConfirmDecide
  <2> QED BY <1>1, <2>2, <2>3, <2>4, ConfirmStep
<1> QED BY <1>4, <1>5

-----------------------------------------------------------------------------
(* The fees.                                                               *)

LEMMA FeeFits ==
    ASSUME StoreTypeOK, NEW t \in ConfirmTasks, ConfirmFits(t), t.pc \in Booking, NEW role \in Roles
    PROVE  <<Key(t.event), Payer(t.tx, role)>> \in EventKeys \X Roles
<1>1. t.event \in MatchedOf(t.tx)
  BY DEF ConfirmFits
<1>2. t.event \in Trades
  BY <1>1 DEF MatchedOf, EventsOf, StoreTypeOK
<1>3. Key(t.event) \in EventKeys
  BY <1>2 DEF Key, Trades, EventKeys
<1>4. Payer(t.tx, role) \in Roles
  BY DEF Payer, Roles
<1> QED BY <1>3, <1>4

\* The maker pays as the maker, whoever the taker is.
LEMMA MakerPays == \A t : Payer(t, "maker") = "maker"
BY DEF Payer

\* A step of a confirmation that books something.
LEMMA BookStep ==
    ASSUME Inv, Counts, NEW p \in Proc, task[p].pc \in Confirming, NEW t \in ConfirmTasks, Become(p, t),
           ConfirmFits(t)', UNCHANGED <<chain, forks, events, links>>, Grown, StoreTypeOK',
           VolumeFits', ConfirmedIsAccounted', VolumeSplit'
    PROVE  Inv'
<1>1. task \in [Proc -> Tasks] /\ EventsFit /\ MatchesFit
  BY ConfirmKnows
<1>2. t \in Tasks /\ ReadFits(t) /\ PassFits(t) /\ t.pc \in Confirming
  BY ConfirmTaskFits
<1>3. EventsFit'
  BY <1>1 DEF EventsFit, Key
<1>4. MatchesFit'
  <2>1. task'[p] = t /\ \A q \in Proc \ {p} : task'[q] = task[q]
    BY <1>1, <1>2, BecomeChanges
  <2>2. t.pc # "link"
    BY <1>2 DEF Confirming, Booking, Settling
  <2>3. Matches' \subseteq Matches
    BY <2>1, <2>2 DEF Matches, Matching
  <2> QED BY <1>1, <2>3 DEF MatchesFit
<1> QED BY <1>2, <1>3, <1>4, CoreStep

\* Where record_perp_trade_fees goes on when the fee of a role is there.
LEMMA AfterRoleFits ==
    ASSUME NEW t \in ConfirmTasks, ConfirmFits(t), t.pc \in Booking, NEW role \in Roles,
           <<Key(t.event), Payer(t.tx, role)>> \in feeEvents, role = "taker" => t.pc \in {"taker", "taker volume"},
           NEW u, u = [t EXCEPT !.pc = IF role = "maker" THEN "taker" ELSE "apply"]
    PROVE  u \in ConfirmTasks /\ ConfirmFits(u) /\ u.pc \in {"taker", "apply"}
<1>1. /\ t.decision = "confirmed" /\ t.event \in MatchedOf(t.tx) /\ origin[t.tx] # "V2" /\ ~t.feeless
      /\ t.pc # "maker" => <<Key(t.event), "maker">> \in feeEvents
  BY DEF ConfirmFits, Booking
<1>2. CASE role = "maker"
  <2>1. u = [t EXCEPT !.pc = "taker"] /\ "taker" \in Confirming
    BY <1>2 DEF Confirming, Booking
  <2>2. /\ u \in ConfirmTasks /\ u.pc = "taker" /\ u.tx = t.tx
        /\ u.decision = t.decision /\ u.event = t.event /\ u.feeless = t.feeless
    BY <2>1 DEF ConfirmTasks
  <2> QED BY <1>1, <1>2, <2>2, MakerPays DEF ConfirmFits, Booking, Settling
<1>3. CASE role = "taker"
  <2>1. u = [t EXCEPT !.pc = "apply"] /\ "apply" \in Confirming
    BY <1>3 DEF Confirming
  <2>2. /\ u \in ConfirmTasks /\ u.pc = "apply" /\ u.tx = t.tx
        /\ u.decision = t.decision /\ u.event = t.event /\ u.feeless = t.feeless
    BY <2>1 DEF ConfirmTasks
  <2>3. Accounted(t.tx, t.event)
    BY <1>1, <1>3, MakerPays DEF Accounted, Roles
  <2> QED BY <1>1, <2>2, <2>3 DEF ConfirmFits, Booking, Settling
<1> QED BY <1>2, <1>3 DEF Roles

LEMMA FeeInsertKeeps == ASSUME Inv, Counts, NEW p \in Proc, NEW role \in Roles, FeeInsert(p, role) PROVE Inv'
<1> Clear(p)
  BY DEF Clear, FeeInsert, Roles
<1>1. /\ UNCHANGED <<chain, forks, origin, cursor, events, links, confStatus, confirmed, feeless, volume, rebates, canonFees>>
      /\ task[p].pc = role
  BY DEF FeeInsert, nodeVars, indexVars
<1>2. role \in {"maker", "taker"} /\ task[p].pc \in Booking /\ task[p].pc \in Confirming
  BY <1>1 DEF Roles, Booking, Confirming
<1>3. /\ task \in [Proc -> Tasks] /\ task[p] \in ConfirmTasks /\ ConfirmFits(task[p]) /\ StoreTypeOK
      /\ VolumeFits /\ ConfirmedIsAccounted /\ VolumeSplit
  BY <1>2, ConfirmKnows
<1>4. PICK fee : fee = <<Key(task[p].event), Payer(task[p].tx, role)>>
  OBVIOUS
<1>5. fee = Fee(p, role)
  BY <1>4 DEF Fee
<1>6. CASE fee \in feeEvents
  <2>1. PICK t : t = [task[p] EXCEPT !.pc = IF role = "maker" THEN "taker" ELSE "apply"]
    OBVIOUS
  <2>2. t \in ConfirmTasks /\ ConfirmFits(t) /\ t.pc \in {"taker", "apply"}
    BY <1>1, <1>2, <1>3, <1>4, <1>6, <2>1, AfterRoleFits
  <2>3. Become(p, t) /\ UNCHANGED feeEvents
    BY <1>5, <1>6, <2>1 DEF FeeInsert, AfterRole, Goto
  <2>4. UNCHANGED storeVars
    BY <1>1, <2>3 DEF storeVars, nodeVars, indexVars, ledgerVars
  <2> QED BY <2>2, <2>3, <2>4, ConfirmStep
<1>7. CASE fee \notin feeEvents
  <2>1. PICK t : t = [task[p] EXCEPT !.pc = VolumePc(role)]
    OBVIOUS
  <2>2. Become(p, t) /\ feeEvents' = feeEvents \cup {fee}
    BY <1>5, <1>7, <2>1 DEF FeeInsert, Goto
  <2>3. VolumePc(role) \in Confirming /\ VolumePc(role) \in Booking
    BY DEF VolumePc, Confirming, Booking
  <2>4. /\ t \in ConfirmTasks /\ t.pc = VolumePc(role) /\ t.tx = task[p].tx
        /\ t.decision = task[p].decision /\ t.event = task[p].event /\ t.feeless = task[p].feeless
    BY <1>3, <2>1, <2>3, GotoFits
  <2>5. Grown
    BY <1>1, <2>2 DEF Grown
  <2>6. ConfirmFits(t)'
    <3>1. /\ origin[t.tx] # "V2" /\ t.decision = "confirmed" /\ t.event \in MatchedOf(t.tx) /\ ~t.feeless
          /\ task[p].pc # "maker" => <<Key(t.event), "maker">> \in feeEvents
      BY <1>2, <1>3, <2>4 DEF ConfirmFits
    <3>2. t.event \in MatchedOf(t.tx)'
      BY <1>1, <3>1 DEF MatchedOf, EventsOf
    <3>3. <<Key(t.event), "maker">> \in feeEvents'
      BY <1>1, <1>2, <1>4, <2>2, <2>4, <3>1, MakerPays
    <3>4. t.pc = "taker volume" => <<Key(t.event), Payer(t.tx, "taker")>> \in feeEvents'
      BY <1>2, <1>4, <2>2, <2>4 DEF VolumePc
    <3> QED BY <1>1, <2>3, <2>4, <3>1, <3>2, <3>3, <3>4 DEF ConfirmFits, VolumePc, Booking, Settling, Key, Payer
  <2>7. StoreTypeOK'
    <3>1. fee \in EventKeys \X Roles
      BY <1>2, <1>3, <1>4, FeeFits
    <3> QED BY <1>1, <1>3, <2>2, <3>1 DEF StoreTypeOK
  <2>8. VolumeFits'
    <3>1. task'[p] = t /\ \A q \in Proc \ {p} : task'[q] = task[q]
      BY <1>3, <2>2, <2>4, BecomeChanges, ConfirmTaskFits
    <3>2. Fee(p, role)' = fee
      BY <1>1, <1>4, <2>4, <3>1 DEF Fee, Key, Payer
    <3>3. \A r \in Roles : t.pc = VolumePc(r) => r = role
      BY <1>2, <2>4 DEF VolumePc, Roles
    <3>4. fee \notin DOMAIN volume
      BY <1>3, <1>7 DEF StoreTypeOK
    <3>5. \A q \in Proc \ {p}, r \in Roles : Fee(q, r)' = Fee(q, r)
      BY <1>1, <3>1 DEF Fee, Key, Payer
    <3>6. \A q \in Proc \ {p}, r \in Roles : task[q].pc = VolumePc(r) => Fee(q, r) \in feeEvents
      BY MakerPays DEF Inv, ConfirmsFit, ConfirmFits, Fee, VolumePc, Booking, Roles
    <3>7. ASSUME NEW q \in Proc, NEW r \in Roles, task'[q].pc = VolumePc(r)
          PROVE  Fee(q, r)' \notin DOMAIN volume
      <4>1. CASE q = p
        BY <4>1, <3>1, <3>2, <3>3, <3>4, <3>7
      <4>2. CASE q # p
        BY <4>2, <1>3, <3>1, <3>5, <3>7 DEF VolumeFits
      <4> QED BY <4>1, <4>2
    <3>8. ASSUME NEW q \in Proc, NEW s \in Proc, NEW r \in Roles, NEW x \in Roles,
                 task'[q].pc = VolumePc(r), task'[s].pc = VolumePc(x), Fee(q, r)' = Fee(s, x)'
          PROVE  q = s
      <4>1. CASE q # p /\ s # p
        BY <4>1, <1>3, <3>1, <3>5, <3>8 DEF VolumeFits
      <4>2. CASE q = p /\ s # p
        BY <4>2, <1>7, <3>1, <3>2, <3>3, <3>5, <3>6, <3>8
      <4>3. CASE q # p /\ s = p
        BY <4>3, <1>7, <3>1, <3>2, <3>3, <3>5, <3>6, <3>8
      <4> QED BY <4>1, <4>2, <4>3
    <3> QED BY <1>1, <3>7, <3>8 DEF VolumeFits, VolumePc, Roles
  <2>9. ConfirmedIsAccounted'
    BY <1>1, <1>3, <2>5, AccountsKept
  <2>10. VolumeSplit'
    <3>1. task'[p] = t /\ \A q \in Proc \ {p} : task'[q] = task[q]
      BY <1>3, <2>2, <2>4, BecomeChanges, ConfirmTaskFits
    <3>2. Fee(p, role)' = fee
      BY <1>1, <1>4, <2>4, <3>1 DEF Fee, Key, Payer
    <3>3. \A r \in Roles : t.pc = VolumePc(r) => r = role
      BY <1>2, <2>4 DEF VolumePc, Roles
    <3>4. fee \notin lost /\ lost' = lost
      BY <1>7 DEF Inv, TypeOK, Counts
    <3>5. \A q \in Proc \ {p}, r \in Roles : Fee(q, r)' = Fee(q, r)
      BY <1>1, <3>1 DEF Fee, Key, Payer
    <3>6. Owes(p, fee)'
      BY <2>4, <3>1, <3>2 DEF Owes, VolumePc
    <3>7. \A q \in Proc, f \in feeEvents : Owes(q, f) => Owes(q, f)'
      BY <3>1, <3>5 DEF Owes, Clear, VolumePc
    <3>8. \A q \in Proc, r \in Roles : task'[q].pc = VolumePc(r) => Fee(q, r)' \notin lost
      BY <1>3, <3>1, <3>2, <3>3, <3>4, <3>5 DEF VolumeSplit
    <3>9. \A f \in feeEvents' : f \in DOMAIN volume \/ f \in lost \/ \E q \in Proc : Owes(q, f)'
      BY <1>3, <2>2, <3>6, <3>7 DEF VolumeSplit
    <3> QED BY <1>1, <1>3, <3>4, <3>8, <3>9 DEF VolumeSplit, VolumePc
  <2> QED BY <1>1, <1>2, <2>2, <2>4, <2>5, <2>6, <2>7, <2>8, <2>9, <2>10, BookStep
<1> QED BY <1>6, <1>7

LEMMA FeeVolumeKeeps == ASSUME Inv, Counts, NEW p \in Proc, NEW role \in Roles, FeeVolume(p, role) PROVE Inv'
<1>1. /\ UNCHANGED <<chain, forks, origin, cursor, events, links, confStatus, confirmed, feeless, feeEvents, rebates, canonFees>>
      /\ task[p].pc = VolumePc(role)
  BY DEF FeeVolume, nodeVars, indexVars
<1>2. role \in {"maker", "taker"} /\ task[p].pc \in Booking /\ task[p].pc \in Confirming
  BY <1>1 DEF Roles, Booking, Confirming, VolumePc
<1>3. /\ task \in [Proc -> Tasks] /\ task[p] \in ConfirmTasks /\ ConfirmFits(task[p]) /\ StoreTypeOK
      /\ VolumeFits /\ ConfirmedIsAccounted /\ VolumeSplit
  BY <1>2, ConfirmKnows
<1>4. PICK fee : fee = Fee(p, role)
  OBVIOUS
<1>5. fee = <<Key(task[p].event), Payer(task[p].tx, role)>> /\ fee \in feeEvents
  BY <1>1, <1>2, <1>3, <1>4, MakerPays DEF Fee, ConfirmFits, VolumePc, Booking
<1>6. fee \notin DOMAIN volume
  BY <1>1, <1>3, <1>4 DEF VolumeFits
<1>7. PICK t : t = [task[p] EXCEPT !.pc = IF role = "maker" THEN "rebate" ELSE "apply"]
  OBVIOUS
<1>8. Become(p, t)
  BY <1>2, <1>7 DEF FeeVolume, AfterRole, Goto
<1>9. t \in ConfirmTasks /\ ConfirmFits(t) /\ t.pc \in {"rebate", "apply"}
  <2>1. CASE role = "maker"
    <3>1. /\ t \in ConfirmTasks /\ t.pc = "rebate" /\ t.tx = task[p].tx
          /\ t.decision = task[p].decision /\ t.event = task[p].event /\ t.feeless = task[p].feeless
      BY <1>3, <1>7, <2>1 DEF ConfirmTasks
    <3> QED BY <1>1, <1>2, <1>3, <1>5, <2>1, <3>1, MakerPays DEF ConfirmFits, Booking, Settling
  <2>2. CASE role = "taker"
    <3>1. t = [task[p] EXCEPT !.pc = IF role = "maker" THEN "taker" ELSE "apply"] /\ t.pc = "apply"
      BY <1>3, <1>7, <2>2 DEF ConfirmTasks
    <3>2. role = "taker" => task[p].pc \in {"taker", "taker volume"}
      BY <1>1, <2>2 DEF VolumePc
    <3> QED BY <1>2, <1>3, <1>5, <3>1, <3>2, AfterRoleFits
  <2> QED BY <1>2, <2>1, <2>2
<1>10. /\ DOMAIN volume' = DOMAIN volume \cup {fee}
       /\ \A g \in DOMAIN volume' : volume'[g] = 1
       /\ volume' \in [DOMAIN volume' -> Nat]
  <2> DEFINE new == [g \in DOMAIN volume \cup {fee} |->
                        (IF g \in DOMAIN volume THEN volume[g] ELSE 0) + (IF g = fee THEN 1 ELSE 0)]
  <2>1. volume' = new
    BY <1>4 DEF FeeVolume, AddVolume
  <2>2. \A g \in DOMAIN volume : volume[g] = 1
    BY <1>3 DEF VolumeSplit
  <2>3. DOMAIN new = DOMAIN volume \cup {fee} /\ \A g \in DOMAIN volume \cup {fee} : new[g] = 1
    BY <1>6, <2>2
  <2>4. new \in [DOMAIN volume \cup {fee} -> Nat]
    BY <1>6, <2>2
  <2> HIDE DEF new
  <2> QED BY <2>1, <2>3, <2>4
<1>11. StoreTypeOK'
  BY <1>1, <1>3, <1>5, <1>10 DEF StoreTypeOK
<1>12. Grown
  BY <1>1 DEF Grown
<1>13. VolumeFits'
  <2>1. task'[p] = t /\ \A q \in Proc \ {p} : task'[q] = task[q]
    BY <1>3, <1>8, <1>9, BecomeChanges, ConfirmTaskFits
  <2>2. \A q \in Proc, r \in Roles : task'[q].pc = VolumePc(r) => q # p /\ task'[q] = task[q]
    BY <1>9, <2>1 DEF VolumePc
  <2>3. ASSUME NEW q \in Proc, NEW r \in Roles, task'[q].pc = VolumePc(r)
        PROVE  Fee(q, r)' = Fee(q, r) /\ Fee(q, r) \notin DOMAIN volume /\ Fee(q, r) # fee
    <3>1. q # p /\ task'[q] = task[q] /\ task[q].pc = VolumePc(r)
      BY <2>2, <2>3
    <3>2. Fee(q, r)' = Fee(q, r) /\ Fee(q, r) \notin DOMAIN volume
      BY <1>1, <1>3, <3>1 DEF Fee, Key, Payer, VolumeFits
    <3>4. Fee(q, r) # fee
      BY <1>1, <1>3, <1>4, <3>1 DEF VolumeFits
    <3> QED BY <3>2, <3>4
  <2>4. \A q \in Proc, r \in Roles : task'[q].pc = VolumePc(r) => Fee(q, r)' \notin DOMAIN volume'
    BY <1>10, <2>3
  <2>5. \A q, s \in Proc, r, x \in Roles :
            task'[q].pc = VolumePc(r) /\ task'[s].pc = VolumePc(x) /\ Fee(q, r)' = Fee(s, x)' => q = s
    BY <1>3, <2>2, <2>3 DEF VolumeFits
  <2> QED BY <2>4, <2>5 DEF VolumeFits, VolumePc, Roles
<1>16. VolumeSplit'
  <2>1. task'[p] = t /\ \A q \in Proc \ {p} : task'[q] = task[q]
    BY <1>3, <1>8, <1>9, BecomeChanges, ConfirmTaskFits
  <2>2. fee \notin lost /\ lost' = lost
    BY <1>1, <1>3, <1>4 DEF VolumeSplit, Counts
  <2>3. \A q \in Proc, r \in Roles : task'[q].pc = VolumePc(r) => q # p /\ task[q].pc = VolumePc(r) /\ Fee(q, r)' = Fee(q, r)
    BY <1>1, <1>9, <2>1 DEF VolumePc, Fee, Payer
  <2>4. \A r \in Roles : task[p].pc = VolumePc(r) => r = role
    BY <1>1, <1>2 DEF VolumePc, Roles
  <2>5. \A q \in Proc, f \in feeEvents : Owes(q, f) => f = fee \/ Owes(q, f)'
    <3> SUFFICES ASSUME NEW q \in Proc, NEW f \in feeEvents, NEW r \in Roles,
                        task[q].pc = VolumePc(r), f = Fee(q, r), f # fee
                 PROVE  Owes(q, f)'
      BY DEF Owes
    <3>1. q # p
      BY <1>4, <2>4
    <3>2. task'[q] = task[q]
      BY <2>1, <3>1
    <3>3. task'[q].pc = VolumePc(r) /\ f = Fee(q, r)'
      BY <1>1, <3>2 DEF Fee, Payer
    <3> QED BY <3>3 DEF Owes, VolumePc
  <2>6. \A f \in feeEvents : f \in DOMAIN volume' \/ f \in lost \/ \E q \in Proc : Owes(q, f)'
    BY <1>3, <1>10, <2>5 DEF VolumeSplit
  <2>7. \A q \in Proc, r \in Roles : task'[q].pc = VolumePc(r) => Fee(q, r)' \notin lost
    BY <1>3, <2>3 DEF VolumeSplit
  <2>8. \A f \in DOMAIN volume' : volume'[f] = 1 /\ f \notin lost
    BY <1>3, <1>10, <2>2 DEF VolumeSplit
  <2> QED BY <1>1, <2>2, <2>6, <2>7, <2>8 DEF VolumeSplit, VolumePc
<1>14. ConfirmedIsAccounted'
  BY <1>1, <1>3, <1>12, AccountsKept
<1>15. ConfirmFits(t)'
  BY <1>9, <1>12, ConfirmStays
<1> QED BY <1>1, <1>2, <1>8, <1>9, <1>11, <1>12, <1>13, <1>14, <1>15, <1>16, BookStep

LEMMA FeeRebateKeeps == ASSUME Inv, Counts, NEW p \in Proc, FeeRebate(p) PROVE Inv'
<1> Clear(p)
  BY DEF Clear, FeeRebate
<1>1. /\ UNCHANGED <<chain, forks, origin, cursor, events, links, confStatus, confirmed, feeless, feeEvents, volume, canonFees>>
      /\ task[p].pc = "rebate"
  BY DEF FeeRebate, nodeVars, indexVars
<1>2. task[p].pc \in Booking /\ task[p].pc \in Confirming
  BY <1>1 DEF Booking, Confirming
<1>3. /\ task \in [Proc -> Tasks] /\ task[p] \in ConfirmTasks /\ ConfirmFits(task[p]) /\ StoreTypeOK
      /\ VolumeFits /\ ConfirmedIsAccounted /\ VolumeSplit
  BY <1>2, ConfirmKnows
<1>4. <<Key(task[p].event), "maker">> \in feeEvents
  BY <1>1, <1>2, <1>3 DEF ConfirmFits
<1>5. PICK t : t = [task[p] EXCEPT !.pc = IF "maker" = "maker" THEN "taker" ELSE "apply"]
  OBVIOUS
<1>6. Become(p, t) /\ rebates' = rebates \cup {<<Key(task[p].event), "maker">>}
  BY <1>5, MakerPays DEF FeeRebate, AfterRole, Goto, AddRebate, Fee
<1>7. t \in ConfirmTasks /\ ConfirmFits(t) /\ t.pc \in {"taker", "apply"}
  <2>1. "maker" \in Roles
    BY DEF Roles
  <2> QED BY <1>2, <1>3, <1>4, <1>5, <2>1, AfterRoleFits, MakerPays
<1>8. StoreTypeOK'
  BY <1>1, <1>3, <1>4, <1>6 DEF StoreTypeOK
<1>9. Grown
  BY <1>1 DEF Grown
<1>10. VolumeFits' /\ VolumeSplit'
  <2>1. t \in Tasks /\ Quiet(t)
    BY <1>7, ConfirmTaskFits DEF Quiet
  <2> QED BY <1>1, <1>3, <1>6, <2>1, VolumeKept, SplitKept DEF Counts
<1>11. ConfirmedIsAccounted'
  BY <1>1, <1>3, <1>9, AccountsKept
<1>12. ConfirmFits(t)'
  BY <1>7, <1>9, ConfirmStays
<1> QED BY <1>1, <1>2, <1>6, <1>7, <1>8, <1>9, <1>10, <1>11, <1>12, BookStep

LEMMA V2CheckKeeps ==
    ASSUME Inv, Counts, NEW p \in Proc, task[p].pc \in Settling, NEW pc \in Settling,
           UNCHANGED storeVars, Goto(p, pc) \/ End(p)
    PROVE  Inv'
<1> Clear(p)
  BY DEF Clear, Settling
<1>1. task[p] \in ConfirmTasks /\ ConfirmFits(task[p]) /\ pc \in Confirming
  BY ConfirmKnows DEF Confirming
<1>2. PICK t : t = [task[p] EXCEPT !.pc = pc]
  OBVIOUS
<1>3. /\ t \in ConfirmTasks /\ t.pc = pc /\ t.tx = task[p].tx
      /\ t.decision = task[p].decision /\ t.event = task[p].event /\ t.feeless = task[p].feeless
  BY <1>1, <1>2, GotoFits
<1>4. ConfirmFits(t) /\ t.pc \notin {"maker volume", "taker volume"}
  BY <1>1, <1>3 DEF ConfirmFits, Booking, Settling
<1>5. Become(p, t) \/ End(p)
  BY <1>2 DEF Goto
<1> QED BY <1>3, <1>4, <1>5, ConfirmStep, EndStep

LEMMA V2PersistKeeps == ASSUME Inv, Counts, NEW p \in Proc, V2Persist(p) PROVE Inv'
<1> Clear(p)
  BY DEF Clear, V2Persist
<1>1. /\ UNCHANGED <<chain, forks, origin, cursor, events, links, confStatus, confirmed, feeless, feeEvents, volume, rebates>>
      /\ task[p].pc = "v2persist"
  BY DEF V2Persist, nodeVars, indexVars
<1>2. task[p].pc \in Settling /\ task[p].pc \in Confirming
  BY <1>1 DEF Settling, Confirming
<1>3. /\ task \in [Proc -> Tasks] /\ task[p] \in ConfirmTasks /\ ConfirmFits(task[p]) /\ StoreTypeOK
      /\ VolumeFits /\ ConfirmedIsAccounted /\ VolumeSplit
  BY <1>2, ConfirmKnows
<1>4. /\ origin[task[p].tx] = "V2" /\ task[p].decision = "confirmed" /\ ~task[p].feeless
      /\ task[p].event \in MatchedOf(task[p].tx)
  BY <1>2, <1>3 DEF ConfirmFits
<1>5. PICK t : t = [task[p] EXCEPT !.pc = "apply"]
  OBVIOUS
<1>6. /\ t \in ConfirmTasks /\ t.pc = "apply" /\ t.tx = task[p].tx
      /\ t.decision = task[p].decision /\ t.event = task[p].event /\ t.feeless = task[p].feeless
  BY <1>3, <1>5 DEF ConfirmTasks
<1>7. Become(p, t) /\ canonFees' = canonFees \cup {t.event}
  BY <1>5, <1>6 DEF V2Persist, Goto
<1>8. StoreTypeOK'
  <2>1. t.event \in events
    BY <1>4, <1>6 DEF MatchedOf, EventsOf
  <2> QED BY <1>1, <1>3, <1>7, <2>1 DEF StoreTypeOK
<1>9. Grown
  BY <1>1, <1>7 DEF Grown
<1>10. VolumeFits' /\ VolumeSplit'
  <2>1. t \in Tasks /\ Quiet(t)
    BY <1>6, ConfirmTaskFits DEF Quiet
  <2> QED BY <1>1, <1>3, <1>7, <2>1, VolumeKept, SplitKept DEF Counts
<1>11. ConfirmedIsAccounted'
  BY <1>1, <1>3, <1>9, AccountsKept
<1>12. ConfirmFits(t)'
  <2>1. t.event \in MatchedOf(t.tx)'
    BY <1>1, <1>4, <1>6 DEF MatchedOf, EventsOf
  <2>2. Accounted(t.tx, t.event)'
    BY <1>1, <1>4, <1>6, <1>7 DEF Accounted
  <2> QED BY <1>4, <1>6, <2>1, <2>2 DEF ConfirmFits, Booking, Settling
<1> QED BY <1>1, <1>2, <1>6, <1>7, <1>8, <1>9, <1>10, <1>11, <1>12, BookStep

LEMMA ConfirmApplyKeeps == ASSUME Inv, Counts, NEW p \in Proc, ConfirmApply(p) PROVE Inv'
<1> Clear(p)
  BY DEF Clear, ConfirmApply
<1>1. /\ UNCHANGED <<chain, forks, origin, cursor, events, links, feeEvents, volume, rebates, canonFees>>
      /\ task[p].pc = "apply"
  BY DEF ConfirmApply, nodeVars, indexVars, ledgerVars
<1>2. task[p].pc \in Confirming
  BY <1>1 DEF Confirming
<1>3. /\ task \in [Proc -> Tasks] /\ task[p] \in ConfirmTasks /\ ConfirmFits(task[p]) /\ StoreTypeOK
      /\ EventsFit /\ MatchesFit /\ VolumeFits /\ ConfirmedIsAccounted /\ VolumeSplit
  BY <1>2, ConfirmKnows
<1>4. PICK t : t = ConfirmNext(task[p].todo)
  OBVIOUS
<1>5. task[p].tx \in Txs /\ task[p].todo \in Seq(Txs) /\ task[p].decision \in {"refused", "confirmed"}
  BY <1>1, <1>3 DEF ConfirmTasks, ConfirmFits
<1>6. t = Idle \/ (t \in ConfirmTasks /\ t.pc = "receipt" /\ ~t.feeless)
  BY <1>4, <1>5, ConfirmNextFits
<1>7. t \in Tasks /\ t.pc \in {"idle", "receipt"} /\ (t.pc = "receipt" => ~t.feeless) /\ Become(p, t)
  BY <1>4, <1>6, IdleFits, ConfirmTaskFits DEF ConfirmApply
<1>8. Quiet(t) /\ ReadFits(t) /\ PassFits(t) /\ ConfirmFits(t)'
  BY <1>7 DEF Quiet, ReadFits, PassFits, ConfirmFits, Booking, Settling
<1>9. /\ confStatus' = [confStatus EXCEPT ![task[p].tx] = task[p].decision]
      /\ confirmed' = IF task[p].decision = "confirmed" THEN confirmed \cup {task[p].tx} ELSE confirmed
      /\ feeless' = IF task[p].feeless THEN feeless \cup {task[p].tx} ELSE feeless
  BY DEF ConfirmApply, Apply
<1>10. StoreTypeOK'
  <2>1. confStatus' \in [Txs -> {"pending", "refused", "confirmed"}] /\ confirmed' \subseteq Txs
    BY <1>3, <1>5, <1>9 DEF StoreTypeOK
  <2>2. feeless' \subseteq confirmed'
    BY <1>1, <1>3, <1>9 DEF StoreTypeOK, ConfirmFits
  <2> QED BY <1>1, <1>3, <2>1, <2>2 DEF StoreTypeOK
<1>11. Grown
  BY <1>1, <1>9 DEF Grown
<1>12. EventsFit' /\ VolumeSplit'
  BY <1>1, <1>3, <1>7, <1>8, SplitKept DEF EventsFit, Counts
<1>13. MatchesFit'
  BY <1>1, <1>3, <1>7, <1>8, MatchesKept
<1>14. VolumeFits'
  BY <1>1, <1>3, <1>7, <1>8, VolumeKept
<1>15. ConfirmedIsAccounted'
  <2> SUFFICES ASSUME NEW x \in confirmed'
               PROVE  \E e \in MatchedOf(x)' : Accounted(x, e)'
    BY DEF ConfirmedIsAccounted, Accounted
  <2>1. \A e : e \in MatchedOf(x) => e \in MatchedOf(x)'
    BY <1>1 DEF MatchedOf, EventsOf
  <2>2. \A e : Accounted(x, e) => Accounted(x, e)'
    BY <1>1, <1>9 DEF Accounted, Payer
  <2>3. CASE x \in confirmed
    BY <1>3, <2>1, <2>2, <2>3 DEF ConfirmedIsAccounted, Accounted
  <2>4. CASE x \notin confirmed
    <3>1. x = task[p].tx /\ task[p].decision = "confirmed"
      BY <1>9, <2>4
    <3>3. PICK e : e = task[p].event
      OBVIOUS
    <3>2. e \in MatchedOf(x) /\ (task[p].feeless \/ Accounted(x, e)) /\ (task[p].feeless => origin[x] # "V2")
      BY <1>1, <1>3, <3>1, <3>3 DEF ConfirmFits
    <3>4. task[p].feeless => Accounted(x, e)'
      BY <1>1, <1>9, <3>1, <3>2 DEF Accounted
    <3> QED BY <2>1, <2>2, <3>2, <3>4
  <2> QED BY <2>3, <2>4
<1> QED BY <1>1, <1>7, <1>8, <1>10, <1>11, <1>12, <1>13, <1>14, <1>15, CoreStep

-----------------------------------------------------------------------------
(* The specification.                                                      *)

LEMMA InitFits == ASSUME Init PROVE Inv
<1>1. /\ chain = <<>> /\ forks = 0 /\ origin \in [Txs -> Origins]
      /\ cursor = None /\ events = {} /\ links = {}
      /\ confStatus = [t \in Txs |-> "pending"] /\ confirmed = {} /\ feeless = {}
      /\ feeEvents = {} /\ volume = [f \in {} |-> 0] /\ rebates = {} /\ canonFees = {}
      /\ task = [p \in Proc |-> Idle] /\ requests = 0 /\ faults = 0 /\ lost = {}
  BY DEF Init, StoreInit
<1>2. chain \in Seq(Blocks) /\ Len(chain) = 0
  BY <1>1
<1>3. DOMAIN volume = {} /\ volume \in [DOMAIN volume -> Nat]
  BY <1>1
<1>4. StoreTypeOK
  BY <1>1, <1>2, <1>3, IndexBounds DEF StoreTypeOK
<1>5. TypeOK
  <2>1. requests \in 0 .. MaxRequests /\ faults \in 0 .. MaxFaults
    BY <1>1, PerpIndexBounds
  <2>2. task \in [Proc -> Tasks]
    BY <1>1, IdleFits
  <2> QED BY <1>1, <1>4, <2>1, <2>2 DEF TypeOK, Tasks
<1>6. \A p \in Proc : task[p] = Idle /\ task[p].pc = "idle"
  BY <1>1, IdleFits
<1>7. ChainFits
  BY <1>2 DEF ChainFits
<1>8. ReadsFit /\ TodoFits
  BY <1>6 DEF ReadsFit, ReadFits, TodoFits, PassFits
<1>9. ConfirmsFit
  BY <1>6 DEF ConfirmsFit, ConfirmFits, Booking, Settling
<1>10. VolumeFits
  BY <1>6 DEF VolumeFits, VolumePc
<1>11. MatchesFit
  <2>1. Matches = {}
    BY <1>1, <1>6 DEF Matches, Matching
  <2> QED BY <2>1 DEF MatchesFit
<1>12. EventsFit /\ ConfirmedIsAccounted
  BY <1>1 DEF EventsFit, ConfirmedIsAccounted
<1>13. VolumeSplit
  BY <1>1, <1>3, <1>6 DEF VolumeSplit, VolumePc
<1> QED BY <1>5, <1>7, <1>8, <1>9, <1>10, <1>11, <1>12, <1>13 DEF Inv

LEMMA TickKeeps == ASSUME Inv, Counts, NEW p \in Proc, Tick(p) PROVE Inv'
BY TickVerifyKeeps, TickToHashKeeps, TickLogsKeeps, TickRecheckKeeps, TickPersistKeeps DEF Tick

LEMMA ReconcileKeeps == ASSUME Inv, Counts, NEW p \in Proc, Reconcile(p) PROVE Inv'
BY ReconcileCountKeeps, ReconcileLinkKeeps DEF Reconcile

LEMMA ConfirmKeeps == ASSUME Inv, Counts, NEW p \in Proc, Confirm(p) PROVE Inv'
<1>1. CASE V2Receipt(p)
  <2>1. task[p].pc \in Settling /\ "v2block" \in Settling /\ UNCHANGED storeVars /\ (Goto(p, "v2block") \/ End(p))
    BY <1>1 DEF V2Receipt, Settling
  <2> QED BY <2>1, V2CheckKeeps
<1>2. CASE V2Block(p)
  <2>1. task[p].pc \in Settling /\ "v2persist" \in Settling /\ UNCHANGED storeVars /\ (Goto(p, "v2persist") \/ End(p))
    BY <1>2 DEF V2Block, Settling
  <2> QED BY <2>1, V2CheckKeeps
<1>3. CASE \E role \in Roles : FeeInsert(p, role) \/ FeeVolume(p, role)
  BY <1>3, FeeInsertKeeps, FeeVolumeKeeps
<1>4. CASE ConfirmReceipt(p) \/ ConfirmHeight(p) \/ ConfirmDecide(p)
  BY <1>4, ConfirmReceiptKeeps, ConfirmHeightKeeps, ConfirmDecideKeeps
<1>5. CASE FeeRebate(p) \/ V2Persist(p) \/ ConfirmApply(p)
  BY <1>5, FeeRebateKeeps, V2PersistKeeps, ConfirmApplyKeeps
<1> QED BY <1>1, <1>2, <1>3, <1>4, <1>5 DEF Confirm

\* A process that ends takes the volume it owes with it.
LEMMA AbortKeeps ==
    ASSUME Inv, NEW p \in Proc, Abort(p), requests' \in 0 .. MaxRequests, faults' \in 0 .. MaxFaults
    PROVE  Inv'
<1>1. task \in [Proc -> Tasks] /\ VolumeFits /\ VolumeSplit /\ lost \subseteq feeEvents
  BY TypedTasks DEF Inv, TypeOK
<1>2. UNCHANGED storeVars /\ Become(p, Idle) /\ lost' = lost \cup {f \in feeEvents : Owes(p, f)}
  BY DEF Abort, End, OwedBy
<1>3. UNCHANGED <<origin, feeEvents, volume>>
  BY <1>2 DEF storeVars, nodeVars, ledgerVars
<1>4. Idle \in Tasks /\ Idle.pc = "idle"
  BY IdleFits
<1>5. Quiet(Idle) /\ ReadFits(Idle) /\ ConfirmFits(Idle) /\ PassFits(Idle)
  BY <1>4 DEF Quiet, ReadFits, ConfirmFits, PassFits, Booking, Settling
<1>6. task'[p] = Idle /\ \A q \in Proc \ {p} : task'[q] = task[q]
  BY <1>1, <1>2, <1>4, BecomeChanges
<1>7. \A q \in Proc, r \in Roles : task'[q].pc = VolumePc(r) => q # p /\ task[q].pc = VolumePc(r) /\ Fee(q, r)' = Fee(q, r)
  BY <1>3, <1>4, <1>6 DEF VolumePc, Fee, Payer
<1>8. \A q \in Proc, f \in feeEvents : Owes(q, f) => f \in lost' \/ Owes(q, f)'
  BY <1>2, <1>3, <1>6 DEF Owes, Fee, Payer
<1>9. VolumeSplit'
  <2>1. \A f \in DOMAIN volume : volume[f] = 1 /\ f \notin lost'
    BY <1>1, <1>2 DEF VolumeSplit, VolumeFits, Owes
  <2>2. \A q \in Proc, r \in Roles : task'[q].pc = VolumePc(r) => Fee(q, r)' \notin lost'
    BY <1>1, <1>2, <1>7 DEF VolumeSplit, VolumeFits, Owes
  <2>3. \A f \in feeEvents : f \in DOMAIN volume \/ f \in lost' \/ \E q \in Proc : Owes(q, f)'
    BY <1>1, <1>2, <1>8 DEF VolumeSplit
  <2> QED BY <1>3, <2>1, <2>2, <2>3 DEF VolumeSplit, VolumePc
<1> QED BY <1>1, <1>2, <1>4, <1>5, <1>9, PlainStep

LEMMA NextKeeps == ASSUME Inv, [Next]_vars PROVE Inv'
<1>1. requests \in 0 .. MaxRequests /\ faults \in 0 .. MaxFaults /\ MaxRequests \in Nat /\ MaxFaults \in Nat
  BY PerpIndexBounds DEF Inv, TypeOK
<1>2. CASE Node
  BY <1>2, NodeKeeps
<1>3. CASE LoopTick
  <2>1. Loop \in Proc /\ TickStart(Loop) /\ Counts
    BY <1>1, <1>3 DEF LoopTick, Proc, Counts
  <2> QED BY <2>1, TickStartKeeps
<1>4. ASSUME NEW p \in Requests, Request(p)
      PROVE  Inv'
  <2>1. p \in Proc /\ Counts /\ (TickStart(p) \/ ReconcileStart(p) \/ ConfirmStart(p))
    BY <1>1, <1>4 DEF Request, Proc, Counts
  <2> QED BY <2>1, TickStartKeeps, ReconcileStartKeeps, ConfirmStartKeeps
<1>5. ASSUME NEW p \in Requests, Abort(p)
      PROVE  Inv'
  <2>1. p \in Proc /\ requests' \in 0 .. MaxRequests /\ faults' \in 0 .. MaxFaults
    BY <1>1, <1>5 DEF Abort, Proc
  <2> QED BY <1>5, <2>1, AbortKeeps
<1>6. ASSUME NEW p \in Proc, Step(p)
      PROVE  Inv'
  <2>1. Counts /\ (Tick(p) \/ Reconcile(p) \/ Confirm(p))
    BY <1>1, <1>6 DEF Step, Counts
  <2> QED BY <2>1, TickKeeps, ReconcileKeeps, ConfirmKeeps
<1>7. CASE UNCHANGED vars
  <2>1. UNCHANGED <<chain, forks, origin, cursor, events, links, confStatus, confirmed, feeless, task, requests, faults, lost>>
        /\ UNCHANGED <<feeEvents, volume, rebates, canonFees>>
    BY <1>7 DEF vars, storeVars, nodeVars, indexVars, ledgerVars
  <2>2. TypeOK'
    BY <2>1 DEF Inv, TypeOK, StoreTypeOK
  <2>3. ChainFits' /\ EventsFit' /\ TodoFits'
    BY <2>1 DEF Inv, ChainFits, EventsFit, TodoFits, PassFits
  <2>8. VolumeFits'
    <3>1. \A q \in Proc, role \in Roles : Fee(q, role)' = Fee(q, role)
      BY <2>1 DEF Fee, Payer
    <3> QED BY <2>1, <3>1, VolumeStays DEF Inv
  <2>7. VolumeSplit'
    BY <2>1, SplitStays DEF Inv
  <2>4. ReadsFit'
    BY <2>1 DEF Inv, ReadsFit, ReadFits, BlockHash, Logs, From
  <2>5. MatchesFit'
    BY <2>1 DEF Inv, MatchesFit, Matches, Matching
  <2>6. ConfirmsFit' /\ ConfirmedIsAccounted'
    BY <2>1 DEF Inv, ConfirmsFit, ConfirmFits, MatchedOf, EventsOf, Accounted, Payer, ConfirmedIsAccounted
  <2> QED BY <2>2, <2>3, <2>4, <2>5, <2>6, <2>7, <2>8 DEF Inv
<1> QED BY <1>2, <1>3, <1>4, <1>5, <1>6, <1>7 DEF Next

\* The inductive invariant.
THEOREM Invariant == Spec => []Inv
BY InitFits, NextKeeps, PTL DEF Spec

\* Every table and every task of the indexer, the reconciliation and the
\* confirmation stays in its domain.
THEOREM TypeCorrect == Spec => []TypeOK
<1>1. Inv => TypeOK
  BY DEF Inv
<1> QED BY <1>1, Invariant, PTL

\* An intent is matched with one event at most: reconciliation_tick writes
\* "matched" only for an event that was alone when it counted, and every other
\* match, written or under way, is of a stored event.
THEOREM OneMatchPerIntentCorrect == Spec => []OneMatchPerIntent
<1>1. Inv => OneMatchPerIntent
  <2> SUFFICES ASSUME Inv, NEW k \in links, NEW l \in links, k.status = "matched", l.status = "matched",
                      k.event[1] = l.event[1]
               PROVE  k = l
    BY DEF OneMatchPerIntent
  <2>1. k.event \in Matches /\ l.event \in Matches
    BY DEF Matches
  <2>2. k.event = l.event
    BY <2>1 DEF Inv, MatchesFit
  <2>3. links \subseteq [event : EventKeys, status : {"matched", "ambiguous"}]
    BY DEF Inv, TypeOK, StoreTypeOK
  <2>4. /\ k \in [event : EventKeys, status : {"matched", "ambiguous"}]
        /\ l \in [event : EventKeys, status : {"matched", "ambiguous"}]
    BY <2>3
  <2> QED BY <2>2, <2>4
<1> QED BY <1>1, Invariant, PTL

\* A Confirmed intent has a matched event whose fees are stored, a row for each
\* paying account, unless fees were off when it was confirmed, however many
\* confirmations overlap and wherever one is cut short (confirm_transaction).
THEOREM ConfirmedIsAccountedCorrect == Spec => []ConfirmedIsAccounted
<1>1. Inv => ConfirmedIsAccounted
  BY DEF Inv
<1> QED BY <1>1, Invariant, PTL

\* A trade counts exactly once towards the volume of an account that paid its
\* fee, unless the confirmation that stored the fee has yet to add the volume
\* or was cut short before it: then it counts zero times, and never twice
\* (record_participant_fee).
THEOREM VolumeCountedOnceCorrect == Spec => []VolumeCountedOnce
<1>1. ASSUME Inv
      PROVE  VolumeCountedOnce
  <2> SUFFICES ASSUME NEW f \in EventKeys \X Roles
               PROVE  Counted(f) = IF f \in feeEvents /\ f \notin lost \cup OwedBy(Proc) THEN 1 ELSE 0
    BY DEF VolumeCountedOnce
  <2>1. /\ VolumeFits /\ VolumeSplit /\ DOMAIN volume \subseteq feeEvents /\ lost \subseteq feeEvents
    BY <1>1 DEF Inv, TypeOK, StoreTypeOK
  <2>2. \A p \in Proc : Owes(p, f) => f \notin DOMAIN volume
    BY <2>1 DEF Owes, VolumeFits
  <2>3. f \in DOMAIN volume => f \in feeEvents /\ f \notin lost \cup OwedBy(Proc) /\ volume[f] = 1
    BY <2>1, <2>2 DEF VolumeSplit, OwedBy
  <2>4. f \notin DOMAIN volume => ~ (f \in feeEvents /\ f \notin lost \cup OwedBy(Proc))
    BY <2>1 DEF VolumeSplit, OwedBy
  <2> QED BY <2>3, <2>4 DEF Counted
<1> QED BY <1>1, Invariant, PTL

\* Only a tick that persists moves the cursor.
LEMMA OnlyPersistMoves ==
    ASSUME Inv, [Next]_vars, cursor' # cursor
    PROVE  \E p \in Proc : TickPersist(p)
<1>1. ~ (Node \/ LoopTick \/ UNCHANGED vars)
  BY DEF Node, LoopTick, TickStart, vars, storeVars, indexVars
<1>2. \A p \in Requests : ~ (Request(p) \/ Abort(p))
  BY DEF Request, Abort, TickStart, ReconcileStart, ConfirmStart, storeVars, indexVars
<1>3. PICK p \in Proc : Step(p)
  BY <1>1, <1>2 DEF Next
<1>4. ~Reconcile(p)
  BY DEF Reconcile, ReconcileCount, ReconcileLink, storeVars, indexVars
<1>5. ~Confirm(p)
  BY DEF Confirm, ConfirmReceipt, ConfirmHeight, ConfirmDecide, FeeInsert, FeeVolume, FeeRebate,
         V2Receipt, V2Block, V2Persist, ConfirmApply, storeVars, indexVars
<1>6. TickPersist(p)
  BY <1>3, <1>4, <1>5 DEF Step, Tick, TickVerify, TickToHash, TickLogs, TickRecheck, storeVars, indexVars
<1> QED BY <1>6

LEMMA BatchStep ==
    ASSUME Inv, [Next]_vars, cursor' # cursor, BlockHash(cursor'.block) = cursor'.hash,
           NEW batch, batch = Logs(IF cursor = None THEN 1 ELSE cursor.block + 1, cursor'.block)
    PROVE  events' \ events \subseteq batch /\ \A l \in batch : \E e \in events' : Key(e) = Key(l)
<1>1. PICK p \in Proc : TickPersist(p)
  BY OnlyPersistMoves
<1>2. task[p] \in TickTasks /\ ReadFits(task[p]) /\ task[p].pc = "persist" /\ StoreTypeOK /\ EventsFit
  BY <1>1, TickKnows DEF TickPersist, Inv
<1>3. /\ cursor = task[p].stored /\ events' = Inserted(task[p].logs)
      /\ cursor' = [block |-> task[p].to, hash |-> task[p].toHash]
  BY <1>1 DEF TickPersist, Persist, indexVars
<1>4. task[p].logs = Logs(From(task[p]), task[p].to)
  BY <1>2, <1>3 DEF ReadFits
<1>5. batch = task[p].logs
  BY <1>3, <1>4 DEF From
<1>6. task[p].logs \in SUBSET Trades /\ \A e, f \in task[p].logs : e.tx = f.tx => e = f
  BY <1>2 DEF TickTasks, ReadFits
<1> QED BY <1>2, <1>3, <1>5, <1>6, InsertedFits

\* If the block the cursor comes to stand on is canonical, the rows that came
\* with it are the settlements of the range on that very chain: tick reads the
\* hash of the last block before and after the logs, and a hash names one
\* prefix of the chain, whatever the forks in between.
THEOREM BatchIsExactCorrect == Spec => BatchIsExact
<1>1. ASSUME Inv, [Next]_vars
      PROVE  [cursor' # cursor /\ BlockHash(cursor'.block) = cursor'.hash =>
                LET batch == Logs(IF cursor = None THEN 1 ELSE cursor.block + 1, cursor'.block)
                IN  /\ events' \ events \subseteq batch
                    /\ \A l \in batch : \E e \in events' : Key(e) = Key(l)]_vars
  BY <1>1, BatchStep
<1> QED BY <1>1, Invariant, PTL DEF Spec, BatchIsExact
=============================================================================
