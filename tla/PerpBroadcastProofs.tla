------------------------ MODULE PerpBroadcastProofs ------------------------
(***************************************************************************)
(* The safety of the perp broadcast runtime, for every finite table of     *)
(* intents, every limit on the attempts and every number of faults,        *)
(* requests and starts.                                                    *)
(***************************************************************************)
EXTENDS PerpBroadcast, NumberFacts

-----------------------------------------------------------------------------
(* The inductive invariant *)

\* The unique keys of execution_intent_broadcasts, and the insertion order.
RowsFit ==
    /\ \A i \in Recorded : row[i].order < Cardinality(Recorded)
    /\ \A i, j \in Recorded : i # j => row[i].order # row[j].order /\ row[i].nonce # row[j].nonce

\* From the insert on, the executor works on the row it has written.
ExecFits ==
    /\ exec.pc # "idle" => runtime = "ready"
    /\ exec.pc \in {"prepare", "bump", "send", "reply", "poll", "finalize"}
           => row[armed] # None /\ row[armed].nonce = exec.nonce
    /\ exec.pc = "finalize" => [tx |-> Envelope(armed), result |-> exec.note] \in receipts

\* A reconcile pass names stored rows and finalises from a receipt it has seen.
ReconFits ==
    /\ \A k \in DOMAIN recon.todo : row[recon.todo[k]] # None
    /\ recon.pc = "finalize" => [tx |-> Envelope(Head(recon.todo)), result |-> recon.note] \in receipts

MinedIsSeen == \A k \in DOMAIN mined : mined[k] \in receipts

ExecAt(pc, i) == exec.pc = pc /\ armed = i

ReconAt(pc, i) == recon.pc = pc /\ Head(recon.todo) = i

Count(b) == IF b THEN 1 ELSE 0

\* Every send under way is already counted in the row, and every bump that is
\* still to come has its place below the limit.
SendsFit ==
    \A i \in Intents :
        /\ row[i] = None => sends[i] = 0
        /\ row[i] # None =>
              /\ sends[i] + Count(ExecAt("send", i)) + Count(ReconAt("send", i)) <= row[i].attempts
              /\ row[i].attempts + Count(ExecAt("prepare", i) \/ ExecAt("bump", i)) + Count(ReconAt("bump", i))
                     <= MaxAttempts + 1

Inv ==
    /\ TypeOK /\ RowsFit /\ ExecFits /\ ReconFits /\ MinedIsSeen /\ SendsFit
    /\ HandedIsRecorded /\ ConfirmedWasSettled

-----------------------------------------------------------------------------
(* The operators *)

\* The node always has a pending nonce to answer: its pool is finite, so a
\* number within |mempool| of the account's count is free.
LEMMA PendingNonceExists ==
    ASSUME TypeOK
    PROVE  PendingNonce \in Nat
<1> DEFINE f == [t \in mempool |-> t.nonce]
<1>1. Len(mined) \in Nat /\ IsFiniteSet(mempool)
  BY DEF TypeOK
<1>2. Cardinality(mempool) \in Nat
  BY <1>1, FS_CardinalityType
<1>3. f \in [mempool -> PooledNonces] /\ \A y \in PooledNonces : \E x \in mempool : f[x] = y
  BY DEF PooledNonces
<1>4. IsFiniteSet(PooledNonces) /\ Cardinality(PooledNonces) <= Cardinality(mempool)
  <2> HIDE DEF f
  <2> QED BY <1>1, <1>3, ImageIsSmaller
<1>5. \E n \in Len(mined) .. Len(mined) + Cardinality(mempool) :
          n \notin PooledNonces /\ Len(mined) .. (n - 1) \subseteq PooledNonces
  BY <1>1, <1>2, <1>4, FirstGap
<1>6. PendingNonce \in Len(mined) .. Len(mined) + Cardinality(mempool)
  BY <1>5 DEF PendingNonce
<1> QED BY <1>1, <1>2, <1>6

\* The page of a reconcile pass holds stored rows only.
LEMMA ListUnfinalizedType ==
    ASSUME TypeOK, RowsFit
    PROVE  /\ ListUnfinalized \in Seq(Intents)
           /\ \A k \in DOMAIN ListUnfinalized : row[ListUnfinalized[k]] # None
<1> DEFINE open == {i \in Recorded : row[i].status \in Unfinalized}
           Older(i) == {j \in open : row[j].order < row[i].order}
           size == Cardinality(open)
           page == IF size < BatchSize THEN size ELSE BatchSize
           f == [i \in open |-> row[i].order]
<1>1. open \subseteq Intents /\ IsFiniteSet(open)
  BY StoreBounds, FS_Subset DEF Recorded
<1>2. size \in Nat
  BY <1>1, FS_CardinalityType
<1>3. \A i \in open : row[i] \in Rows
  BY DEF TypeOK, Recorded
<1>4. f \in [open -> Nat]
  BY <1>3 DEF Rows
<1>5. \A i, j \in open : f[i] = f[j] => i = j
  BY DEF RowsFit
<1>6. ASSUME NEW k \in 1 .. page
      PROVE  \E i \in open : Cardinality(Older(i)) = k - 1
  <2>1. k \in 1 .. size
    <3> HIDE DEF size
    <3> QED BY <1>2, StoreBounds
  <2>2. PICK i \in open : Cardinality({j \in open : f[j] < f[i]}) = k - 1
    <3> HIDE DEF f, open
    <3> QED BY <1>1, <1>4, <1>5, <2>1, RankExists
  <2>3. {j \in open : f[j] < f[i]} = Older(i)
    OBVIOUS
  <2> QED BY <2>2, <2>3
<1>7. ListUnfinalized = [k \in 1 .. page |-> CHOOSE i \in open : Cardinality(Older(i)) = k - 1]
  BY DEF ListUnfinalized
<1>8. \A k \in 1 .. page : (CHOOSE i \in open : Cardinality(Older(i)) = k - 1) \in open
  <2> HIDE DEF open, page, Older
  <2> QED BY <1>6
<1>9. page \in Nat
  <2> HIDE DEF size
  <2> QED BY <1>2, StoreBounds
<1>10. DOMAIN ListUnfinalized = 1 .. page /\ \A k \in 1 .. page : ListUnfinalized[k] \in open
  <2> HIDE DEF open, page, Older
  <2> QED BY <1>7, <1>8
<1>11. ListUnfinalized \in [1 .. page -> Intents]
  <2> DEFINE X(k) == CHOOSE i \in open : Cardinality(Older(i)) = k - 1
  <2>1. ListUnfinalized = [k \in 1 .. page |-> X(k)]
    BY <1>7
  <2>2. \A k \in 1 .. page : X(k) \in Intents
    BY <1>8, <1>1
  <2> HIDE DEF X, page
  <2> QED BY <2>1, <2>2
<1>12. ListUnfinalized \in Seq(Intents)
  <2> HIDE DEF page
  <2> QED BY <1>9, <1>11, SeqDef
<1> QED BY <1>10, <1>12 DEF Recorded

-----------------------------------------------------------------------------
(* What a step does to a row *)

Record(i, n) == NonceIsFree(i, n) /\ RecordPrepared(i, n)

\* Each of the three writes of the table keeps its types, the rows it has and
\* their unique keys.
RowsGrow ==
    /\ row' \in [Intents -> Rows \cup {None}]
    /\ RowsFit'
    /\ \A i \in Recorded :
          /\ row'[i] # None /\ row'[i].nonce = row[i].nonce
          /\ row'[i].attempts >= row[i].attempts
          /\ row[i].status \in {"Confirmed", "Failed"} => row'[i].status = row[i].status
          /\ row[i].status = "Submitted" => row'[i].status # "Prepared"

LEMMA SameRowsGrow ==
    ASSUME TypeOK, RowsFit, row' = row
    PROVE  RowsGrow
<1>1. \A i \in Recorded : row[i] \in Rows
  BY DEF TypeOK, Recorded
<1>2. RowsFit' /\ row' \in [Intents -> Rows \cup {None}]
  BY DEF TypeOK, RowsFit, Recorded
<1>3. \A i \in Recorded : row[i].attempts \in Nat /\ row[i] # None
  BY <1>1 DEF Rows, Recorded
<1> QED BY <1>2, <1>3 DEF RowsGrow

LEMMA RecordGrows ==
    ASSUME TypeOK, RowsFit, NEW i \in Intents, NEW n \in Nat, Record(i, n)
    PROVE  /\ RowsGrow
           /\ row'[i] = [nonce |-> n, status |-> "Prepared", attempts |-> 0, order |-> Cardinality(Recorded)]
           /\ \A j \in Intents \ {i} : row'[j] = row[j]
<1> DEFINE new == [nonce |-> n, status |-> "Prepared", attempts |-> 0, order |-> Cardinality(Recorded)]
<1>1. IsFiniteSet(Recorded) /\ Cardinality(Recorded) \in Nat /\ i \notin Recorded
  BY StoreBounds, FS_Subset, FS_CardinalityType DEF Recorded, Record, NonceIsFree
<1>2. new \in Rows /\ new # None
  BY <1>1, NoRow DEF Rows
<1>3. row'[i] = new /\ \A j \in Intents \ {i} : row'[j] = row[j]
  BY DEF TypeOK, Record, RecordPrepared
<1>4. row' \in [Intents -> Rows \cup {None}]
  <2> HIDE DEF new
  <2>1. row' = [row EXCEPT ![i] = new]
    BY DEF Record, RecordPrepared, new
  <2> QED BY <2>1, <1>2 DEF TypeOK
<1>5. Recorded' = Recorded \cup {i}
  <2> HIDE DEF new
  <2> QED BY <1>2, <1>3 DEF Recorded
<1>6. Cardinality(Recorded') = Cardinality(Recorded) + 1
  BY <1>1, <1>5, FS_AddElement
<1>7. \A j \in Recorded : row[j] \in Rows /\ row'[j] = row[j] /\ row[j].nonce # n
  BY <1>1, <1>3 DEF TypeOK, Recorded, Record, NonceIsFree
<1>8. \A j \in Recorded : row[j].order \in Nat /\ row[j].order < Cardinality(Recorded)
  BY <1>7 DEF Rows, RowsFit
<1>9. new.order = Cardinality(Recorded) /\ new.nonce = n
  OBVIOUS
<1> HIDE DEF new
<1>10. ASSUME NEW j \in Recorded'
       PROVE  row'[j].order < Cardinality(Recorded')
  BY <1>1, <1>3, <1>5, <1>6, <1>7, <1>8, <1>9
<1>11. ASSUME NEW j \in Recorded', NEW k \in Recorded', j # k
       PROVE  row'[j].order # row'[k].order /\ row'[j].nonce # row'[k].nonce
  <2>1. CASE j = i
    BY <2>1, <1>1, <1>3, <1>5, <1>7, <1>8, <1>9, <1>11
  <2>2. CASE k = i
    BY <2>2, <1>1, <1>3, <1>5, <1>7, <1>8, <1>9, <1>11
  <2>3. CASE j # i /\ k # i
    BY <2>3, <1>5, <1>7, <1>11 DEF RowsFit
  <2> QED BY <2>1, <2>2, <2>3
<1>12. RowsFit'
  BY <1>10, <1>11 DEF RowsFit
<1>13. \A j \in Recorded : row'[j] # None /\ row[j].attempts \in Nat
  BY <1>7, NoRow DEF Rows
<1> QED BY <1>3, <1>4, <1>7, <1>12, <1>13 DEF RowsGrow, new, Rows

\* An update of one stored row that keeps its keys, moves its status forward
\* and does not lower its attempts.
LEMMA UpdateGrows ==
    ASSUME TypeOK, RowsFit, NEW i \in Recorded, NEW r \in Rows,
           row' = [row EXCEPT ![i] = r],
           r.nonce = row[i].nonce, r.order = row[i].order, r.attempts >= row[i].attempts,
           row[i].status \in {"Confirmed", "Failed"} => r.status = row[i].status,
           row[i].status = "Submitted" => r.status # "Prepared"
    PROVE  RowsGrow /\ row'[i] = r /\ \A j \in Intents \ {i} : row'[j] = row[j]
<1>1. i \in Intents /\ r # None
  BY NoRow DEF Recorded
<1>2. row'[i] = r /\ \A j \in Intents \ {i} : row'[j] = row[j]
  BY <1>1 DEF TypeOK
<1>3. row' \in [Intents -> Rows \cup {None}]
  BY <1>1 DEF TypeOK
<1>4. Recorded' = Recorded
  BY <1>1, <1>2 DEF Recorded
<1>5. \A j \in Recorded : row[j] \in Rows /\ row'[j] # None /\ row'[j].nonce = row[j].nonce /\ row'[j].order = row[j].order
  BY <1>1, <1>2 DEF TypeOK, Recorded
<1>6. RowsFit'
  BY <1>4, <1>5 DEF RowsFit
<1>7. \A j \in Recorded : row[j].attempts \in Nat
  BY <1>5 DEF Rows
<1>8. \A j \in Recorded : j \in Intents
  BY DEF Recorded
<1>9. ASSUME NEW j \in Recorded
      PROVE  /\ row'[j].attempts >= row[j].attempts
             /\ row[j].status \in {"Confirmed", "Failed"} => row'[j].status = row[j].status
             /\ row[j].status = "Submitted" => row'[j].status # "Prepared"
  <2>1. CASE j = i
    BY <2>1, <1>2
  <2>2. CASE j # i
    BY <2>2, <1>2, <1>7, <1>8
  <2> QED BY <2>1, <2>2
<1> QED BY <1>2, <1>3, <1>5, <1>6, <1>9 DEF RowsGrow

LEMMA BumpGrows ==
    ASSUME TypeOK, RowsFit, NEW i \in Recorded, BumpSendAttempt(i)
    PROVE  /\ RowsGrow
           /\ row[i] \in Rows /\ row'[i] = [row[i] EXCEPT !.attempts = row[i].attempts + 1]
           /\ \A j \in Intents \ {i} : row'[j] = row[j]
<1> DEFINE r == [row[i] EXCEPT !.attempts = row[i].attempts + 1]
<1>1. row[i] \in Rows
  BY DEF TypeOK, Recorded
<1>2. r \in Rows /\ r.nonce = row[i].nonce /\ r.order = row[i].order /\ r.status = row[i].status
      /\ r.attempts >= row[i].attempts
  BY <1>1 DEF Rows
<1>3. row' = [row EXCEPT ![i] = r]
  BY DEF BumpSendAttempt, TypeOK
<1> HIDE DEF r
<1>4. RowsGrow /\ row'[i] = r /\ \A j \in Intents \ {i} : row'[j] = row[j]
  BY <1>2, <1>3, UpdateGrows
<1> QED BY <1>1, <1>4 DEF r

LEMMA MarkGrows ==
    ASSUME TypeOK, RowsFit, NEW i \in Recorded, NEW to \in {"Submitted", "Confirmed", "Failed"}, Mark(i, to)
    PROVE  /\ RowsGrow
           /\ row[i] \in Rows
           /\ row'[i] = [row[i] EXCEPT !.status = IF row[i].status \in Unfinalized THEN to ELSE row[i].status]
           /\ \A j \in Intents \ {i} : row'[j] = row[j]
           /\ status' \in [Intents -> Statuses]
<1> DEFINE to1 == IF row[i].status \in Unfinalized THEN to ELSE row[i].status
           r == [row[i] EXCEPT !.status = to1]
<1>1. row[i] \in Rows
  BY DEF TypeOK, Recorded
<1>2. to1 \in {"Prepared", "Submitted", "Confirmed", "Failed"}
      /\ (row[i].status \in {"Confirmed", "Failed"} => to1 = row[i].status)
      /\ (row[i].status = "Submitted" => to1 # "Prepared")
  BY <1>1 DEF Rows, Unfinalized
<1>3. row' = [row EXCEPT ![i] = r]
  BY DEF Mark, TypeOK
<1> HIDE DEF to1
<1>4. r \in Rows /\ r.nonce = row[i].nonce /\ r.order = row[i].order /\ r.status = to1
      /\ r.attempts >= row[i].attempts
  BY <1>1, <1>2 DEF Rows
<1> HIDE DEF r
<1>5. RowsGrow /\ row'[i] = r /\ \A j \in Intents \ {i} : row'[j] = row[j]
  BY <1>2, <1>3, <1>4, UpdateGrows
<1>6. status' \in [Intents -> Statuses]
  BY DEF Mark, SetStatus, TypeOK, Statuses, RetireEligible
<1> QED BY <1>1, <1>5, <1>6 DEF r, to1

-----------------------------------------------------------------------------
(* Families of steps *)

LEMMA HandedKept ==
    ASSUME TypeOK, TypeOK', HandedIsRecorded, RowsGrow,
           \A t \in handed' : t \in handed \/ (row[t.intent] # None /\ Envelope(t.intent) = t)
    PROVE  HandedIsRecorded'
<1> SUFFICES ASSUME NEW t \in handed'
             PROVE  row'[t.intent] # None /\ [intent |-> t.intent, nonce |-> row'[t.intent].nonce] = t
  BY DEF HandedIsRecorded, Envelope
<1>1. t.intent \in Intents
  BY DEF TypeOK, Tx
<1>2. row[t.intent] # None /\ [intent |-> t.intent, nonce |-> row[t.intent].nonce] = t
  BY DEF HandedIsRecorded, Envelope
<1>3. row'[t.intent] # None /\ row'[t.intent].nonce = row[t.intent].nonce
  BY <1>1, <1>2 DEF RowsGrow, Recorded
<1> QED BY <1>2, <1>3

LEMMA ConfirmedKept ==
    ASSUME TypeOK, ConfirmedWasSettled, RowsGrow, receipts \subseteq receipts',
           \A i \in Recorded' : row'[i].status = "Confirmed" =>
               \/ i \in Recorded /\ row[i].status = "Confirmed"
               \/ [tx |-> [intent |-> i, nonce |-> row'[i].nonce], result |-> "settled"] \in receipts
    PROVE  ConfirmedWasSettled'
<1> SUFFICES ASSUME NEW i \in Recorded', row'[i].status = "Confirmed"
             PROVE  [tx |-> [intent |-> i, nonce |-> row'[i].nonce], result |-> "settled"] \in receipts'
  BY DEF ConfirmedWasSettled, Envelope
<1>1. CASE i \in Recorded /\ row[i].status = "Confirmed"
  <2>1. row'[i].nonce = row[i].nonce
    BY <1>1 DEF RowsGrow
  <2>2. [tx |-> [intent |-> i, nonce |-> row[i].nonce], result |-> "settled"] \in receipts
    BY <1>1 DEF ConfirmedWasSettled, Envelope
  <2> QED BY <2>1, <2>2
<1>2. CASE [tx |-> [intent |-> i, nonce |-> row'[i].nonce], result |-> "settled"] \in receipts
  BY <1>2
<1> QED BY <1>1, <1>2

LEMMA ExecFitsKept ==
    ASSUME TypeOK, ExecFits, RowsGrow, receipts \subseteq receipts', exec' = exec, armed' = armed,
           exec.pc # "idle" => runtime' = runtime
    PROVE  ExecFits'
<1> DEFINE late == exec.pc \in {"prepare", "bump", "send", "reply", "poll", "finalize"}
<1>1. late => row'[armed] # None /\ row'[armed].nonce = row[armed].nonce /\ row[armed].nonce = exec.nonce
  BY DEF TypeOK, ExecFits, RowsGrow, Recorded
<1>2. exec.pc = "finalize" =>
          [tx |-> [intent |-> armed, nonce |-> row[armed].nonce], result |-> exec.note] \in receipts
  BY DEF ExecFits, Envelope
<1>3. exec.pc = "finalize" =>
          [tx |-> [intent |-> armed, nonce |-> row'[armed].nonce], result |-> exec.note] \in receipts'
  BY <1>1, <1>2
<1> QED BY <1>1, <1>3 DEF ExecFits, Envelope

LEMMA ReconFitsKept ==
    ASSUME TypeOK, ReconFits, RowsGrow, receipts \subseteq receipts', recon' = recon
    PROVE  ReconFits'
<1>1. \A k \in DOMAIN recon.todo : recon.todo[k] \in Intents
  BY DEF TypeOK
<1>2. \A k \in DOMAIN recon.todo : row'[recon.todo[k]] # None /\ row'[recon.todo[k]].nonce = row[recon.todo[k]].nonce
  BY <1>1 DEF ReconFits, RowsGrow, Recorded
<1>3. ASSUME recon.pc = "finalize"
      PROVE  [tx |-> [intent |-> Head(recon.todo), nonce |-> row'[Head(recon.todo)].nonce], result |-> recon.note]
                 \in receipts'
  <2>1. recon.todo \in Seq(Intents) /\ recon.todo # <<>>
    BY <1>3 DEF TypeOK
  <2>2. 1 \in DOMAIN recon.todo /\ Head(recon.todo) = recon.todo[1]
    BY <2>1
  <2>3. [tx |-> [intent |-> Head(recon.todo), nonce |-> row[Head(recon.todo)].nonce], result |-> recon.note]
            \in receipts
    BY <1>3 DEF ReconFits, Envelope
  <2> QED BY <1>2, <2>2, <2>3
<1> QED BY <1>2, <1>3 DEF ReconFits, Envelope

LEMMA SeenKept ==
    ASSUME MinedIsSeen, receipts \subseteq receipts', mined' = mined
    PROVE  MinedIsSeen'
BY DEF MinedIsSeen

\* Steps of the routes and of the node that touch none of the runtime's state.
LEMMA QuietKeeps ==
    ASSUME Inv, TypeOK', UNCHANGED <<row, handed, sends, mined, receipts, runtime, armed, exec, recon>>
    PROVE  Inv'
BY DEF Inv, RowsFit, ExecFits, ReconFits, MinedIsSeen, SendsFit, HandedIsRecorded, ConfirmedWasSettled,
       Recorded, Envelope, ExecAt, ReconAt, Count

\* A step of the executor that writes no row and hands nothing over.
LEMMA ExecMoveKeeps ==
    ASSUME Inv, TypeOK', UNCHANGED <<row, handed, sends, mined, receipts, armed, recon>>,
           ExecFits', exec'.pc # "send",
           exec'.pc \in {"prepare", "bump"} => exec.pc \in {"prepare", "bump"}
    PROVE  Inv'
<1>1. RowsGrow
  BY SameRowsGrow DEF Inv
<1>2. HandedIsRecorded' /\ ConfirmedWasSettled' /\ MinedIsSeen' /\ ReconFits' /\ RowsFit'
  BY DEF Inv, HandedIsRecorded, ConfirmedWasSettled, MinedIsSeen, ReconFits, RowsFit, Recorded, Envelope
<1>3. SendsFit'
  <2> SUFFICES ASSUME NEW i \in Intents, row[i] # None
               PROVE  /\ sends[i] + Count(ExecAt("send", i))' + Count(ReconAt("send", i)) <= row[i].attempts
                      /\ row[i].attempts + Count(ExecAt("prepare", i) \/ ExecAt("bump", i))'
                             + Count(ReconAt("bump", i)) <= MaxAttempts + 1
    BY DEF Inv, SendsFit, ReconAt, Count
  <2>1. row[i].attempts \in Nat /\ sends[i] \in Nat /\ MaxAttempts \in Nat
    BY StoreBounds DEF Inv, TypeOK, Rows
  <2>2. Count(ExecAt("send", i))' <= Count(ExecAt("send", i))
    BY DEF ExecAt, Count
  <2>3. Count(ExecAt("prepare", i) \/ ExecAt("bump", i))' <= Count(ExecAt("prepare", i) \/ ExecAt("bump", i))
    BY DEF ExecAt, Count
  <2> QED BY <2>1, <2>2, <2>3 DEF Inv, SendsFit, Count
<1> QED BY <1>2, <1>3 DEF Inv

\* A step of the reconciler that writes no row and hands nothing over.
LEMMA ReconMoveKeeps ==
    ASSUME Inv, TypeOK', UNCHANGED <<row, handed, sends, mined, receipts, armed, exec>>,
           exec.pc # "idle" => runtime' = runtime,
           ReconFits', recon'.pc # "send",
           recon'.pc = "bump" => MayResend(Head(recon'.todo))
    PROVE  Inv'
<1>1. RowsGrow
  BY SameRowsGrow DEF Inv
<1>2. HandedIsRecorded' /\ ConfirmedWasSettled' /\ MinedIsSeen' /\ RowsFit'
  BY DEF Inv, HandedIsRecorded, ConfirmedWasSettled, MinedIsSeen, RowsFit, Recorded, Envelope
<1>3. ExecFits'
  BY <1>1, ExecFitsKept DEF Inv
<1>4. SendsFit'
  <2> SUFFICES ASSUME NEW i \in Intents, row[i] # None
               PROVE  /\ sends[i] + Count(ExecAt("send", i)) + Count(ReconAt("send", i))' <= row[i].attempts
                      /\ row[i].attempts + Count(ExecAt("prepare", i) \/ ExecAt("bump", i))
                             + Count(ReconAt("bump", i))' <= MaxAttempts + 1
    BY DEF Inv, SendsFit, ExecAt, Count
  <2>1. row[i].attempts \in Nat /\ sends[i] \in Nat /\ MaxAttempts \in Nat
    BY StoreBounds DEF Inv, TypeOK, Rows
  <2>2. Count(ReconAt("send", i))' = 0
    BY DEF ReconAt, Count
  <2>3. Count(ReconAt("bump", i))' = 1 => row[i].attempts < MaxAttempts
    BY DEF ReconAt, Count, MayResend
  <2>4. Count(ReconAt("bump", i))' \in 0 .. 1 /\ Count(ExecAt("prepare", i) \/ ExecAt("bump", i)) \in 0 .. 1
    BY DEF Count
  <2>5. Count(ExecAt("send", i)) \in 0 .. 1 /\ Count(ReconAt("send", i)) \in 0 .. 1 /\ Count(ReconAt("bump", i)) \in 0 .. 1
    BY DEF Count
  <2>6. /\ sends[i] + Count(ExecAt("send", i)) + Count(ReconAt("send", i)) <= row[i].attempts
        /\ row[i].attempts + Count(ExecAt("prepare", i) \/ ExecAt("bump", i)) + Count(ReconAt("bump", i))
               <= MaxAttempts + 1
    BY DEF Inv, SendsFit
  <2> QED BY <2>1, <2>2, <2>3, <2>4, <2>5, <2>6
<1> QED BY <1>2, <1>3, <1>4 DEF Inv

-----------------------------------------------------------------------------
(* The node and the routes *)

LEMMA SendType ==
    ASSUME TypeOK, NEW tx \in Tx, NEW reply, Send(tx, reply)
    PROVE  /\ mempool' \subseteq Tx /\ IsFiniteSet(mempool') /\ faults' \in 0 .. MaxFaults
           /\ mined' = mined /\ receipts' = receipts
<1>1. faults \in 0 .. MaxFaults /\ (Fault => faults' \in 0 .. MaxFaults)
  BY FaultBound DEF TypeOK, Fault
<1>2. IsFiniteSet(mempool \cup {tx})
  BY FS_AddElement DEF TypeOK
<1> QED BY <1>1, <1>2 DEF Send, TypeOK

LEMMA RoutesType ==
    ASSUME TypeOK, Routes
    PROVE  TypeOK'
<1> USE CallBounds
<1>1. ASSUME NEW i \in Intents, Cosign(i) \/ Simulate(i) \/ Broadcast(i)
      PROVE  TypeOK'
  <2>1. calls' \in 0 .. MaxCalls
    BY <1>1 DEF TypeOK, Cosign, Simulate, Broadcast, Request
  <2>2. status[i] \in Statuses
    BY DEF TypeOK
  <2>3. /\ call' \in [kind : {"none", "cosign", "simulate", "broadcast"}, pc : CallPcs,
                      intent : Intents \cup {None}, note : Statuses \cup {"none"}, nonce : Nat]
        /\ call'.intent \in Intents
    BY <1>1, <2>2 DEF Cosign, Simulate, Broadcast, Request, CallPcs
  <2> QED BY <1>1, <2>1, <2>3 DEF TypeOK, Cosign, Simulate, Broadcast, storeVars, chainVars
<1>2. ASSUME NEW i \in Intents, Retire(i)
      PROVE  TypeOK'
  <2>1. calls' \in 0 .. MaxCalls
    BY <1>2 DEF TypeOK, Retire
  <2>2. status' \in [Intents -> Statuses]
    BY <1>2 DEF TypeOK, Retire, SetStatus, Statuses
  <2> QED BY <1>2, <2>1, <2>2 DEF TypeOK, Retire, chainVars
<1> DEFINE CallType == /\ call' \in [kind : {"none", "cosign", "simulate", "broadcast"}, pc : CallPcs,
                             intent : Intents \cup {None}, note : Statuses \cup {"none"}, nonce : Nat]
                       /\ call'.pc # "idle" => call'.intent \in Intents
<1>3. call' = IdleCall => CallType
  BY DEF IdleCall, CallPcs
<1>4. ASSUME NEW pc \in CallPcs, call.pc # "idle", call' = [call EXCEPT !.pc = pc]
      PROVE  CallType
  BY <1>4 DEF TypeOK
<1>5. ASSUME NEW result \in {"SimulationOk", "SimulationFailed"}, SimulatePersist(result)
      PROVE  TypeOK'
  <2>1. status' \in [Intents -> Statuses]
    BY <1>5 DEF TypeOK, SimulatePersist, SetStatus, Statuses, RetireEligible
  <2>2. CallType
    BY <1>5, <1>3 DEF SimulatePersist
  <2> QED BY <1>5, <2>1, <2>2 DEF TypeOK, SimulatePersist, chainVars
<1>6. ASSUME CosignStore
      PROVE  TypeOK'
  <2>1. cosigned' \subseteq Intents
    BY <1>6 DEF TypeOK, CosignStore
  <2>2. CallType
    BY <1>6, <1>3, <1>4 DEF CosignStore, CallPcs
  <2> QED BY <1>6, <2>1, <2>2 DEF TypeOK, CosignStore, chainVars
<1>7. ASSUME CosignReady
      PROVE  TypeOK'
  <2>1. status' \in [Intents -> Statuses]
    BY <1>7 DEF TypeOK, CosignReady, SetStatus, Statuses, RetireEligible
  <2>2. CallType
    BY <1>7, <1>3 DEF CosignReady
  <2> QED BY <1>7, <2>1, <2>2 DEF TypeOK, CosignReady, chainVars
<1>8. ASSUME BroadcastNonce
      PROVE  TypeOK'
  <2>1. PendingNonce \in Nat
    BY PendingNonceExists
  <2>2. CallType
    BY <1>8, <2>1 DEF TypeOK, BroadcastNonce, CallPcs
  <2> QED BY <1>8, <2>2 DEF TypeOK, BroadcastNonce, chainVars, storeVars
<1>9. ASSUME NEW reply \in Replies, BroadcastSend(reply)
      PROVE  TypeOK'
  <2> DEFINE tx == [intent |-> call.intent, nonce |-> call.nonce]
  <2>1. tx \in Tx /\ call.pc # "idle"
    BY <1>9 DEF BroadcastSend, TypeOK, Tx
  <2>2. Send(tx, reply)
    BY <1>9 DEF BroadcastSend
  <2> HIDE DEF tx
  <2>3. /\ mempool' \subseteq Tx /\ IsFiniteSet(mempool') /\ faults' \in 0 .. MaxFaults
        /\ mined' = mined /\ receipts' = receipts
    BY <2>1, <2>2, SendType
  <2>4. CallType
    BY <1>9, <1>3, <1>4, <2>1 DEF BroadcastSend, CallPcs
  <2> QED BY <1>9, <2>3, <2>4 DEF TypeOK, BroadcastSend, storeVars
<1>10. ASSUME BroadcastInsert
       PROVE  TypeOK'
  <2>1. operatorTx' \subseteq Intents
    BY <1>10 DEF TypeOK, BroadcastInsert
  <2>2. CallType
    BY <1>10, <1>4 DEF BroadcastInsert, CallPcs
  <2> QED BY <1>10, <2>1, <2>2 DEF TypeOK, BroadcastInsert, chainVars
<1>11. ASSUME BroadcastSubmitted
       PROVE  TypeOK'
  <2>1. status' \in [Intents -> Statuses]
    BY <1>11 DEF TypeOK, BroadcastSubmitted, SetStatus, Statuses, RetireEligible
  <2>2. CallType
    BY <1>11, <1>3 DEF BroadcastSubmitted
  <2> QED BY <1>11, <2>1, <2>2 DEF TypeOK, BroadcastSubmitted, chainVars
<1> QED BY <1>1, <1>2, <1>5, <1>6, <1>7, <1>8, <1>9, <1>10, <1>11 DEF Routes

LEMMA RoutesKeep ==
    ASSUME Inv, Routes
    PROVE  Inv'
<1>1. UNCHANGED <<row, handed, sends, mined, receipts, runtime, armed, exec, recon>>
  BY DEF Routes, Cosign, Simulate, Broadcast, Retire, SimulatePersist, CosignStore, CosignReady, BroadcastNonce,
         BroadcastSend, Send, BroadcastInsert, BroadcastSubmitted, storeVars, chainVars
<1> QED BY <1>1, RoutesType, QuietKeeps DEF Inv

\* The blocks only add to what the chain has shown.
LEMMA NodeKeeps ==
    ASSUME Inv, Node
    PROVE  Inv'
<1>0. TypeOK /\ UNCHANGED <<storeVars, taskVars>>
  BY DEF Inv, Node
<1>1. ASSUME NEW tx \in mempool, Evict(tx)
      PROVE  Inv'
  <2>1. faults' \in 0 .. MaxFaults /\ mempool' = mempool \ {tx} /\ UNCHANGED <<mined, receipts>>
    BY <1>0, <1>1, FaultBound DEF Evict, Fault, TypeOK
  <2>2. mempool' \subseteq Tx /\ IsFiniteSet(mempool')
    BY <1>0, <2>1, FS_RemoveElement DEF TypeOK
  <2>3. TypeOK'
    BY <1>0, <2>1, <2>2 DEF TypeOK, storeVars, taskVars
  <2> QED BY <1>0, <2>1, <2>3, QuietKeeps DEF storeVars, taskVars
<1>2. ASSUME TypeOK', receipts \subseteq receipts', MinedIsSeen'
      PROVE  Inv'
  <2>1. RowsGrow /\ RowsFit'
    BY <1>0, SameRowsGrow DEF Inv, storeVars, RowsGrow
  <2>2. ExecFits' /\ ReconFits'
    BY <1>0, <1>2, <2>1, ExecFitsKept, ReconFitsKept DEF Inv, taskVars
  <2>3. HandedIsRecorded' /\ SendsFit'
    BY <1>0 DEF Inv, storeVars, taskVars, HandedIsRecorded, SendsFit, Envelope, ExecAt, ReconAt, Count
  <2>4. ConfirmedWasSettled'
    BY <1>0, <1>2 DEF Inv, storeVars, ConfirmedWasSettled, Recorded, Envelope
  <2> QED BY <1>2, <2>1, <2>2, <2>3, <2>4 DEF Inv
<1>3. ASSUME NEW tx \in mempool, NEW result \in Results, Mine(tx, result)
      PROVE  Inv'
  <2> DEFINE r == [tx |-> tx, result |-> result]
  <2>1. r \in [tx : Tx, result : Results]
    BY <1>0 DEF TypeOK
  <2>2. /\ mined' = Append(mined, r) /\ receipts' = receipts \cup {r}
        /\ mempool' = mempool \ {tx} /\ faults' = faults
    BY <1>3 DEF Mine
  <2> HIDE DEF r
  <2>3. mempool' \subseteq Tx /\ IsFiniteSet(mempool')
    BY <1>0, <2>2, FS_RemoveElement DEF TypeOK
  <2>4. mined \in Seq([tx : Tx, result : Results]) /\ mined' \in Seq([tx : Tx, result : Results])
    BY <1>0, <2>1, <2>2 DEF TypeOK
  <2>5. TypeOK'
    BY <1>0, <2>1, <2>2, <2>3, <2>4 DEF TypeOK, storeVars, taskVars
  <2>6. \A k \in DOMAIN mined' : (k \in DOMAIN mined /\ mined'[k] = mined[k]) \/ mined'[k] = r
    BY <2>2, <2>4
  <2>7. MinedIsSeen'
    BY <2>2, <2>6 DEF Inv, MinedIsSeen
  <2> QED BY <1>2, <2>2, <2>5, <2>7
<1>4. ASSUME Fork
      PROVE  Inv'
  <2>1. mined \in Seq([tx : Tx, result : Results]) /\ mined # <<>>
    BY <1>0, <1>4 DEF Fork, TypeOK
  <2>2. Len(mined) \in DOMAIN mined /\ Last(mined) \in [tx : Tx, result : Results]
    <3> DEFINE M == [tx : Tx, result : Results]
    <3>1. mined \in Seq(M) /\ mined # <<>>
      BY <2>1
    <3> HIDE DEF M
    <3>2. Len(mined) \in DOMAIN mined /\ mined[Len(mined)] \in M
      BY <3>1
    <3> QED BY <3>2 DEF Last, M
  <2>3. /\ mined' = SubSeq(mined, 1, Len(mined) - 1) /\ receipts' = receipts
        /\ mempool' = mempool \cup {Last(mined).tx} /\ faults' \in 0 .. MaxFaults
    BY <1>0, <1>4, FaultBound DEF Fork, Front, Fault, TypeOK
  <2>4. mempool' \subseteq Tx /\ IsFiniteSet(mempool')
    BY <1>0, <2>2, <2>3, FS_AddElement DEF TypeOK
  <2>5. mined' \in Seq([tx : Tx, result : Results])
    <3> DEFINE M == [tx : Tx, result : Results]
    <3>1. mined \in Seq(M) /\ mined # <<>>
      BY <2>1
    <3> HIDE DEF M
    <3>2. SubSeq(mined, 1, Len(mined) - 1) \in Seq(M)
      BY <3>1
    <3> QED BY <3>2, <2>3 DEF M
  <2>6. TypeOK'
    BY <1>0, <2>3, <2>4, <2>5 DEF TypeOK, storeVars, taskVars
  <2>7. \A k \in DOMAIN mined' : k \in DOMAIN mined /\ mined'[k] = mined[k]
    BY <2>1, <2>3
  <2>8. MinedIsSeen'
    BY <2>3, <2>7 DEF Inv, MinedIsSeen
  <2> QED BY <1>2, <2>3, <2>6, <2>8
<1> QED BY <1>1, <1>3, <1>4 DEF Node

-----------------------------------------------------------------------------
(* The process *)

LEMMA StartKeeps ==
    ASSUME Inv, NEW i \in Intents, Start(i)
    PROVE  Inv'
<1>1. exec.pc = "idle"
  BY DEF Inv, Start, ExecFits
<1>2. TypeOK'
  BY CallBounds DEF Inv, TypeOK, Start, storeVars, chainVars
<1>3. UNCHANGED <<row, mined, receipts, exec, recon, handed, sends>>
  BY DEF Start, storeVars, chainVars
<1>4. ExecFits'
  BY <1>1, <1>3 DEF ExecFits
<1>5. SendsFit'
  BY <1>1, <1>3 DEF Inv, SendsFit, ExecAt, ReconAt, Count
<1> QED BY <1>2, <1>3, <1>4, <1>5 DEF Inv, RowsFit, ReconFits, MinedIsSeen, HandedIsRecorded, ConfirmedWasSettled,
                                      Recorded, Envelope

LEMMA CrashKeeps ==
    ASSUME Inv, Crash
    PROVE  Inv'
<1>1. UNCHANGED <<row, mined, receipts, armed, handed, sends>> /\ exec' = IdleExec /\ recon' = IdleRecon
  BY DEF Crash, storeVars, chainVars
<1>2. TypeOK'
  <2>1. IdleExec \in [pc : ExecPcs, nonce : Nat, note : Replies \cup Results \cup {"none"}]
    BY DEF IdleExec, ExecPcs
  <2>2. /\ IdleRecon \in [pc : ReconPcs, todo : Seq(Intents), note : Results \cup {"none"}]
        /\ IdleRecon.pc = "idle" /\ IdleRecon.todo = <<>>
    BY DEF IdleRecon, ReconPcs
  <2>3. /\ IdleCall \in [kind : {"none", "cosign", "simulate", "broadcast"}, pc : CallPcs,
                 intent : Intents \cup {None}, note : Statuses \cup {"none"}, nonce : Nat]
        /\ IdleCall.pc = "idle"
    BY DEF IdleCall, CallPcs
  <2> HIDE DEF IdleExec, IdleRecon, IdleCall
  <2> QED BY <2>1, <2>2, <2>3 DEF Inv, TypeOK, Crash, storeVars, chainVars
<1>3. ExecFits' /\ ReconFits'
  BY <1>1 DEF ExecFits, ReconFits, IdleExec, IdleRecon
<1>4. SendsFit'
  <2>1. \A i \in Intents : row[i] # None => sends[i] <= row[i].attempts /\ row[i].attempts <= MaxAttempts + 1
    <3> SUFFICES ASSUME NEW i \in Intents, row[i] # None
                 PROVE  sends[i] <= row[i].attempts /\ row[i].attempts <= MaxAttempts + 1
      OBVIOUS
    <3>1. row[i].attempts \in Nat /\ sends[i] \in Nat /\ MaxAttempts \in Nat
      BY StoreBounds DEF Inv, TypeOK, Rows
    <3> QED BY <3>1 DEF Inv, SendsFit, Count
  <2>2. \A i \in Intents : sends[i] \in Nat /\ (row[i] # None => row[i].attempts \in Nat)
    BY DEF Inv, TypeOK, Rows
  <2> QED BY <1>1, <2>1, <2>2 DEF Inv, SendsFit, ExecAt, ReconAt, Count, IdleExec, IdleRecon
<1> QED BY <1>1, <1>2, <1>3, <1>4 DEF Inv, RowsFit, MinedIsSeen, HandedIsRecorded, ConfirmedWasSettled,
                                      Recorded, Envelope

LEMMA PreflightKeeps ==
    ASSUME Inv, PreflightFails
    PROVE  Inv'
<1>1. UNCHANGED <<row, handed, sends, mined, receipts, armed, exec, recon>> /\ exec.pc = "idle" /\ recon.pc = "idle"
  BY DEF Inv, ExecFits, PreflightFails, storeVars
<1>2. TypeOK'
  BY FaultBound DEF Inv, TypeOK, PreflightFails, Fault, storeVars
<1>3. ReconFits'
  BY <1>1 DEF Inv, ReconFits, Envelope
<1> QED BY <1>1, <1>2, <1>3, ReconMoveKeeps

-----------------------------------------------------------------------------
(* The executor *)

ExecNotes == Replies \cup Results \cup {"none"}

Execs == [pc : ExecPcs, nonce : Nat, note : ExecNotes]

\* Every executor record a step writes is well typed.
LEMMA ExecToType ==
    ASSUME TypeOK, NEW pc \in ExecPcs, NEW note \in ExecNotes, exec' = [exec EXCEPT !.pc = pc, !.note = note]
    PROVE  exec' \in Execs /\ exec'.pc = pc /\ exec'.note = note /\ exec'.nonce = exec.nonce
<1>1. exec \in Execs
  BY DEF TypeOK, Execs, ExecNotes
<1> QED BY <1>1 DEF Execs

LEMMA ExecIdleType ==
    ASSUME ExecIdle
    PROVE  exec' \in Execs /\ exec'.pc = "idle"
BY DEF ExecIdle, IdleExec, Execs, ExecPcs, ExecNotes

\* The tick ends: the executor owes nothing.
LEMMA ExecIdleKeeps ==
    ASSUME Inv, TypeOK', UNCHANGED <<row, handed, sends, mined, receipts, armed, recon>>, ExecIdle
    PROVE  Inv'
<1>1. exec'.pc = "idle"
  BY DEF ExecIdle, IdleExec
<1>2. ExecFits'
  BY <1>1 DEF ExecFits
<1> QED BY <1>1, <1>2, ExecMoveKeeps

LEMMA ExecListKeeps ==
    ASSUME Inv, ExecList
    PROVE  Inv'
<1>1. PICK pc \in {"guard", "simulate"} : exec' = [exec EXCEPT !.pc = pc, !.note = "none"]
  BY DEF ExecList, ExecTo
<1>2. exec' \in Execs /\ exec'.pc = pc
  <2>1. TypeOK /\ pc \in ExecPcs /\ "none" \in ExecNotes
    BY DEF Inv, ExecPcs, ExecNotes
  <2> QED BY <1>1, <2>1, ExecToType
<1>3. TypeOK'
  BY <1>2 DEF Inv, TypeOK, Execs, ExecNotes, ExecList, storeVars, chainVars
<1>4. runtime = "ready" /\ UNCHANGED <<row, handed, sends, mined, receipts, armed, recon, runtime>>
  BY DEF ExecList, storeVars, chainVars
<1>5. ExecFits'
  BY <1>2, <1>4 DEF ExecFits
<1> QED BY <1>2, <1>3, <1>4, <1>5, ExecMoveKeeps

LEMMA ExecSimulateKeeps ==
    ASSUME Inv, ExecSimulate
    PROVE  Inv'
<1>1. runtime = "ready" /\ UNCHANGED <<row, handed, sends, mined, receipts, armed, recon, runtime>>
  BY DEF ExecSimulate, chainVars, Inv, ExecFits
<1>2. status' \in [Intents -> Statuses]
  BY DEF ExecSimulate, SetStatus, Inv, TypeOK, Statuses, RetireEligible
<1>3. CASE ExecTo("guard")
  <2>1. exec' \in Execs /\ exec'.pc = "guard"
    <3>1. TypeOK /\ "guard" \in ExecPcs /\ "none" \in ExecNotes
      BY DEF Inv, ExecPcs, ExecNotes
    <3> QED BY <1>3, <3>1, ExecToType DEF ExecTo
  <2>2. TypeOK'
    BY <1>2, <2>1 DEF Execs, ExecNotes, Inv, TypeOK, ExecSimulate, chainVars
  <2>3. ExecFits'
    BY <1>1, <2>1 DEF ExecFits
  <2> QED BY <1>1, <2>1, <2>2, <2>3, ExecMoveKeeps
<1>4. CASE ExecIdle
  <2>1. TypeOK'
    BY <1>2, <1>4, ExecIdleType DEF Inv, TypeOK, ExecSimulate, chainVars, Execs, ExecNotes
  <2> QED BY <1>1, <1>4, <2>1, ExecIdleKeeps
<1> QED BY <1>3, <1>4 DEF ExecSimulate

LEMMA ExecGuardKeeps ==
    ASSUME Inv, ExecGuard
    PROVE  Inv'
<1>1. runtime = "ready" /\ UNCHANGED <<row, handed, sends, mined, receipts, armed, recon, runtime>>
  BY DEF ExecGuard, chainVars, storeVars, Inv, ExecFits
<1>2. CASE ExecIdle
  <2>1. TypeOK'
    BY <1>2, ExecIdleType DEF Inv, TypeOK, ExecGuard, chainVars, storeVars, Execs, ExecNotes
  <2> QED BY <1>1, <1>2, <2>1, ExecIdleKeeps
<1>3. CASE exec' = [exec EXCEPT !.pc = "record", !.nonce = PendingNonce]
  <2>1. exec' \in Execs /\ exec'.pc = "record"
    <3>1. exec \in Execs /\ PendingNonce \in Nat
      BY PendingNonceExists DEF Inv, TypeOK, Execs, ExecNotes
    <3> QED BY <1>3, <3>1 DEF Execs, ExecPcs
  <2>2. TypeOK'
    BY <2>1 DEF Execs, ExecNotes, Inv, TypeOK, ExecGuard, chainVars, storeVars
  <2>3. ExecFits'
    BY <1>1, <2>1 DEF ExecFits
  <2> QED BY <1>1, <2>1, <2>2, <2>3, ExecMoveKeeps
<1> QED BY <1>2, <1>3 DEF ExecGuard

LEMMA ExecPrepareKeeps ==
    ASSUME Inv, ExecPrepare
    PROVE  Inv'
<1>1. runtime = "ready" /\ UNCHANGED <<row, handed, sends, mined, receipts, armed, recon, runtime>>
  BY DEF ExecPrepare, chainVars, storeVars, Inv, ExecFits
<1>2. status' \in [Intents -> Statuses]
  BY DEF ExecPrepare, SetStatus, Inv, TypeOK, Statuses
<1>3. exec' \in Execs
      /\ exec'.pc = "bump" /\ exec'.nonce = exec.nonce
  <2>1. TypeOK /\ "bump" \in ExecPcs /\ "none" \in ExecNotes
    BY DEF Inv, ExecPcs, ExecNotes
  <2> QED BY <2>1, ExecToType DEF ExecPrepare, ExecTo
<1>4. TypeOK'
  BY <1>2, <1>3 DEF Execs, ExecNotes, Inv, TypeOK, ExecPrepare, chainVars
<1>5. ExecFits'
  BY <1>1, <1>3 DEF Inv, ExecFits, ExecPrepare
<1> QED BY <1>1, <1>3, <1>4, <1>5, ExecMoveKeeps DEF ExecPrepare

LEMMA ExecPollKeeps ==
    ASSUME Inv, ExecPoll
    PROVE  Inv'
<1> DEFINE tx == [intent |-> armed, nonce |-> exec.nonce]
<1>1. runtime = "ready" /\ UNCHANGED <<row, handed, sends, mined, receipts, armed, recon, runtime>>
  BY DEF ExecPoll, chainVars, storeVars, Inv, ExecFits
<1>2. CASE ExecIdle
  <2>1. TypeOK'
    BY <1>2, ExecIdleType DEF Inv, TypeOK, ExecPoll, chainVars, storeVars, Execs, ExecNotes
  <2> QED BY <1>1, <1>2, <2>1, ExecIdleKeeps
<1>3. CASE \E r \in Receipt(tx) : exec' = [exec EXCEPT !.pc = "finalize", !.note = r.result]
  <2>1. PICK r \in Receipt(tx) : exec' = [exec EXCEPT !.pc = "finalize", !.note = r.result]
    BY <1>3
  <2>2. r \in receipts /\ r \in [tx : Tx, result : Results] /\ r.tx = tx
    BY DEF Receipt, Range, Inv, MinedIsSeen, TypeOK
  <2>3. exec' \in Execs
        /\ exec'.pc = "finalize" /\ exec'.nonce = exec.nonce /\ exec'.note = r.result
    <3>1. TypeOK /\ "finalize" \in ExecPcs /\ r.result \in ExecNotes
      BY <2>2 DEF Inv, ExecPcs, ExecNotes
    <3> QED BY <2>1, <3>1, ExecToType
  <2>4. TypeOK'
    BY <2>3 DEF Execs, ExecNotes, Inv, TypeOK, ExecPoll, chainVars, storeVars
  <2>5. row[armed] # None /\ row[armed].nonce = exec.nonce
    BY DEF Inv, ExecFits, ExecPoll
  <2>6. r = [tx |-> tx, result |-> r.result]
    BY <2>2
  <2>7. [tx |-> [intent |-> armed, nonce |-> row[armed].nonce], result |-> exec'.note] \in receipts
    BY <2>2, <2>3, <2>5, <2>6
  <2>8. ExecFits'
    BY <1>1, <2>3, <2>5, <2>7 DEF ExecFits, Envelope
  <2> QED BY <1>1, <2>3, <2>4, <2>8, ExecMoveKeeps
<1> QED BY <1>2, <1>3 DEF ExecPoll

LEMMA ExecErrorKeeps ==
    ASSUME Inv, ExecError
    PROVE  Inv'
<1>1. UNCHANGED <<row, handed, sends, mined, receipts, armed, recon>> /\ ExecIdle
  BY DEF ExecError, storeVars
<1>2. TypeOK'
  BY <1>1, ExecIdleType, FaultBound DEF Inv, TypeOK, Execs, ExecNotes, ExecError, Fault, storeVars
<1> QED BY <1>1, <1>2, ExecIdleKeeps

-----------------------------------------------------------------------------
(* The steps that write a row or hand an envelope over *)

\* The counts of one intent are small numbers.
LEMMA CountTypes ==
    ASSUME TypeOK, SendsFit, NEW i \in Intents, row[i] # None
    PROVE  /\ row[i].attempts \in Nat /\ sends[i] \in Nat /\ MaxAttempts \in Nat
           /\ sends[i] + Count(ExecAt("send", i)) + Count(ReconAt("send", i)) <= row[i].attempts
           /\ row[i].attempts + Count(ExecAt("prepare", i) \/ ExecAt("bump", i)) + Count(ReconAt("bump", i))
                  <= MaxAttempts + 1
           /\ Count(ExecAt("send", i)) \in 0 .. 1 /\ Count(ReconAt("send", i)) \in 0 .. 1
           /\ Count(ExecAt("prepare", i) \/ ExecAt("bump", i)) \in 0 .. 1 /\ Count(ReconAt("bump", i)) \in 0 .. 1
<1>1. row[i].attempts \in Nat /\ sends[i] \in Nat /\ MaxAttempts \in Nat
  BY StoreBounds DEF TypeOK, Rows
<1> QED BY <1>1 DEF SendsFit, Count

\* A step that changes neither attempts nor sends, and after which each task is
\* either where it was or neither about to bump nor about to send.
LEMMA SendsKept ==
    ASSUME TypeOK, SendsFit, sends' = sends, armed' = armed,
           \A i \in Intents : /\ row'[i] = None <=> row[i] = None
                              /\ row[i] # None => row'[i].attempts = row[i].attempts,
           exec' = exec \/ exec'.pc \notin {"prepare", "bump", "send"},
           recon' = recon \/ recon'.pc \notin {"bump", "send"}
    PROVE  SendsFit'
<1> SUFFICES ASSUME NEW i \in Intents, row[i] # None
             PROVE  /\ sends[i] + Count(ExecAt("send", i))' + Count(ReconAt("send", i))' <= row[i].attempts
                    /\ row[i].attempts + Count(ExecAt("prepare", i) \/ ExecAt("bump", i))' + Count(ReconAt("bump", i))'
                           <= MaxAttempts + 1
  BY DEF SendsFit, Count
<1>1. /\ Count(ExecAt("send", i))' \in 0 .. Count(ExecAt("send", i))
      /\ Count(ExecAt("prepare", i) \/ ExecAt("bump", i))' \in 0 .. Count(ExecAt("prepare", i) \/ ExecAt("bump", i))
  BY DEF ExecAt, Count
<1>2. /\ Count(ReconAt("send", i))' \in 0 .. Count(ReconAt("send", i))
      /\ Count(ReconAt("bump", i))' \in 0 .. Count(ReconAt("bump", i))
  BY DEF ReconAt, Count
<1> QED BY <1>1, <1>2, CountTypes

\* The status of a stored row is written: by the executor or by a pass.
LEMMA MarkKeeps ==
    ASSUME Inv, TypeOK', NEW i \in Recorded, NEW to \in {"Submitted", "Confirmed", "Failed"}, Mark(i, to),
           UNCHANGED <<mined, receipts, armed, handed, sends>>,
           to = "Confirmed" => [tx |-> Envelope(i), result |-> "settled"] \in receipts,
           exec' = exec \/ exec'.pc \notin {"prepare", "bump", "send"},
           recon' = recon \/ recon'.pc \notin {"bump", "send"},
           RowsGrow => ExecFits' /\ ReconFits'
    PROVE  Inv'
<1>1. /\ RowsGrow /\ row[i] \in Rows
      /\ row'[i] = [row[i] EXCEPT !.status = IF row[i].status \in Unfinalized THEN to ELSE row[i].status]
      /\ \A j \in Intents \ {i} : row'[j] = row[j]
  BY MarkGrows DEF Inv
<1>2. /\ row'[i].attempts = row[i].attempts /\ row'[i].nonce = row[i].nonce /\ row'[i] # None /\ row[i] # None
      /\ row'[i].status = row[i].status \/ row'[i].status = to
  BY <1>1 DEF Rows, Recorded, RowsGrow
<1>3. HandedIsRecorded'
  BY <1>1, HandedKept DEF Inv
<1>4. ConfirmedWasSettled'
  <2>1. ASSUME NEW j \in Recorded', row'[j].status = "Confirmed"
        PROVE  \/ j \in Recorded /\ row[j].status = "Confirmed"
               \/ [tx |-> [intent |-> j, nonce |-> row'[j].nonce], result |-> "settled"] \in receipts
    <3>1. CASE j = i
      BY <3>1, <2>1, <1>2 DEF Envelope
    <3>2. CASE j # i
      BY <3>2, <2>1, <1>1 DEF Recorded
    <3> QED BY <3>1, <3>2
  <2> QED BY <2>1, <1>1, ConfirmedKept DEF Inv
<1>5. SendsFit'
  <2>1. \A j \in Intents : /\ row'[j] = None <=> row[j] = None
                           /\ row[j] # None => row'[j].attempts = row[j].attempts
    BY <1>1, <1>2
  <2> QED BY <2>1, SendsKept DEF Inv
<1>6. MinedIsSeen'
  BY SeenKept DEF Inv
<1> QED BY <1>1, <1>3, <1>4, <1>5, <1>6 DEF Inv, RowsGrow

LEMMA ExecRecordKeeps ==
    ASSUME Inv, ExecRecord
    PROVE  Inv'
<1>0. runtime = "ready" /\ UNCHANGED <<handed, sends, mined, receipts, armed, recon, runtime>> /\ armed \in Intents
      /\ exec.nonce \in Nat /\ TypeOK /\ RowsFit
  BY DEF ExecRecord, chainVars, Inv, ExecFits, TypeOK
<1>1. CASE ExecIdle /\ row' = row
  <2>1. TypeOK'
    BY <1>1, ExecIdleType DEF Inv, TypeOK, ExecRecord, chainVars, Execs, ExecNotes
  <2> QED BY <1>0, <1>1, <2>1, ExecIdleKeeps
<1>2. CASE NonceIsFree(armed, exec.nonce) /\ RecordPrepared(armed, exec.nonce) /\ ExecTo("prepare")
  <2>1. /\ RowsGrow
        /\ row'[armed] = [nonce |-> exec.nonce, status |-> "Prepared", attempts |-> 0, order |-> Cardinality(Recorded)]
        /\ \A j \in Intents \ {armed} : row'[j] = row[j]
    BY <1>0, <1>2, RecordGrows DEF Record
  <2>2. row[armed] = None /\ row'[armed] \in Rows /\ row'[armed] # None /\ row'[armed].nonce = exec.nonce
        /\ row'[armed].attempts = 0 /\ row'[armed].status = "Prepared"
    <3>1. row[armed] = None
      BY <1>2 DEF NonceIsFree
    <3>2. IsFiniteSet(Recorded) /\ Cardinality(Recorded) \in Nat
      BY StoreBounds, FS_Subset, FS_CardinalityType DEF Recorded
    <3>3. row'[armed] \in Rows
      BY <1>0, <2>1, <3>2 DEF Rows
    <3> QED BY <2>1, <3>1, <3>3, NoRow
  <2>3. exec' \in Execs /\ exec'.pc = "prepare" /\ exec'.nonce = exec.nonce
    <3>1. "prepare" \in ExecPcs /\ "none" \in ExecNotes
      BY DEF ExecPcs, ExecNotes
    <3> QED BY <1>0, <1>2, <3>1, ExecToType DEF ExecTo
  <2>4. TypeOK'
    BY <1>0, <2>1, <2>3 DEF RowsGrow, TypeOK, ExecRecord, chainVars, Execs, ExecNotes
  <2>5. HandedIsRecorded'
    BY <1>0, <2>1, <2>4, HandedKept DEF Inv
  <2>6. ConfirmedWasSettled'
    <3>1. \A j \in Recorded' : row'[j].status = "Confirmed" => j \in Recorded /\ row[j].status = "Confirmed"
      BY <2>1, <2>2 DEF Recorded
    <3> QED BY <3>1, <1>0, <2>1, ConfirmedKept DEF Inv
  <2>7. ReconFits' /\ MinedIsSeen'
    BY <1>0, <2>1, ReconFitsKept, SeenKept DEF Inv
  <2>8. ExecFits'
    BY <1>0, <2>2, <2>3 DEF ExecFits
  <2>9. SendsFit'
    <3>1. sends[armed] = 0
      BY <1>0, <2>2 DEF Inv, SendsFit
    <3>2. recon.pc \in {"bump", "send"} => Head(recon.todo) # armed
      <4> SUFFICES ASSUME recon.pc \in {"bump", "send"}
                   PROVE  Head(recon.todo) # armed
        OBVIOUS
      <4>1. recon.todo \in Seq(Intents) /\ recon.todo # <<>>
        BY <1>0 DEF TypeOK
      <4>2. 1 \in DOMAIN recon.todo /\ Head(recon.todo) = recon.todo[1]
        BY <4>1
      <4> QED BY <4>2, <2>2 DEF Inv, ReconFits
    <3> SUFFICES ASSUME NEW j \in Intents
                 PROVE  /\ row'[j] = None => sends[j] = 0
                        /\ row'[j] # None =>
                             /\ sends[j] + Count(ExecAt("send", j))' + Count(ReconAt("send", j))' <= row'[j].attempts
                             /\ row'[j].attempts + Count(ExecAt("prepare", j) \/ ExecAt("bump", j))'
                                    + Count(ReconAt("bump", j))' <= MaxAttempts + 1
      BY <1>0 DEF SendsFit
    <3>3. CASE j = armed
      BY <3>1, <3>2, <3>3, <1>0, <2>2, <2>3, StoreBounds DEF ExecAt, ReconAt, Count
    <3>4. CASE j # armed
      <4>1. row'[j] = row[j] /\ (row[j] = None => sends[j] = 0)
        BY <3>4, <2>1, <1>0 DEF Inv, SendsFit
      <4>2. /\ Count(ExecAt("send", j))' = 0 /\ Count(ExecAt("prepare", j) \/ ExecAt("bump", j))' = 0
            /\ Count(ReconAt("send", j))' = Count(ReconAt("send", j))
            /\ Count(ReconAt("bump", j))' = Count(ReconAt("bump", j))
        BY <3>4, <1>0 DEF ExecAt, ReconAt, Count
      <4> QED BY <4>1, <4>2, <1>0, CountTypes DEF Inv
    <3> QED BY <3>3, <3>4
  <2> QED BY <2>1, <2>4, <2>5, <2>6, <2>7, <2>8, <2>9 DEF Inv, RowsGrow
<1> QED BY <1>1, <1>2 DEF ExecRecord

\* The executor counts its send before it makes it.
LEMMA ExecBumpKeeps ==
    ASSUME Inv, ExecBump
    PROVE  Inv'
<1>1. /\ runtime = "ready" /\ UNCHANGED <<handed, sends, mined, receipts, armed, recon, runtime>>
      /\ armed \in Recorded /\ armed \in Intents /\ row[armed].nonce = exec.nonce /\ exec.pc = "bump" /\ TypeOK /\ RowsFit
  BY DEF ExecBump, chainVars, Inv, ExecFits, TypeOK, Recorded
<1>2. /\ RowsGrow /\ row[armed] \in Rows /\ row'[armed] = [row[armed] EXCEPT !.attempts = row[armed].attempts + 1]
      /\ \A j \in Intents \ {armed} : row'[j] = row[j]
  BY <1>1, BumpGrows DEF ExecBump
<1>3. /\ row'[armed].attempts = row[armed].attempts + 1 /\ row'[armed].nonce = row[armed].nonce
      /\ row'[armed].status = row[armed].status /\ row'[armed] # None /\ row[armed] # None
  BY <1>1, <1>2 DEF Rows, Recorded, RowsGrow
<1>4. exec' \in Execs /\ exec'.pc = "send" /\ exec'.nonce = exec.nonce
  <2>1. "send" \in ExecPcs /\ "none" \in ExecNotes
    BY DEF ExecPcs, ExecNotes
  <2> QED BY <1>1, <2>1, ExecToType DEF ExecTo, ExecBump
<1>5. TypeOK'
  BY <1>1, <1>2, <1>4 DEF RowsGrow, TypeOK, ExecBump, chainVars, Execs, ExecNotes
<1>6. HandedIsRecorded'
  BY <1>1, <1>2, <1>5, HandedKept DEF Inv
<1>7. ConfirmedWasSettled'
  <2>1. \A j \in Recorded' : row'[j].status = "Confirmed" => j \in Recorded /\ row[j].status = "Confirmed"
    BY <1>1, <1>2, <1>3 DEF Recorded
  <2> QED BY <2>1, <1>1, <1>2, ConfirmedKept DEF Inv
<1>8. ReconFits' /\ MinedIsSeen'
  BY <1>1, <1>2, ReconFitsKept, SeenKept DEF Inv
<1>9. ExecFits'
  BY <1>1, <1>3, <1>4 DEF ExecFits
<1>10. SendsFit'
  <2> SUFFICES ASSUME NEW j \in Intents, row[j] # None
               PROVE  /\ sends[j] + Count(ExecAt("send", j))' + Count(ReconAt("send", j))' <= row'[j].attempts
                      /\ row'[j].attempts + Count(ExecAt("prepare", j) \/ ExecAt("bump", j))'
                             + Count(ReconAt("bump", j))' <= MaxAttempts + 1
    BY <1>1, <1>2, <1>3 DEF Inv, SendsFit
  <2>1. /\ Count(ReconAt("send", j))' = Count(ReconAt("send", j)) /\ Count(ReconAt("bump", j))' = Count(ReconAt("bump", j))
        /\ Count(ExecAt("prepare", j) \/ ExecAt("bump", j))' = 0
    BY <1>1, <1>4 DEF ExecAt, ReconAt, Count
  <2>2. CASE j = armed
    <3>1. Count(ExecAt("send", j))' = 1 /\ Count(ExecAt("prepare", j) \/ ExecAt("bump", j)) = 1
      BY <2>2, <1>1, <1>4 DEF ExecAt, Count
    <3> QED BY <2>1, <2>2, <3>1, <1>1, <1>3, CountTypes DEF Inv
  <2>3. CASE j # armed
    <3>1. Count(ExecAt("send", j))' = 0 /\ row'[j] = row[j]
      BY <2>3, <1>1, <1>2 DEF ExecAt, Count
    <3> QED BY <2>1, <3>1, <1>1, CountTypes DEF Inv
  <2> QED BY <2>2, <2>3
<1> QED BY <1>2, <1>5, <1>6, <1>7, <1>8, <1>9, <1>10 DEF Inv, RowsGrow

\* What is handed over is a stored envelope, and it was counted.
LEMMA HandOverKeeps ==
    ASSUME Inv, TypeOK', NEW i \in Recorded, NEW reply, HandOver(Envelope(i), reply),
           UNCHANGED <<row, armed>>, ExecFits', ReconFits',
           \/ exec.pc = "send" /\ armed = i /\ exec'.pc = "reply" /\ recon' = recon
           \/ recon.pc = "send" /\ Head(recon.todo) = i /\ recon'.pc \in {"row", "idle"} /\ exec' = exec
    PROVE  Inv'
<1> DEFINE tx == Envelope(i)
<1>1. i \in Intents /\ row[i] # None /\ tx.intent = i
  BY DEF Recorded, Envelope
<1>2. /\ handed' = handed \cup {tx} /\ sends' = [sends EXCEPT ![i] = sends[i] + 1]
      /\ mined' = mined /\ receipts' = receipts
  BY <1>1 DEF HandOver, Send
<1>3. RowsGrow
  BY SameRowsGrow DEF Inv
<1>4. HandedIsRecorded'
  <2> HIDE DEF tx
  <2>1. row[tx.intent] # None /\ Envelope(tx.intent) = tx
    BY <1>1 DEF tx, Envelope
  <2>2. \A t \in handed' : t \in handed \/ (row[t.intent] # None /\ Envelope(t.intent) = t)
    BY <1>2, <2>1
  <2> QED BY <1>3, <2>2, HandedKept DEF Inv
<1>5. ConfirmedWasSettled' /\ MinedIsSeen' /\ RowsFit'
  BY <1>2, <1>3 DEF Inv, ConfirmedWasSettled, MinedIsSeen, RowsGrow, Recorded, Envelope
<1>6. /\ sends'[i] = sends[i] + 1 /\ \A j \in Intents \ {i} : sends'[j] = sends[j]
  BY <1>1, <1>2 DEF Inv, TypeOK
<1>7. SendsFit'
  <2> SUFFICES ASSUME NEW j \in Intents, row[j] # None
               PROVE  /\ sends'[j] + Count(ExecAt("send", j))' + Count(ReconAt("send", j))' <= row[j].attempts
                      /\ row[j].attempts + Count(ExecAt("prepare", j) \/ ExecAt("bump", j))'
                             + Count(ReconAt("bump", j))' <= MaxAttempts + 1
    BY <1>1, <1>6 DEF Inv, SendsFit
  <2>1. /\ Count(ReconAt("bump", j))' \in 0 .. Count(ReconAt("bump", j))
        /\ Count(ExecAt("prepare", j) \/ ExecAt("bump", j))' \in 0 .. Count(ExecAt("prepare", j) \/ ExecAt("bump", j))
    BY DEF ExecAt, ReconAt, Count
  <2>2. CASE j = i
    <3>1. Count(ExecAt("send", j))' + Count(ReconAt("send", j))' + 1 = Count(ExecAt("send", j)) + Count(ReconAt("send", j))
      BY <2>2 DEF ExecAt, ReconAt, Count
    <3>2. Count(ExecAt("send", j))' \in 0 .. 1 /\ Count(ReconAt("send", j))' \in 0 .. 1
      BY DEF Count
    <3> QED BY <2>1, <2>2, <3>1, <3>2, <1>6, CountTypes DEF Inv
  <2>3. CASE j # i
    <3>1. /\ Count(ExecAt("send", j))' \in 0 .. Count(ExecAt("send", j))
          /\ Count(ReconAt("send", j))' \in 0 .. Count(ReconAt("send", j))
      BY <2>3 DEF ExecAt, ReconAt, Count
    <3> QED BY <2>1, <2>3, <3>1, <1>6, CountTypes DEF Inv
  <2> QED BY <2>2, <2>3
<1> QED BY <1>4, <1>5, <1>7 DEF Inv

LEMMA HandOverType ==
    ASSUME TypeOK, NEW tx \in Tx, NEW reply, HandOver(tx, reply)
    PROVE  /\ handed' \subseteq Tx /\ sends' \in [Intents -> Nat]
           /\ mempool' \subseteq Tx /\ IsFiniteSet(mempool') /\ faults' \in 0 .. MaxFaults
           /\ mined' = mined /\ receipts' = receipts
<1>1. tx.intent \in Intents /\ Send(tx, reply)
  BY DEF Tx, HandOver
<1>2. sends' = [sends EXCEPT ![tx.intent] = sends[tx.intent] + 1] /\ sends[tx.intent] + 1 \in Nat
  BY <1>1 DEF HandOver, TypeOK
<1> QED BY <1>1, <1>2, SendType DEF HandOver, TypeOK

LEMMA ExecSendKeeps ==
    ASSUME Inv, NEW reply \in Replies, ExecSend(reply)
    PROVE  Inv'
<1>1. /\ runtime = "ready" /\ UNCHANGED <<row, armed, recon, runtime>> /\ exec.pc = "send"
      /\ armed \in Recorded /\ armed \in Intents /\ row[armed].nonce = exec.nonce /\ TypeOK
  BY DEF ExecSend, storeVars, Inv, ExecFits, TypeOK, Recorded
<1>2. HandOver(Envelope(armed), reply)
  BY <1>1 DEF ExecSend, Envelope
<1>3. exec' \in Execs /\ exec'.pc = "reply" /\ exec'.nonce = exec.nonce
  <2>1. "reply" \in ExecPcs /\ reply \in ExecNotes /\ exec' = [exec EXCEPT !.pc = "reply", !.note = reply]
    BY DEF ExecPcs, ExecNotes, ExecSend
  <2> QED BY <1>1, <2>1, ExecToType
<1>4. Envelope(armed) \in Tx
  BY <1>1 DEF Envelope, Tx, TypeOK, Recorded, Rows
<1>5. /\ handed' \subseteq Tx /\ sends' \in [Intents -> Nat]
      /\ mempool' \subseteq Tx /\ IsFiniteSet(mempool') /\ faults' \in 0 .. MaxFaults
      /\ mined' = mined /\ receipts' = receipts
  BY <1>1, <1>2, <1>4, HandOverType
<1>6. TypeOK'
  BY <1>1, <1>3, <1>5 DEF TypeOK, ExecSend, storeVars, Execs, ExecNotes
<1>7. ExecFits'
  BY <1>1, <1>3 DEF ExecFits, Recorded
<1>8. ReconFits'
  BY <1>1, <1>5 DEF Inv, ReconFits, Envelope
<1> QED BY <1>1, <1>2, <1>3, <1>6, <1>7, <1>8, HandOverKeeps

LEMMA ExecReplyKeeps ==
    ASSUME Inv, ExecReply
    PROVE  Inv'
<1>1. /\ runtime = "ready" /\ UNCHANGED <<handed, sends, mined, receipts, armed, recon, runtime>>
      /\ armed \in Recorded /\ armed \in Intents /\ row[armed].nonce = exec.nonce /\ TypeOK /\ RowsFit
  BY DEF ExecReply, chainVars, Inv, ExecFits, TypeOK, Recorded
<1>2. CASE ExecIdle /\ UNCHANGED <<row, status>>
  <2>1. TypeOK'
    BY <1>1, <1>2, ExecIdleType DEF TypeOK, ExecReply, chainVars, Execs, ExecNotes
  <2> QED BY <1>1, <1>2, <2>1, ExecIdleKeeps
<1>3. ASSUME NEW to \in {"Submitted", "Failed"}, Mark(armed, to), exec' \in Execs, exec'.pc \in {"idle", "poll"},
             exec'.pc = "poll" => exec'.nonce = exec.nonce
      PROVE  Inv'
  <2>1. RowsGrow /\ status' \in [Intents -> Statuses]
    BY <1>1, <1>3, MarkGrows
  <2>2. TypeOK'
    BY <1>1, <1>3, <2>1 DEF RowsGrow, TypeOK, ExecReply, chainVars, Execs, ExecNotes
  <2>3. row'[armed] # None /\ row'[armed].nonce = row[armed].nonce
    BY <1>1, <2>1 DEF RowsGrow
  <2>4. ExecFits'
    BY <1>1, <1>3, <2>3 DEF ExecFits
  <2>5. ReconFits'
    BY <1>1, <2>1, ReconFitsKept DEF Inv
  <2> QED BY <1>1, <1>3, <2>2, <2>4, <2>5, MarkKeeps
<1>4. CASE Mark(armed, "Submitted") /\ ExecTo("poll")
  <2>1. "poll" \in ExecPcs /\ "none" \in ExecNotes
    BY DEF ExecPcs, ExecNotes
  <2>2. exec' \in Execs /\ exec'.pc = "poll" /\ exec'.nonce = exec.nonce
    BY <1>1, <1>4, <2>1, ExecToType DEF ExecTo
  <2> QED BY <1>3, <1>4, <2>2
<1>5. CASE Mark(armed, "Failed") /\ ExecIdle
  BY <1>3, <1>5, ExecIdleType
<1> QED BY <1>2, <1>4, <1>5 DEF ExecReply

LEMMA ExecFinalizeKeeps ==
    ASSUME Inv, ExecFinalize
    PROVE  Inv'
<1>1. /\ runtime = "ready" /\ UNCHANGED <<handed, sends, mined, receipts, armed, recon, runtime>>
      /\ armed \in Recorded /\ armed \in Intents /\ TypeOK /\ RowsFit
      /\ [tx |-> Envelope(armed), result |-> exec.note] \in receipts
  BY DEF ExecFinalize, chainVars, Inv, ExecFits, TypeOK, Recorded
<1>2. PICK to \in {"Confirmed", "Failed"} : Mark(armed, to) /\ (to = "Confirmed" => exec.note = "settled")
  BY DEF ExecFinalize, Finalize, Verified
<1>3. exec' \in Execs /\ exec'.pc = "idle"
  BY ExecIdleType DEF ExecFinalize
<1>4. RowsGrow /\ status' \in [Intents -> Statuses]
  BY <1>1, <1>2, MarkGrows
<1>5. TypeOK'
  BY <1>1, <1>3, <1>4 DEF RowsGrow, TypeOK, ExecFinalize, chainVars, Execs, ExecNotes
<1>6. ExecFits'
  BY <1>1, <1>3 DEF ExecFits
<1>7. ReconFits'
  BY <1>1, <1>4, ReconFitsKept DEF Inv
<1> QED BY <1>1, <1>2, <1>3, <1>5, <1>6, <1>7, MarkKeeps

-----------------------------------------------------------------------------
(* The reconciler *)

Recons == [pc : ReconPcs, todo : Seq(Intents), note : Results \cup {"none"}]

\* A pass that is under way has a stored row at its head.
LEMMA ReconHead ==
    ASSUME TypeOK, ReconFits, recon.pc # "idle"
    PROVE  /\ recon \in Recons /\ recon.todo \in Seq(Intents) /\ recon.todo # <<>>
           /\ 1 \in DOMAIN recon.todo /\ Head(recon.todo) = recon.todo[1]
           /\ Head(recon.todo) \in Recorded
<1>1. recon.todo \in Seq(Intents) /\ recon.todo # <<>> /\ recon \in Recons
  BY DEF TypeOK, Recons
<1>2. 1 \in DOMAIN recon.todo /\ Head(recon.todo) = recon.todo[1] /\ recon.todo[1] \in Intents
  BY <1>1
<1> QED BY <1>1, <1>2 DEF ReconFits, Recorded

\* The pass goes on with the rest of its page, or ends and the runtime is ready.
LEMMA NextRowFits ==
    ASSUME TypeOK, ReconFits, recon.pc # "idle", NextRow,
           \A i \in Recorded : row'[i] # None
    PROVE  /\ recon' \in Recons /\ recon'.pc \in {"idle", "row"}
           /\ recon'.pc = "idle" <=> recon'.todo = <<>>
           /\ runtime' \in {runtime, "ready"}
           /\ ReconFits'
<1>1. /\ recon \in Recons /\ recon.todo \in Seq(Intents) /\ recon.todo # <<>> /\ Len(recon.todo) \in Nat
  BY ReconHead
<1>2. CASE Len(recon.todo) = 1
  <2>1. recon' = IdleRecon /\ runtime' = "ready"
    BY <1>2 DEF NextRow
  <2> QED BY <2>1 DEF IdleRecon, Recons, ReconPcs, ReconFits
<1>3. CASE Len(recon.todo) # 1
  <2> DEFINE rest == Tail(recon.todo)
  <2>1. recon' = [IdleRecon EXCEPT !.pc = "row", !.todo = rest] /\ runtime' = runtime
    BY <1>3 DEF NextRow
  <2>2. /\ rest \in Seq(Intents) /\ rest # <<>>
        /\ \A k \in DOMAIN rest : k + 1 \in DOMAIN recon.todo /\ rest[k] = recon.todo[k + 1]
    BY <1>1, <1>3, TailFacts
  <2> HIDE DEF rest
  <2>3. recon' \in Recons /\ recon'.pc = "row" /\ recon'.todo = rest
    BY <2>1, <2>2 DEF IdleRecon, Recons, ReconPcs
  <2>4. \A k \in DOMAIN recon.todo : recon.todo[k] \in Recorded
    BY <1>1 DEF ReconFits, Recorded
  <2>5. \A k \in DOMAIN rest : row'[rest[k]] # None
    BY <2>2, <2>4
  <2> QED BY <2>1, <2>2, <2>3, <2>5 DEF ReconFits
<1> QED BY <1>2, <1>3

LEMMA ReconListKeeps ==
    ASSUME Inv, ReconList
    PROVE  Inv'
<1>1. UNCHANGED <<row, handed, sends, mined, receipts, armed, exec>> /\ TypeOK /\ RowsFit /\ recon.pc = "idle"
      /\ recon \in Recons
  BY DEF ReconList, storeVars, chainVars, Inv, TypeOK, Recons
<1>2. CASE runtime' = "ready" /\ recon' = recon
  <2>1. TypeOK'
    BY <1>1, <1>2 DEF TypeOK, ReconList, storeVars, chainVars
  <2>2. ReconFits'
    BY <1>1, <1>2 DEF Inv, ReconFits, Envelope
  <2>3. exec.pc # "idle" => runtime' = runtime
    BY <1>2 DEF Inv, ExecFits
  <2> QED BY <1>1, <1>2, <2>1, <2>2, <2>3, ReconMoveKeeps
<1>3. CASE ListUnfinalized # <<>> /\ recon' = [recon EXCEPT !.pc = "row", !.todo = ListUnfinalized] /\ runtime' = runtime
  <2> DEFINE todo == ListUnfinalized
  <2>1. todo \in Seq(Intents) /\ \A k \in DOMAIN todo : row[todo[k]] # None
    BY <1>1, ListUnfinalizedType
  <2>2. todo # <<>> /\ recon' = [recon EXCEPT !.pc = "row", !.todo = todo]
    BY <1>3
  <2> HIDE DEF todo
  <2>3. recon' \in Recons /\ recon'.pc = "row" /\ recon'.todo = todo
    BY <1>1, <2>1, <2>2 DEF Recons, ReconPcs
  <2>4. TypeOK'
    BY <1>1, <1>3, <2>2, <2>3 DEF TypeOK, ReconList, storeVars, chainVars, Recons
  <2>5. ReconFits'
    BY <1>1, <2>1, <2>3 DEF ReconFits
  <2> QED BY <1>1, <1>3, <2>3, <2>4, <2>5, ReconMoveKeeps
<1> QED BY <1>2, <1>3 DEF ReconList

LEMMA ReconRowKeeps ==
    ASSUME Inv, ReconRow
    PROVE  Inv'
<1> DEFINE i == Head(recon.todo)
<1>1. UNCHANGED <<row, handed, sends, mined, receipts, armed, exec>> /\ TypeOK /\ ReconFits /\ recon.pc = "row"
  BY DEF ReconRow, storeVars, chainVars, Inv
<1>2. recon \in Recons /\ recon.todo # <<>> /\ i \in Recorded
  BY <1>1, ReconHead
<1>3. CASE \E r \in Receipt(Envelope(i)) :
              recon' = [recon EXCEPT !.pc = "finalize", !.note = r.result] /\ UNCHANGED runtime
  <2>1. PICK r \in Receipt(Envelope(i)) :
              recon' = [recon EXCEPT !.pc = "finalize", !.note = r.result] /\ UNCHANGED runtime
    BY <1>3
  <2>2. r \in receipts /\ r \in [tx : Tx, result : Results] /\ r.tx = Envelope(i)
    BY DEF Receipt, Range, Inv, MinedIsSeen, TypeOK
  <2>3. recon' \in Recons /\ recon'.pc = "finalize" /\ recon'.todo = recon.todo /\ recon'.note = r.result
    BY <1>2, <2>1, <2>2 DEF Recons, ReconPcs
  <2>4. TypeOK'
    BY <1>1, <1>2, <2>1, <2>3 DEF TypeOK, ReconRow, storeVars, chainVars, Recons
  <2>5. r = [tx |-> Envelope(i), result |-> r.result]
    BY <2>2
  <2>6. [tx |-> [intent |-> i, nonce |-> row[i].nonce], result |-> recon'.note] \in receipts
    BY <2>2, <2>3, <2>5 DEF Envelope
  <2>7. ReconFits'
    BY <1>1, <2>3, <2>6 DEF ReconFits, Envelope
  <2> QED BY <1>1, <2>1, <2>3, <2>4, <2>7, ReconMoveKeeps
<1>4. CASE MayResend(i) /\ recon' = [recon EXCEPT !.pc = "bump"] /\ UNCHANGED runtime
  <2>1. recon' \in Recons /\ recon'.pc = "bump" /\ recon'.todo = recon.todo
    BY <1>2, <1>4 DEF Recons, ReconPcs
  <2>2. TypeOK'
    BY <1>1, <1>2, <1>4, <2>1 DEF TypeOK, ReconRow, storeVars, chainVars, Recons
  <2>3. ReconFits'
    BY <1>1, <2>1 DEF ReconFits
  <2> QED BY <1>1, <1>4, <2>1, <2>2, <2>3, ReconMoveKeeps
<1>5. CASE NextRow
  <2>1. \A j \in Recorded : row'[j] # None
    BY <1>1 DEF Recorded
  <2>2. /\ recon' \in Recons /\ recon'.pc \in {"idle", "row"}
        /\ recon'.pc = "idle" <=> recon'.todo = <<>>
        /\ runtime' \in {runtime, "ready"} /\ ReconFits'
    BY <1>1, <1>5, <2>1, NextRowFits
  <2>3. TypeOK'
    BY <1>1, <2>2 DEF TypeOK, ReconRow, storeVars, chainVars, Recons
  <2>4. exec.pc # "idle" => runtime' = runtime
    BY <2>2 DEF Inv, ExecFits
  <2> QED BY <1>1, <2>2, <2>3, <2>4, ReconMoveKeeps
<1> QED BY <1>3, <1>4, <1>5 DEF ReconRow

LEMMA ReconErrorKeeps ==
    ASSUME Inv, ReconError
    PROVE  Inv'
<1>1. UNCHANGED <<row, handed, sends, mined, receipts, armed, exec>> /\ recon' = IdleRecon
  BY DEF ReconError, storeVars
<1>2. recon' \in Recons /\ recon'.pc = "idle" /\ recon'.todo = <<>>
  BY <1>1 DEF IdleRecon, Recons, ReconPcs
<1>3. TypeOK'
  BY <1>2, FaultBound DEF Inv, TypeOK, ReconError, Fault, storeVars, Recons
<1>4. ReconFits'
  BY <1>2 DEF ReconFits
<1>5. exec.pc # "idle" => runtime' = runtime
  BY DEF Inv, ExecFits, ReconError
<1> QED BY <1>1, <1>2, <1>3, <1>4, <1>5, ReconMoveKeeps

LEMMA ReconBumpKeeps ==
    ASSUME Inv, ReconBump
    PROVE  Inv'
<1> DEFINE i == Head(recon.todo)
<1>1. /\ UNCHANGED <<handed, sends, mined, receipts, armed, exec, runtime>> /\ recon.pc = "bump"
      /\ TypeOK /\ RowsFit /\ ReconFits
  BY DEF ReconBump, chainVars, Inv
<1>2. recon \in Recons /\ recon.todo # <<>> /\ i \in Recorded /\ i \in Intents
  BY <1>1, ReconHead DEF Recorded
<1>3. /\ RowsGrow /\ row[i] \in Rows /\ row'[i] = [row[i] EXCEPT !.attempts = row[i].attempts + 1]
      /\ \A j \in Intents \ {i} : row'[j] = row[j]
  BY <1>1, <1>2, BumpGrows DEF ReconBump
<1>4. /\ row'[i].attempts = row[i].attempts + 1 /\ row'[i].nonce = row[i].nonce
      /\ row'[i].status = row[i].status /\ row'[i] # None /\ row[i] # None
  BY <1>2, <1>3 DEF Rows, Recorded, RowsGrow
<1>5. recon' \in Recons /\ recon'.pc = "send" /\ recon'.todo = recon.todo
  BY <1>2 DEF Recons, ReconPcs, ReconBump
<1>6. TypeOK'
  BY <1>1, <1>2, <1>3, <1>5 DEF RowsGrow, TypeOK, ReconBump, chainVars, Recons
<1>7. HandedIsRecorded'
  BY <1>1, <1>3, <1>6, HandedKept DEF Inv
<1>8. ConfirmedWasSettled'
  <2>1. \A j \in Recorded' : row'[j].status = "Confirmed" => j \in Recorded /\ row[j].status = "Confirmed"
    BY <1>2, <1>3, <1>4 DEF Recorded
  <2> QED BY <2>1, <1>1, <1>3, ConfirmedKept DEF Inv
<1>9. ExecFits' /\ MinedIsSeen'
  BY <1>1, <1>3, ExecFitsKept, SeenKept DEF Inv
<1>10. ReconFits'
  <2>1. \A k \in DOMAIN recon.todo : recon.todo[k] \in Recorded
    BY <1>1 DEF TypeOK, ReconFits, Recorded
  <2> QED BY <2>1, <1>3, <1>5 DEF ReconFits, RowsGrow
<1>11. SendsFit'
  <2> SUFFICES ASSUME NEW j \in Intents, row[j] # None
               PROVE  /\ sends[j] + Count(ExecAt("send", j))' + Count(ReconAt("send", j))' <= row'[j].attempts
                      /\ row'[j].attempts + Count(ExecAt("prepare", j) \/ ExecAt("bump", j))'
                             + Count(ReconAt("bump", j))' <= MaxAttempts + 1
    BY <1>1, <1>3, <1>4 DEF Inv, SendsFit
  <2>1. /\ Count(ExecAt("send", j))' = Count(ExecAt("send", j)) /\ Count(ReconAt("bump", j))' = 0
        /\ Count(ExecAt("prepare", j) \/ ExecAt("bump", j))' = Count(ExecAt("prepare", j) \/ ExecAt("bump", j))
    BY <1>1, <1>5 DEF ExecAt, ReconAt, Count
  <2>2. CASE j = i
    <3>1. Count(ReconAt("send", j))' = 1 /\ Count(ReconAt("bump", j)) = 1
      BY <2>2, <1>1, <1>5 DEF ReconAt, Count
    <3> HIDE DEF i
    <3> QED BY <2>1, <2>2, <3>1, <1>1, <1>4, CountTypes DEF Inv
  <2>3. CASE j # i
    <3>1. Count(ReconAt("send", j))' = 0 /\ row'[j] = row[j]
      BY <2>3, <1>3, <1>5 DEF ReconAt, Count
    <3> QED BY <2>1, <3>1, <1>1, CountTypes DEF Inv
  <2> QED BY <2>2, <2>3
<1> QED BY <1>3, <1>6, <1>7, <1>8, <1>9, <1>10, <1>11 DEF Inv, RowsGrow

LEMMA ReconSendKeeps ==
    ASSUME Inv, NEW reply \in Replies, ReconSend(reply)
    PROVE  Inv'
<1> DEFINE i == Head(recon.todo)
<1>1. UNCHANGED <<row, armed, exec>> /\ recon.pc = "send" /\ TypeOK /\ ReconFits /\ NextRow
      /\ HandOver(Envelope(i), reply)
  BY DEF ReconSend, storeVars, Inv
<1>2. i \in Recorded /\ i \in Intents
  BY <1>1, ReconHead DEF Recorded
<1> HIDE DEF i
<1>3. \A j \in Recorded : row'[j] # None
  BY <1>1 DEF Recorded
<1>4. /\ recon' \in Recons /\ recon'.pc \in {"idle", "row"}
      /\ recon'.pc = "idle" <=> recon'.todo = <<>>
      /\ runtime' \in {runtime, "ready"} /\ ReconFits'
  BY <1>1, <1>3, NextRowFits
<1>5. Envelope(i) \in Tx
  BY <1>1, <1>2 DEF Envelope, Tx, TypeOK, Recorded, Rows
<1>6. /\ handed' \subseteq Tx /\ sends' \in [Intents -> Nat]
      /\ mempool' \subseteq Tx /\ IsFiniteSet(mempool') /\ faults' \in 0 .. MaxFaults
      /\ mined' = mined /\ receipts' = receipts
  BY <1>1, <1>5, HandOverType
<1>7. TypeOK'
  BY <1>1, <1>4, <1>6 DEF TypeOK, ReconSend, storeVars, Recons
<1>8. RowsGrow
  BY <1>1, SameRowsGrow DEF Inv
<1>9. exec.pc # "idle" => runtime' = runtime
  BY <1>4 DEF Inv, ExecFits
<1>10. ExecFits'
  BY <1>1, <1>6, <1>8, <1>9, ExecFitsKept DEF Inv
<1>11. recon.pc = "send" /\ Head(recon.todo) = i
  BY <1>1 DEF i
<1> QED BY <1>1, <1>2, <1>4, <1>7, <1>10, <1>11, HandOverKeeps

LEMMA ReconFinalizeKeeps ==
    ASSUME Inv, ReconFinalize
    PROVE  Inv'
<1> DEFINE i == Head(recon.todo)
<1>1. /\ UNCHANGED <<handed, sends, mined, receipts, armed, exec>> /\ NextRow /\ recon.pc = "finalize"
      /\ TypeOK /\ RowsFit /\ ReconFits
      /\ [tx |-> Envelope(i), result |-> recon.note] \in receipts
  BY DEF ReconFinalize, chainVars, Inv, ReconFits
<1>2. i \in Recorded /\ i \in Intents
  BY <1>1, ReconHead DEF Recorded
<1>3. PICK to \in {"Confirmed", "Failed"} : Mark(i, to) /\ (to = "Confirmed" => recon.note = "settled")
  BY DEF ReconFinalize, Finalize, Verified
<1> HIDE DEF i
<1>4. RowsGrow /\ status' \in [Intents -> Statuses]
  BY <1>1, <1>2, <1>3, MarkGrows
<1>5. /\ recon' \in Recons /\ recon'.pc \in {"idle", "row"}
      /\ recon'.pc = "idle" <=> recon'.todo = <<>>
      /\ runtime' \in {runtime, "ready"} /\ ReconFits'
  BY <1>1, <1>4, NextRowFits DEF RowsGrow
<1>6. TypeOK'
  BY <1>1, <1>4, <1>5 DEF RowsGrow, TypeOK, ReconFinalize, chainVars, Recons
<1>7. exec.pc # "idle" => runtime' = runtime
  BY <1>5 DEF Inv, ExecFits
<1>8. ExecFits'
  BY <1>1, <1>4, <1>7, ExecFitsKept DEF Inv
<1> QED BY <1>1, <1>2, <1>3, <1>5, <1>6, <1>8, MarkKeeps

-----------------------------------------------------------------------------
(* The theorems *)

LEMMA InitInv ==
    ASSUME Init
    PROVE  Inv
<1>1. Recorded = {}
  BY DEF Init, StoreInit, Recorded
<1>2. TypeOK
  <2>1. mined \in Seq([tx : Tx, result : Results]) /\ IsFiniteSet(mempool)
    BY FS_EmptySet DEF Init, ChainInit
  <2>2. exec \in [pc : ExecPcs, nonce : Nat, note : Replies \cup Results \cup {"none"}]
    BY DEF Init, IdleExec, ExecPcs
  <2>3. recon \in [pc : ReconPcs, todo : Seq(Intents), note : Results \cup {"none"}] /\ (recon.pc = "idle" <=> recon.todo = <<>>)
    BY DEF Init, IdleRecon, ReconPcs
  <2>4. /\ call \in [kind : {"none", "cosign", "simulate", "broadcast"}, pc : CallPcs,
                     intent : Intents \cup {None}, note : Statuses \cup {"none"}, nonce : Nat]
        /\ call.pc = "idle"
    BY DEF Init, IdleCall, CallPcs
  <2>5. status \in [Intents -> Statuses] /\ row \in [Intents -> Rows \cup {None}]
    BY DEF Init, StoreInit, Statuses, RetireEligible
  <2> QED BY <2>1, <2>2, <2>3, <2>4, <2>5, StoreBounds, FaultBound, CallBounds DEF Init, StoreInit, ChainInit, TypeOK
<1>3. RowsFit /\ ConfirmedWasSettled
  BY <1>1 DEF RowsFit, ConfirmedWasSettled
<1>4. ExecFits /\ ReconFits /\ MinedIsSeen /\ HandedIsRecorded
  BY DEF Init, ChainInit, ExecFits, IdleExec, ReconFits, IdleRecon, MinedIsSeen, HandedIsRecorded
<1>5. SendsFit
  BY DEF Init, StoreInit, SendsFit
<1> QED BY <1>2, <1>3, <1>4, <1>5 DEF Inv

LEMMA NextInv ==
    ASSUME Inv, [Next]_vars
    PROVE  Inv'
<1>1. CASE UNCHANGED vars
  <2>1. TypeOK'
    BY <1>1 DEF vars, storeVars, chainVars, taskVars, Inv, TypeOK
  <2> QED BY <1>1, <2>1, QuietKeeps DEF vars, storeVars, chainVars, taskVars
<1>2. CASE Executor
  BY <1>2, ExecListKeeps, ExecSimulateKeeps, ExecGuardKeeps, ExecRecordKeeps, ExecPrepareKeeps, ExecBumpKeeps,
     ExecSendKeeps, ExecReplyKeeps, ExecPollKeeps, ExecFinalizeKeeps DEF Executor
<1>3. CASE Reconciler
  BY <1>3, ReconListKeeps, ReconRowKeeps, ReconBumpKeeps, ReconSendKeeps, ReconFinalizeKeeps DEF Reconciler
<1> QED BY <1>1, <1>2, <1>3, RoutesKeep, NodeKeeps, ExecErrorKeeps, ReconErrorKeeps, PreflightKeeps, CrashKeeps,
           StartKeeps DEF Next

\* The inductive invariant holds in every state the runtime, its database and
\* the node can reach.
THEOREM Invariant == Spec => []Inv
<1>1. Init => Inv
  BY InitInv
<1>2. Inv /\ [Next]_vars => Inv'
  BY NextInv
<1> QED BY <1>1, <1>2, PTL DEF Spec

\* The types of the runtime's state.
THEOREM TypeCorrect == Spec => []TypeOK
<1>1. Inv => TypeOK
  BY DEF Inv
<1> QED BY <1>1, Invariant, PTL

\* Persist before send: whatever crashes, lost replies and re-armings happen,
\* every envelope ever handed to the node is the one stored for its intent.
THEOREM HandedIsRecordedCorrect == Spec => []HandedIsRecorded
<1>1. Inv => HandedIsRecorded
  BY DEF Inv
<1> QED BY <1>1, Invariant, PTL

\* Two envelopes of the runtime never compete for one nonce.
THEOREM NoRivalEnvelopesCorrect == Spec => []NoRivalEnvelopes
<1>1. Inv => NoRivalEnvelopes
  <2> SUFFICES ASSUME Inv, NEW t \in handed, NEW u \in handed, t.nonce = u.nonce
               PROVE  t = u
    BY DEF NoRivalEnvelopes
  <2>1. /\ row[t.intent] # None /\ [intent |-> t.intent, nonce |-> row[t.intent].nonce] = t
        /\ row[u.intent] # None /\ [intent |-> u.intent, nonce |-> row[u.intent].nonce] = u
    BY DEF Inv, HandedIsRecorded, Envelope
  <2>2. t.intent \in Recorded /\ u.intent \in Recorded
    BY <2>1 DEF Inv, TypeOK, Tx, Recorded
  <2>3. t.intent = u.intent
    <3>1. row[t.intent].nonce = row[u.intent].nonce
      BY <2>1
    <3> QED BY <2>2, <3>1 DEF Inv, RowsFit
  <2> QED BY <2>1, <2>3
<1> QED BY <1>1, Invariant, PTL

\* The counter of attempts is never behind the sends and exceeds the limit of
\* rebroadcasts by one at most, the executor's own send.
THEOREM RetryIsBoundedCorrect == Spec => []RetryIsBounded
<1>1. Inv => RetryIsBounded
  <2> SUFFICES ASSUME Inv, NEW i \in Recorded
               PROVE  sends[i] <= row[i].attempts /\ row[i].attempts <= MaxAttempts + 1
    BY DEF RetryIsBounded
  <2>1. i \in Intents /\ row[i] # None
    BY DEF Recorded
  <2> QED BY <2>1, CountTypes DEF Inv
<1> QED BY <1>1, Invariant, PTL

\* A Confirmed row's own envelope was seen mined with its settlement event.
THEOREM ConfirmedWasSettledCorrect == Spec => []ConfirmedWasSettled
<1>1. Inv => ConfirmedWasSettled
  BY DEF Inv
<1> QED BY <1>1, Invariant, PTL

\* Of all the steps only four write the table, each through one of its three
\* statements.
LEMMA NextRowsGrow ==
    ASSUME Inv, [Next]_vars
    PROVE  RowsGrow
<1>0. TypeOK /\ RowsFit
  BY DEF Inv
<1>1. CASE row' = row
  BY <1>0, <1>1, SameRowsGrow
<1>2. CASE ExecRecord /\ row' # row
  <2>1. NonceIsFree(armed, exec.nonce) /\ RecordPrepared(armed, exec.nonce) /\ armed \in Intents /\ exec.nonce \in Nat
    BY <1>0, <1>2 DEF ExecRecord, TypeOK
  <2> QED BY <1>0, <2>1, RecordGrows DEF Record
<1>3. CASE ExecBump
  <2>1. BumpSendAttempt(armed) /\ armed \in Recorded
    BY <1>0, <1>3 DEF ExecBump, Inv, ExecFits, TypeOK, Recorded
  <2> QED BY <1>0, <2>1, BumpGrows
<1>4. CASE ReconBump
  <2>1. BumpSendAttempt(Head(recon.todo)) /\ Head(recon.todo) \in Recorded
    BY <1>0, <1>4, ReconHead DEF ReconBump, Inv
  <2> QED BY <1>0, <2>1, BumpGrows
<1>5. CASE (ExecReply \/ ExecFinalize) /\ row' # row
  <2>1. armed \in Recorded
    BY <1>0, <1>5 DEF ExecReply, ExecFinalize, Inv, ExecFits, TypeOK, Recorded
  <2>2. \E to \in {"Submitted", "Confirmed", "Failed"} : Mark(armed, to)
    BY <1>5 DEF ExecReply, ExecFinalize, Finalize, Verified
  <2> QED BY <1>0, <2>1, <2>2, MarkGrows
<1>6. CASE ReconFinalize
  <2>1. Head(recon.todo) \in Recorded
    BY <1>0, <1>6, ReconHead DEF ReconFinalize, Inv
  <2>2. \E to \in {"Submitted", "Confirmed", "Failed"} : Mark(Head(recon.todo), to)
    BY <1>6 DEF ReconFinalize, Finalize, Verified
  <2> QED BY <1>0, <2>1, <2>2, MarkGrows
<1>7. \/ row' = row \/ ExecRecord \/ ExecBump \/ ReconBump \/ ExecReply \/ ExecFinalize \/ ReconFinalize
  <2>1. Routes \/ Node => row' = row
    BY DEF Routes, Cosign, Simulate, Broadcast, Retire, SimulatePersist, CosignStore, CosignReady, BroadcastNonce,
           BroadcastSend, BroadcastInsert, BroadcastSubmitted, Node, storeVars
  <2>2. Executor => row' = row \/ ExecRecord \/ ExecBump \/ ExecReply \/ ExecFinalize
    BY DEF Executor, ExecList, ExecSimulate, ExecGuard, ExecPrepare, ExecSend, ExecPoll, storeVars
  <2>3. Reconciler => row' = row \/ ReconBump \/ ReconFinalize
    BY DEF Reconciler, ReconList, ReconRow, ReconSend, storeVars
  <2>4. ExecError \/ ReconError \/ PreflightFails \/ Crash \/ (\E i \in Intents : Start(i)) => row' = row
    BY DEF ExecError, ReconError, PreflightFails, Crash, Start, storeVars
  <2>5. UNCHANGED vars => row' = row
    BY DEF vars, storeVars
  <2> QED BY <2>1, <2>2, <2>3, <2>4, <2>5 DEF Next
<1> QED BY <1>1, <1>2, <1>3, <1>4, <1>5, <1>6, <1>7

\* Rows are never removed, never change their envelope, and their status only
\* moves forward, whatever stale reads the two tasks write from.
THEOREM RowsNeverRegressCorrect == Spec => RowsNeverRegress
<1> DEFINE Forward ==
        \A i \in Recorded :
            /\ row'[i] # None /\ row'[i].nonce = row[i].nonce /\ row'[i].attempts >= row[i].attempts
            /\ row[i].status \in {"Confirmed", "Failed"} => row'[i].status = row[i].status
            /\ row[i].status = "Submitted" => row'[i].status # "Prepared"
<1>1. Inv /\ [Next]_vars => [Forward]_vars
  BY NextRowsGrow DEF RowsGrow
<1> QED BY <1>1, Invariant, PTL DEF Spec, RowsNeverRegress
=============================================================================
