----------------------- MODULE OptionExecutionProofs -----------------------
(***************************************************************************)
(* The safety of the options executor and of its two confirmers, for every *)
(* finite table of intents, every set of calls, every finality depth and   *)
(* every number of faults, signings and confirmations.                     *)
(***************************************************************************)
EXTENDS OptionExecution, NumberFacts

-----------------------------------------------------------------------------
(* The inductive invariant *)

\* A transaction with this outcome is under at least finality_blocks blocks of
\* the longest chain seen: no later reorg reaches it.
Buried(tx, ok) ==
    \E k \in DOMAIN mined : mined[k].tx = tx /\ mined[k].ok = ok /\ mined[k].block + Finality <= peak

\* Later nonces are in later blocks, and a success on the chain is on record.
MinedFits ==
    /\ \A k \in DOMAIN mined : mined[k].block <= head /\ (mined[k].ok => mined[k].tx \in succeeded)
    /\ \A j, k \in DOMAIN mined : j < k => mined[j].block < mined[k].block

\* A call holds the bytes of its own intent, and what it is about to send is
\* bound, unless there is no correlation or it could not be read.
CallsFit ==
    \A c \in Calls :
        /\ At(c) \in {"signed", "bound", "accepted", "inserted"} => call[c].tx \in Tx /\ call[c].tx.intent = IntentOf(c)
        /\ At(c) = "bound" /\ IntentOf(c) \in Correlated \ blind => corr[IntentOf(c)].tx = call[c].tx

\* What a decision of confirmer p says of the transaction of the row it is about.
Grounded(p, tx, decision) ==
    /\ decision = "mined_success" => tx \in succeeded
    /\ p = "worker" /\ decision \in {"mined_success", "mined_failed"} => Buried(tx, decision = "mined_success")

PassFits(p) ==
    /\ pass[p].head # None => pass[p].head <= peak
    /\ \A k \in DOMAIN pass[p].queue : row[pass[p].queue[k]] # None
    /\ pass[p].at \in {"asking", "deciding", "applied"} => pass[p].queue # <<>>
    /\ pass[p].at \in {"deciding", "applied"} =>
          pass[p].decision \in Confirmations /\ Grounded(p, row[Head(pass[p].queue)].tx, pass[p].decision)
    /\ pass[p].at = "applied" => pass[p].decision \notin Unfinal

PassesFit == \A p \in {"worker", "operator"} : PassFits(p)

FinalFits ==
    \A i \in Intents :
        finalBy[i] = "worker" =>
            /\ row[i] # None
            /\ row[i].conf \in {"mined_success", "mined_failed"} => Buried(row[i].tx, row[i].conf = "mined_success")

Inv ==
    /\ TypeOK /\ MinedFits /\ CallsFit /\ PassesFit /\ FinalFits
    /\ HandedIsBound /\ ConfirmedSucceeded

-----------------------------------------------------------------------------
(* The operators *)

LEMMA PendingNonceExists ==
    ASSUME TypeOK
    PROVE  PendingNonce \in Nat
<1> DEFINE f == [t \in pool |-> t.nonce]
<1>1. Len(mined) \in Nat /\ IsFiniteSet(pool)
  BY DEF TypeOK
<1>2. Cardinality(pool) \in Nat
  BY <1>1, FS_CardinalityType
<1>3. f \in [pool -> PooledNonces] /\ \A y \in PooledNonces : \E x \in pool : f[x] = y
  BY DEF PooledNonces
<1>4. IsFiniteSet(PooledNonces) /\ Cardinality(PooledNonces) <= Cardinality(pool)
  <2> HIDE DEF f
  <2> QED BY <1>1, <1>3, ImageIsSmaller
<1>5. \E n \in Len(mined) .. Len(mined) + Cardinality(pool) :
          n \notin PooledNonces /\ Len(mined) .. (n - 1) \subseteq PooledNonces
  BY <1>1, <1>2, <1>4, FirstGap
<1>6. PendingNonce \in Len(mined) .. Len(mined) + Cardinality(pool)
  BY <1>5 DEF PendingNonce
<1> QED BY <1>1, <1>2, <1>6

\* SetToSeq enumerates a finite set.
LEMMA SetToSeqType ==
    ASSUME NEW S, IsFiniteSet(S)
    PROVE  SetToSeq(S) \in Seq(S)
<1> DEFINE n == Cardinality(S)
<1>1. n \in Nat /\ ExistsBijection(1 .. n, S)
  BY FS_CardinalityType
<1>2. PICK f \in Bijection(1 .. n, S) : TRUE
  BY <1>1 DEF ExistsBijection
<1>3. f \in [1 .. n -> S] /\ IsInjective(f)
  BY <1>2 DEF Bijection, Injection
<1>4. SetToSeq(S) \in [1 .. n -> S]
  <2> HIDE DEF n
  <2>1. SetToSeq(S) = CHOOSE g \in [1 .. n -> S] : IsInjective(g)
    BY DEF SetToSeq, n
  <2> QED BY <1>3, <2>1, Zenon
<1> HIDE DEF n
<1> QED BY <1>1, <1>4, SeqDef

\* The worker lists rows that exist.
LEMMA ListPendingType ==
    ASSUME TypeOK
    PROVE  ListPending \in Seq(Intents) /\ \A k \in DOMAIN ListPending : row[ListPending[k]] # None
<1> DEFINE S == {i \in Intents : row[i] # None /\ row[i].conf \in Unfinal}
<1>1. S \subseteq Intents /\ \A i \in S : row[i] # None
  OBVIOUS
<1>2. IsFiniteSet(S)
  BY <1>1, IntentsAssumption, FS_Subset
<1>3. ListPending \in Seq(S)
  <2> HIDE DEF S
  <2>1. SetToSeq(S) \in Seq(S)
    BY <1>2, SetToSeqType
  <2> QED BY <2>1 DEF ListPending, S
<1> HIDE DEF S
<1> QED BY <1>1, <1>3

\* A reorg keeps exactly the blocks up to its height.
LEMMA UpToFacts ==
    ASSUME TypeOK, MinedFits, NEW height \in Nat
    PROVE  /\ UpTo(height) \in Seq([tx : Tx, ok : BOOLEAN, block : Nat])
           /\ DOMAIN UpTo(height) \subseteq DOMAIN mined
           /\ \A k \in DOMAIN UpTo(height) : UpTo(height)[k] = mined[k] /\ mined[k].block <= height
           /\ \A k \in DOMAIN mined : mined[k].block <= height => k \in DOMAIN UpTo(height)
<1> DEFINE M == [tx : Tx, ok : BOOLEAN, block : Nat]
           Low == {k \in DOMAIN mined : mined[k].block <= height}
           n == Cardinality(Low)
<1>1. mined \in Seq(M) /\ Len(mined) \in Nat /\ DOMAIN mined = 1 .. Len(mined)
  BY DEF TypeOK
<1>2. \A k \in DOMAIN mined : mined[k].block \in Nat
  <2>1. \A k \in DOMAIN mined : mined[k] \in M
    <3> HIDE DEF M
    <3> QED BY <1>1
  <2> QED BY <2>1
<1> HIDE DEF M
<1>3. n \in 0 .. Len(mined) /\ Low = 1 .. n
  <2>1. CASE Low = {}
    <3>1. n = 0
      BY <2>1, FS_EmptySet
    <3> HIDE DEF n
    <3> QED BY <1>1, <2>1, <3>1
  <2>2. CASE Low # {}
    <3>1. Low \subseteq 0 .. Len(mined)
      BY <1>1
    <3>2. PICK m \in Low : \A k \in Low : k <= m
      <4> HIDE DEF Low
      <4> QED BY <1>1, <2>2, <3>1, GreatestElement
    <3>3. m \in 1 .. Len(mined) /\ mined[m].block <= height
      BY <1>1, <3>2
    <3>4. ASSUME NEW k \in 1 .. m
          PROVE  k \in Low
      <4>1. k \in DOMAIN mined /\ (k = m \/ k < m)
        BY <1>1, <3>3
      <4>2. k < m => mined[k].block < mined[m].block
        BY <4>1 DEF MinedFits
      <4>3. mined[k].block \in Nat /\ mined[m].block \in Nat
        BY <1>2, <4>1
      <4> QED BY <3>3, <4>1, <4>2, <4>3
    <3>5. ASSUME NEW k \in Low
          PROVE  k \in 1 .. m
      <4>1. k \in DOMAIN mined /\ k <= m
        BY <3>2
      <4> QED BY <4>1, <1>1, <3>3
    <3>6. Low = 1 .. m
      <4> HIDE DEF Low
      <4> QED BY <3>4, <3>5
    <3>7. n = m
      <4> HIDE DEF Low
      <4>1. n = Cardinality(1 .. m)
        BY <3>6
      <4>2. m \in Nat /\ m >= 1
        BY <3>3
      <4>3. Cardinality(1 .. m) = m
        BY <4>2, FS_Interval
      <4> QED BY <4>1, <4>3
    <3> HIDE DEF n, Low
    <3> QED BY <3>3, <3>6, <3>7
  <2> QED BY <2>1, <2>2
<1>4. UpTo(height) = SubSeq(mined, 1, n)
  BY DEF UpTo
<1>5. \A k \in DOMAIN mined : k \in 1 .. n <=> mined[k].block <= height
  <2> HIDE DEF n
  <2> QED BY <1>3
<1> HIDE DEF n, Low
<1>6. SubSeq(mined, 1, n) \in Seq(M) /\ Len(SubSeq(mined, 1, n)) = n
  BY <1>1, <1>3
<1>7. \A k \in 1 .. n : SubSeq(mined, 1, n)[k] = mined[k]
  BY <1>1, <1>3
<1>8. DOMAIN SubSeq(mined, 1, n) = 1 .. n
  BY <1>6
<1> QED BY <1>1, <1>3, <1>4, <1>5, <1>6, <1>7, <1>8 DEF M

-----------------------------------------------------------------------------
(* What no step takes back *)

Grows ==
    /\ \A i \in Intents : row[i] # None => row'[i] # None /\ row'[i].tx = row[i].tx
    /\ \A i \in Correlated : corr[i].tx # None => corr'[i].tx = corr[i].tx
    /\ blind \subseteq blind' /\ succeeded \subseteq succeeded' /\ peak <= peak'
    /\ \A tx \in Tx, ok \in BOOLEAN : Buried(tx, ok) => Buried(tx, ok)'

\* A step that leaves the chain alone.
LEMMA OffChainGrows ==
    ASSUME TypeOK, UNCHANGED <<mined, peak, succeeded>>, blind \subseteq blind',
           \A i \in Intents : row[i] # None => row'[i] # None /\ row'[i].tx = row[i].tx,
           \A i \in Correlated : corr[i].tx # None => corr'[i].tx = corr[i].tx
    PROVE  Grows
BY DEF Grows, Buried, TypeOK

LEMMA PassKept ==
    ASSUME TypeOK, TypeOK', Grows, NEW p \in {"worker", "operator"}, PassFits(p), pass'[p] = pass[p]
    PROVE  PassFits(p)'
<1> SUFFICES /\ pass[p].head # None => pass[p].head <= peak'
             /\ \A k \in DOMAIN pass[p].queue : row'[pass[p].queue[k]] # None
             /\ pass[p].at \in {"asking", "deciding", "applied"} => pass[p].queue # <<>>
             /\ pass[p].at \in {"deciding", "applied"} =>
                   /\ pass[p].decision \in Confirmations
                   /\ Grounded(p, row[Head(pass[p].queue)].tx, pass[p].decision)'
             /\ pass[p].at = "applied" => pass[p].decision \notin Unfinal
  BY DEF PassFits
<1> DEFINE q == pass[p].queue
<1>1. q \in Seq(Intents) /\ pass[p].head \in Nat \cup {None} /\ peak \in Nat /\ peak' \in Nat /\ peak <= peak'
  BY DEF TypeOK, Grows
<1>2. \A k \in DOMAIN q : q[k] \in Intents /\ row[q[k]] # None
  <2>1. \A k \in DOMAIN q : row[q[k]] # None
    BY DEF PassFits
  <2> HIDE DEF q
  <2> QED BY <1>1, <2>1
<1>3. \A k \in DOMAIN q : row'[q[k]] # None /\ row'[q[k]].tx = row[q[k]].tx
  BY <1>2 DEF Grows
<1>4. ASSUME pass[p].at \in {"deciding", "applied"}
      PROVE  Grounded(p, row[Head(q)].tx, pass[p].decision)'
  <2>1. q # <<>> /\ Grounded(p, row[Head(q)].tx, pass[p].decision)
    BY <1>4 DEF PassFits
  <2>2. 1 \in DOMAIN q /\ Head(q) = q[1]
    <3> HIDE DEF q
    <3> QED BY <1>1, <2>1
  <2>3. PICK t \in Tx : t = row[Head(q)].tx /\ t = row'[Head(q)].tx
    <3>1. row[Head(q)] \in Rows
      BY <1>2, <2>2 DEF TypeOK
    <3> QED BY <1>3, <2>2, <3>1 DEF Rows
  <2>4. PICK b \in BOOLEAN : b = (pass[p].decision = "mined_success")
    OBVIOUS
  <2>5. Buried(t, b) => Buried(t, b)'
    BY DEF Grows
  <2>6. /\ pass[p].decision = "mined_success" => t \in succeeded
        /\ p = "worker" /\ pass[p].decision \in {"mined_success", "mined_failed"} => Buried(t, b)
    BY <2>1, <2>3, <2>4 DEF Grounded
  <2>7. t \in succeeded => t \in succeeded'
    BY DEF Grows
  <2>8. p = "worker" /\ pass[p].decision \in {"mined_success", "mined_failed"} =>
            Buried(row[Head(q)].tx, pass[p].decision = "mined_success")'
    <3>1. row'[Head(q')].tx = t /\ (pass'[p].decision = "mined_success") = b
      BY <2>3, <2>4
    <3> QED BY <2>5, <2>6, <3>1 DEF Buried
  <2> QED BY <2>3, <2>6, <2>7, <2>8 DEF Grounded
<1>5. pass[p].head # None => pass[p].head <= peak'
  BY <1>1 DEF PassFits
<1> QED BY <1>3, <1>4, <1>5 DEF PassFits

LEMMA PassesKept ==
    ASSUME TypeOK, TypeOK', PassesFit, Grows, pass' = pass
    PROVE  PassesFit'
BY PassKept DEF PassesFit

LEMMA FinalKept ==
    ASSUME TypeOK, FinalFits, Grows, finalBy' = finalBy,
           \A i \in Intents : row[i] # None => row'[i].conf = row[i].conf
    PROVE  FinalFits'
<1> SUFFICES ASSUME NEW i \in Intents, finalBy[i] = "worker"
             PROVE  /\ row'[i] # None
                    /\ row'[i].conf \in {"mined_success", "mined_failed"}
                           => Buried(row[i].tx, row[i].conf = "mined_success")'
  BY DEF FinalFits
<1>1. row[i] # None /\ row[i] \in Rows
  BY DEF FinalFits, TypeOK
<1>2. PICK t \in Tx : t = row[i].tx /\ t = row'[i].tx
  BY <1>1 DEF Grows, Rows
<1>3. PICK b \in BOOLEAN : b = (row[i].conf = "mined_success")
  OBVIOUS
<1>4. row'[i] # None /\ row'[i].conf = row[i].conf
  BY <1>1 DEF Grows
<1>5. row[i].conf \in {"mined_success", "mined_failed"} => Buried(t, b)'
  <2>1. row[i].conf \in {"mined_success", "mined_failed"} => Buried(t, b)
    BY <1>2, <1>3 DEF FinalFits
  <2> QED BY <2>1 DEF Grows
<1> QED BY <1>2, <1>3, <1>4, <1>5 DEF Buried

LEMMA ConfirmedKept ==
    ASSUME TypeOK, ConfirmedSucceeded, Grows,
           \A i \in Intents : status'[i] = "BroadcastConfirmed" =>
               status[i] = "BroadcastConfirmed" \/ (row[i] # None /\ row[i].tx \in succeeded)
    PROVE  ConfirmedSucceeded'
<1> SUFFICES ASSUME NEW i \in Intents, status'[i] = "BroadcastConfirmed"
             PROVE  row'[i] # None /\ row'[i].tx \in succeeded'
  BY DEF ConfirmedSucceeded
<1>1. row[i] # None /\ row[i].tx \in succeeded
  BY DEF ConfirmedSucceeded
<1> QED BY <1>1 DEF Grows

LEMMA HandedKept ==
    ASSUME TypeOK, HandedIsBound, Grows, handed' = handed
    PROVE  HandedIsBound'
<1> SUFFICES ASSUME NEW tx \in handed, tx.intent \in Correlated \ blind'
             PROVE  corr'[tx.intent].tx = tx
  BY DEF HandedIsBound
<1>1. tx \in Tx /\ tx # None /\ tx.intent \in Correlated \ blind
  BY NoneAssumption DEF TypeOK, Grows
<1>2. corr[tx.intent].tx = tx
  BY <1>1 DEF HandedIsBound
<1> QED BY <1>1, <1>2 DEF Grows

\* The calls a step does not touch, and those it ends, fit.
LEMMA CallsKept ==
    ASSUME TypeOK, CallsFit, Grows,
           \A c \in Calls : call'[c] = call[c] \/ call'[c].at \in {"new", "gathering", "approved", "done"}
    PROVE  CallsFit'
<1> SUFFICES ASSUME NEW c \in Calls, call'[c] = call[c], At(c) \in {"signed", "bound", "accepted", "inserted"}
             PROVE  /\ call[c].tx \in Tx /\ call[c].tx.intent = IntentOf(c)
                    /\ At(c) = "bound" /\ IntentOf(c) \in Correlated \ blind' => corr'[IntentOf(c)].tx = call[c].tx
  BY DEF CallsFit, At, IntentOf
<1>1. call[c].tx \in Tx /\ call[c].tx.intent = IntentOf(c) /\ call[c].tx # None
  BY NoneAssumption DEF CallsFit
<1>2. At(c) = "bound" /\ IntentOf(c) \in Correlated \ blind => corr[IntentOf(c)].tx = call[c].tx
  BY DEF CallsFit
<1> QED BY <1>1, <1>2 DEF Grows

LEMMA MinedKept ==
    ASSUME MinedFits, UNCHANGED <<mined, head, succeeded>>
    PROVE  MinedFits'
BY DEF MinedFits

-----------------------------------------------------------------------------
(* The broadcast calls *)

CallRecs == [at : CallAts, intent : Intents \cup {None}, read : Statuses \cup {None}, tx : Tx \cup {None}]

\* One call is replaced.
LEMMA OneCall ==
    ASSUME TypeOK, NEW c \in Calls, NEW t \in CallRecs, call' = [call EXCEPT ![c] = t],
           t.at \notin {"new", "done"} => t.intent \in Intents
    PROVE  /\ call' \in [Calls -> CallRecs]
           /\ \A d \in Calls : At(d)' \notin {"new", "done"} => IntentOf(d)' \in Intents
           /\ call'[c] = t /\ \A d \in Calls \ {c} : call'[d] = call[d]
<1>1. call \in [Calls -> CallRecs]
  BY DEF TypeOK, CallRecs
<1>2. call' \in [Calls -> CallRecs] /\ call'[c] = t /\ \A d \in Calls \ {c} : call'[d] = call[d]
  BY <1>1
<1> QED BY <1>2 DEF TypeOK, At, IntentOf

LEMMA ReturnType ==
    ASSUME TypeOK, NEW c \in Calls, Return(c)
    PROVE  /\ call' \in [Calls -> CallRecs]
           /\ \A d \in Calls : At(d)' \notin {"new", "done"} => IntentOf(d)' \in Intents
           /\ call'[c].at = "done" /\ \A d \in Calls \ {c} : call'[d] = call[d]
<1> DEFINE t == NoCall("done")
<1>1. t \in CallRecs /\ t.at = "done"
  BY DEF NoCall, CallRecs, CallAts
<1> HIDE DEF t
<1>2. call' = [call EXCEPT ![c] = t]
  BY DEF Return, t
<1> QED BY <1>1, <1>2, OneCall

LEMMA GotoType ==
    ASSUME TypeOK, NEW c \in Calls, NEW at \in CallAts, Goto(c, at), At(c) \notin {"new", "done"}
    PROVE  /\ call' \in [Calls -> CallRecs]
           /\ \A d \in Calls : At(d)' \notin {"new", "done"} => IntentOf(d)' \in Intents
           /\ call'[c].at = at /\ call'[c].tx = call[c].tx /\ call'[c].intent = call[c].intent
           /\ \A d \in Calls \ {c} : call'[d] = call[d]
<1> DEFINE t == [call[c] EXCEPT !.at = at]
<1>1. call[c] \in CallRecs /\ call[c].intent \in Intents
  BY DEF TypeOK, CallRecs, At, IntentOf
<1>2. t \in CallRecs /\ t.at = at /\ t.tx = call[c].tx /\ t.intent = call[c].intent
  BY <1>1 DEF CallRecs
<1>3. call' = [call EXCEPT ![c] = t]
  BY DEF Goto, TypeOK
<1> HIDE DEF t
<1> QED BY <1>1, <1>2, <1>3, OneCall

LEMMA FailType ==
    ASSUME TypeOK, NEW c \in Calls, FailBroadcast(c), At(c) \notin {"new", "done"}
    PROVE  /\ status' \in [Intents -> Statuses]
           /\ \A i \in Intents : status'[i] = "BroadcastConfirmed" => status[i] = "BroadcastConfirmed"
           /\ call' \in [Calls -> CallRecs]
           /\ \A d \in Calls : At(d)' \notin {"new", "done"} => IntentOf(d)' \in Intents
           /\ call'[c].at = "done" /\ \A d \in Calls \ {c} : call'[d] = call[d]
<1>1. IntentOf(c) \in Intents /\ Return(c) /\ status' = [status EXCEPT ![IntentOf(c)] = "BroadcastFailed"]
  BY DEF TypeOK, FailBroadcast, SetStatus
<1> QED BY <1>1, ReturnType DEF TypeOK, Statuses

\* The frame of every step of the calls and of the signature route.
LEMMA CallStepKeeps ==
    ASSUME Inv, TypeOK', Grows, UNCHANGED <<mined, head, succeeded, pass, finalBy>>,
           CallsFit', HandedIsBound',
           \A i \in Intents : row[i] # None => row'[i].conf = row[i].conf,
           \A i \in Intents : status'[i] = "BroadcastConfirmed" => status[i] = "BroadcastConfirmed"
    PROVE  Inv'
<1>1. MinedFits' /\ PassesFit' /\ FinalFits' /\ ConfirmedSucceeded'
  BY MinedKept, PassesKept, FinalKept, ConfirmedKept DEF Inv
<1> QED BY <1>1 DEF Inv

\* The same with the tables of the transactions left alone and every call
\* either untouched or before its signature or ended.
LEMMA IdleCallStepKeeps ==
    ASSUME Inv, TypeOK', UNCHANGED <<mined, head, peak, succeeded, pass, finalBy, row, corr, blind, handed>>,
           \A c \in Calls : call'[c] = call[c] \/ call'[c].at \in {"new", "gathering", "approved", "done"},
           \A i \in Intents : status'[i] = "BroadcastConfirmed" => status[i] = "BroadcastConfirmed"
    PROVE  Inv'
<1>1. Grows
  BY OffChainGrows DEF Inv
<1>2. CallsFit' /\ HandedIsBound'
  BY <1>1, CallsKept, HandedKept DEF Inv
<1> QED BY <1>1, <1>2, CallStepKeeps

LEMMA SubmitSignaturesKeeps ==
    ASSUME Inv, NEW i \in Intents, SubmitSignatures(i)
    PROVE  Inv'
<1>1. UNCHANGED <<mined, head, peak, succeeded, pass, finalBy, row, corr, blind, handed, call>>
  BY DEF SubmitSignatures, chainVars, passVars
<1>2. /\ status' \in [Intents -> Statuses]
      /\ \A j \in Intents : status'[j] = "BroadcastConfirmed" => status[j] = "BroadcastConfirmed"
  BY DEF SubmitSignatures, SetStatus, Inv, TypeOK, Statuses
<1>3. TypeOK'
  BY <1>2, RequestBounds DEF Inv, TypeOK, SubmitSignatures, chainVars, passVars, At, IntentOf
<1> QED BY <1>1, <1>2, <1>3, IdleCallStepKeeps

LEMMA ReadIntentKeeps ==
    ASSUME Inv, NEW c \in Calls, NEW i \in Intents, ReadIntent(c, i)
    PROVE  Inv'
<1> DEFINE t == [at |-> "gathering", intent |-> i, read |-> status[i], tx |-> None]
<1>0. TypeOK
  BY DEF Inv
<1>1. t \in CallRecs /\ t.at = "gathering" /\ t.intent = i
  BY <1>0 DEF CallRecs, CallAts, TypeOK
<1>2. call' = [call EXCEPT ![c] = t]
  BY DEF ReadIntent
<1> HIDE DEF t
<1>3. /\ call' \in [Calls -> CallRecs]
      /\ \A d \in Calls : At(d)' \notin {"new", "done"} => IntentOf(d)' \in Intents
      /\ call'[c] = t /\ \A d \in Calls \ {c} : call'[d] = call[d]
  BY <1>0, <1>1, <1>2, OneCall
<1>4. TypeOK'
  BY <1>0, <1>3 DEF TypeOK, ReadIntent, storeVars, chainVars, passVars, CallRecs
<1>5. UNCHANGED <<mined, head, peak, succeeded, pass, finalBy, row, corr, blind, handed, status>>
  BY DEF ReadIntent, storeVars, chainVars, passVars
<1> QED BY <1>1, <1>3, <1>4, <1>5, IdleCallStepKeeps

LEMMA DecideKeeps ==
    ASSUME Inv, NEW c \in Calls, Decide(c)
    PROVE  Inv'
<1>0. TypeOK /\ At(c) = "gathering" /\ c \in Calls
  BY DEF Inv, Decide
<1>1. UNCHANGED <<mined, head, peak, succeeded, pass, finalBy, row, corr, blind, handed>>
  BY DEF Decide, chainVars, passVars
<1>2. /\ call' \in [Calls -> CallRecs]
      /\ \A d \in Calls : At(d)' \notin {"new", "done"} => IntentOf(d)' \in Intents
      /\ call'[c].at \in {"approved", "done"} /\ \A d \in Calls \ {c} : call'[d] = call[d]
      /\ status' \in [Intents -> Statuses]
      /\ \A i \in Intents : status'[i] = "BroadcastConfirmed" => status[i] = "BroadcastConfirmed"
  <2>1. CASE Return(c) /\ UNCHANGED status
    BY <1>0, <2>1, ReturnType DEF TypeOK
  <2>2. CASE FailBroadcast(c)
    BY <1>0, <2>2, FailType
  <2>3. CASE call' = [call EXCEPT ![c].at = "approved", ![c].read = None] /\ UNCHANGED status
    <3> DEFINE t == [call[c] EXCEPT !.at = "approved", !.read = None]
    <3>1. call[c] \in CallRecs /\ call[c].intent \in Intents
      BY <1>0 DEF TypeOK, CallRecs, At, IntentOf
    <3>2. t \in CallRecs /\ t.at = "approved" /\ t.intent \in Intents
      BY <3>1 DEF CallRecs, CallAts
    <3>3. call' = [call EXCEPT ![c] = t]
      BY <1>0, <2>3 DEF TypeOK
    <3> HIDE DEF t
    <3> QED BY <1>0, <2>3, <3>2, <3>3, OneCall DEF TypeOK
  <2> QED BY <2>1, <2>2, <2>3 DEF Decide
<1>3. TypeOK'
  BY <1>0, <1>2 DEF TypeOK, Decide, chainVars, passVars, CallRecs
<1> QED BY <1>1, <1>2, <1>3, IdleCallStepKeeps

LEMMA SignKeeps ==
    ASSUME Inv, NEW c \in Calls, Sign(c)
    PROVE  Inv'
<1>0. TypeOK /\ At(c) = "approved" /\ IntentOf(c) \in Intents
  BY DEF Inv, Sign, TypeOK
<1>1. UNCHANGED <<mined, head, peak, succeeded, pass, finalBy, row, corr, blind, handed>>
  BY DEF Sign, chainVars, passVars
<1>2. CASE FailBroadcast(c)
  <2>1. /\ status' \in [Intents -> Statuses]
        /\ \A i \in Intents : status'[i] = "BroadcastConfirmed" => status[i] = "BroadcastConfirmed"
        /\ call' \in [Calls -> CallRecs]
        /\ \A d \in Calls : At(d)' \notin {"new", "done"} => IntentOf(d)' \in Intents
        /\ call'[c].at = "done" /\ \A d \in Calls \ {c} : call'[d] = call[d]
    BY <1>0, <1>2, FailType
  <2>2. TypeOK'
    BY <1>0, <2>1 DEF TypeOK, Sign, chainVars, passVars, CallRecs
  <2> QED BY <1>1, <2>1, <2>2, IdleCallStepKeeps
<1>3. CASE /\ call' = [call EXCEPT ![c].at = "signed", ![c].tx = [intent |-> IntentOf(c), nonce |-> PendingNonce]]
           /\ UNCHANGED status
  <2> DEFINE tx == [intent |-> IntentOf(c), nonce |-> PendingNonce]
             t == [call[c] EXCEPT !.at = "signed", !.tx = tx]
  <2>1. call[c] \in CallRecs /\ call[c].intent \in Intents
    BY <1>0 DEF TypeOK, CallRecs, At, IntentOf
  <2>2. tx \in Tx /\ tx.intent = call[c].intent
    BY <1>0, PendingNonceExists DEF Tx, IntentOf
  <2>3. call' = [call EXCEPT ![c] = t]
    BY <1>0, <1>3 DEF TypeOK
  <2> HIDE DEF tx
  <2>4. t \in CallRecs /\ t.at = "signed" /\ t.intent = call[c].intent /\ t.tx = tx
    BY <2>1, <2>2 DEF CallRecs, CallAts
  <2> HIDE DEF t
  <2>5. /\ call' \in [Calls -> CallRecs]
        /\ \A d \in Calls : At(d)' \notin {"new", "done"} => IntentOf(d)' \in Intents
        /\ call'[c] = t /\ \A d \in Calls \ {c} : call'[d] = call[d]
    BY <1>0, <2>1, <2>3, <2>4, OneCall
  <2>6. TypeOK'
    BY <1>0, <1>3, <2>5 DEF TypeOK, Sign, chainVars, passVars, CallRecs
  <2>7. Grows
    BY <1>0, <1>1, OffChainGrows
  <2>8. CallsFit'
    <3> SUFFICES ASSUME NEW d \in Calls
                 PROVE  /\ call'[d].at \in {"signed", "bound", "accepted", "inserted"}
                               => call'[d].tx \in Tx /\ call'[d].tx.intent = call'[d].intent
                        /\ call'[d].at = "bound" /\ call'[d].intent \in Correlated \ blind
                               => corr[call'[d].intent].tx = call'[d].tx
      BY <1>1 DEF CallsFit, At, IntentOf
    <3>1. CASE d = c
      BY <3>1, <2>2, <2>4, <2>5
    <3>2. CASE d # c
      BY <3>2, <2>5 DEF Inv, CallsFit, At, IntentOf
    <3> QED BY <3>1, <3>2
  <2>9. HandedIsBound'
    BY <1>0, <1>1, <2>7, HandedKept DEF Inv
  <2> QED BY <1>1, <1>3, <2>6, <2>7, <2>8, <2>9, CallStepKeeps
<1> QED BY <1>2, <1>3 DEF Sign

CorrRecs == [status : Open, tx : Tx \cup {None}]

\* A hash, once bound, stays: both writers of the correlation go through
\* MayAttach.
LEMMA AttachGrows ==
    ASSUME TypeOK, NEW i \in Correlated, NEW tx \in Tx,
           \/ MayAttach(i, tx) /\ AttachLocalTxIdentity(i, tx)
           \/ AttachTxHash(i, tx)
    PROVE  /\ corr' \in [Correlated -> CorrRecs]
           /\ \A j \in Correlated : corr[j].tx # None => corr'[j].tx = corr[j].tx
           /\ MayAttach(i, tx) => corr'[i].tx = tx
<1>1. corr \in [Correlated -> CorrRecs] /\ corr[i] \in CorrRecs
  BY DEF TypeOK, CorrRecs
<1>2. ASSUME NEW r \in CorrRecs, corr' = [corr EXCEPT ![i] = r], corr[i].tx # None => r.tx = corr[i].tx,
             MayAttach(i, tx) => r.tx = tx
      PROVE  /\ corr' \in [Correlated -> CorrRecs]
             /\ \A j \in Correlated : corr[j].tx # None => corr'[j].tx = corr[j].tx
             /\ MayAttach(i, tx) => corr'[i].tx = tx
  BY <1>1, <1>2
<1>3. CASE MayAttach(i, tx) /\ AttachLocalTxIdentity(i, tx)
  <2> DEFINE st == IF corr[i].status = "AWAITING" THEN "SUBMISSION_UNKNOWN" ELSE corr[i].status
             r == [corr[i] EXCEPT !.tx = tx, !.status = st]
  <2>1. corr' = [corr EXCEPT ![i] = r]
    BY <1>1, <1>3 DEF AttachLocalTxIdentity
  <2>2. st \in Open
    BY <1>1 DEF CorrRecs, Open
  <2> HIDE DEF st
  <2>3. r \in CorrRecs /\ r.tx = tx
    BY <1>1, <2>2 DEF CorrRecs
  <2>4. corr[i].tx # None => tx = corr[i].tx
    BY <1>3 DEF MayAttach
  <2> HIDE DEF r
  <2> QED BY <1>2, <2>1, <2>3, <2>4
<1>4. CASE AttachTxHash(i, tx)
  <2> DEFINE r == IF MayAttach(i, tx) THEN [status |-> "SUBMITTED", tx |-> tx] ELSE corr[i]
  <2>1. corr' = [corr EXCEPT ![i] = r]
    BY <1>1, <1>4 DEF AttachTxHash
  <2>2. r \in CorrRecs
    BY <1>1 DEF CorrRecs, Open
  <2>3. (corr[i].tx # None => r.tx = corr[i].tx) /\ (MayAttach(i, tx) => r.tx = tx)
    BY DEF MayAttach
  <2> HIDE DEF r
  <2> QED BY <1>2, <2>1, <2>2, <2>3
<1> QED BY <1>3, <1>4

LEMMA BindHashKeeps ==
    ASSUME Inv, NEW c \in Calls, BindHash(c)
    PROVE  Inv'
<1> DEFINE i == IntentOf(c)
           tx == call[c].tx
<1>0. TypeOK /\ At(c) = "signed" /\ i \in Intents /\ tx \in Tx /\ tx.intent = i
  BY DEF Inv, BindHash, TypeOK, CallsFit
<1>1. UNCHANGED <<row, mined, pool, head, peak, handed, succeeded, signings, pass, byHand, finalBy>>
  BY DEF BindHash, passVars
<1>2. CASE FailBroadcast(c) /\ UNCHANGED <<corr, faults, blind>>
  <2>1. /\ status' \in [Intents -> Statuses]
        /\ \A j \in Intents : status'[j] = "BroadcastConfirmed" => status[j] = "BroadcastConfirmed"
        /\ call' \in [Calls -> CallRecs]
        /\ \A d \in Calls : At(d)' \notin {"new", "done"} => IntentOf(d)' \in Intents
        /\ call'[c].at = "done" /\ \A d \in Calls \ {c} : call'[d] = call[d]
    BY <1>0, <1>2, FailType
  <2>2. TypeOK'
    BY <1>0, <1>1, <1>2, <2>1 DEF TypeOK, CallRecs
  <2> QED BY <1>1, <1>2, <2>1, <2>2, IdleCallStepKeeps
<1>3. ASSUME Goto(c, "bound"), status' = status, faults' \in 0 .. MaxFaults, blind \subseteq blind', blind' \subseteq Intents,
             corr' \in [Correlated -> CorrRecs],
             \A j \in Correlated : corr[j].tx # None => corr'[j].tx = corr[j].tx,
             i \in Correlated \ blind' => corr'[i].tx = tx
      PROVE  Inv'
  <2>1. /\ call' \in [Calls -> CallRecs]
        /\ \A d \in Calls : At(d)' \notin {"new", "done"} => IntentOf(d)' \in Intents
        /\ call'[c].at = "bound" /\ call'[c].tx = tx /\ call'[c].intent = i
        /\ \A d \in Calls \ {c} : call'[d] = call[d]
    <3>1. "bound" \in CallAts
      BY DEF CallAts
    <3> QED BY <1>0, <1>3, <3>1, GotoType DEF IntentOf
  <2>2. TypeOK'
    BY <1>0, <1>1, <1>3, <2>1 DEF TypeOK, CallRecs, CorrRecs
  <2>3. Grows
    BY <1>0, <1>1, <1>3, OffChainGrows
  <2>4. CallsFit'
    <3> SUFFICES ASSUME NEW d \in Calls
                 PROVE  /\ call'[d].at \in {"signed", "bound", "accepted", "inserted"}
                               => call'[d].tx \in Tx /\ call'[d].tx.intent = call'[d].intent
                        /\ call'[d].at = "bound" /\ call'[d].intent \in Correlated \ blind'
                               => corr'[call'[d].intent].tx = call'[d].tx
      BY DEF CallsFit, At, IntentOf
    <3>1. CASE d = c
      <4> HIDE DEF i, tx
      <4> QED BY <3>1, <1>0, <1>3, <2>1
    <3>2. CASE d # c
      <4>1. call'[d] = call[d]
        BY <3>2, <2>1
      <4>2. call[d].at \in {"signed", "bound", "accepted", "inserted"}
               => call[d].tx \in Tx /\ call[d].tx.intent = call[d].intent
        BY DEF Inv, CallsFit, At, IntentOf
      <4>3. call[d].at = "bound" /\ call[d].intent \in Correlated \ blind' => corr[call[d].intent].tx = call[d].tx
        BY <1>3 DEF Inv, CallsFit, At, IntentOf
      <4> QED BY <4>1, <4>2, <4>3, <1>3, NoneAssumption
    <3> QED BY <3>1, <3>2
  <2>5. HandedIsBound'
    BY <1>0, <1>1, <2>3, HandedKept DEF Inv
  <2> QED BY <1>1, <1>3, <2>2, <2>3, <2>4, <2>5, CallStepKeeps
<1>4. faults \in 0 .. MaxFaults /\ blind \subseteq Intents /\ corr \in [Correlated -> CorrRecs] /\ (Fault => faults' \in 0 .. MaxFaults)
  BY <1>0, ChainBounds DEF TypeOK, CorrRecs, Fault
<1>5. CASE i \in Correlated /\ MayAttach(i, tx) /\ AttachLocalTxIdentity(i, tx) /\ Goto(c, "bound") /\ UNCHANGED <<status, faults, blind>>
  <2>1. /\ corr' \in [Correlated -> CorrRecs]
        /\ \A j \in Correlated : corr[j].tx # None => corr'[j].tx = corr[j].tx
        /\ corr'[i].tx = tx
    BY <1>0, <1>5, AttachGrows
  <2> QED BY <1>3, <1>4, <1>5, <2>1
<1>6. CASE i \notin Correlated /\ Goto(c, "bound") /\ UNCHANGED <<status, corr, faults, blind>>
  BY <1>3, <1>4, <1>6
<1>7. CASE Fault /\ blind' = blind \cup {i} /\ Goto(c, "bound") /\ UNCHANGED <<status, corr>>
  BY <1>0, <1>3, <1>4, <1>7
<1> QED BY <1>2, <1>5, <1>6, <1>7 DEF BindHash

\* The unique index: a submitted row is inserted where there is none.
LEMMA InsertGrows ==
    ASSUME TypeOK, NEW tx \in Tx, row[tx.intent] = None, InsertSubmitted(tx)
    PROVE  /\ row' \in [Intents -> Rows \cup {None}]
           /\ \A i \in Intents : row[i] # None => row'[i] = row[i]
<1>1. tx.intent \in Intents
  BY DEF Tx
<1>2. [tx |-> tx, conf |-> "none"] \in Rows
  BY DEF Rows, Confirmations, Unfinal
<1> QED BY <1>1, <1>2 DEF TypeOK, InsertSubmitted

LEMMA SendType ==
    ASSUME TypeOK, NEW tx \in Tx, NEW reply, Send(tx, reply)
    PROVE  /\ pool' \subseteq Tx /\ IsFiniteSet(pool') /\ faults' \in 0 .. MaxFaults /\ handed' = handed \cup {tx}
           /\ UNCHANGED <<mined, head, peak, succeeded>>
<1>1. faults \in 0 .. MaxFaults /\ (Fault => faults' \in 0 .. MaxFaults)
  BY ChainBounds DEF TypeOK, Fault
<1>2. IsFiniteSet(pool \cup {tx})
  BY FS_AddElement DEF TypeOK
<1>3. faults' \in 0 .. MaxFaults
  BY <1>1 DEF Send
<1>4. pool' = pool \/ pool' = pool \cup {tx}
  BY DEF Send
<1> QED BY <1>2, <1>3, <1>4 DEF Send, TypeOK

LEMMA SendRawKeeps ==
    ASSUME Inv, NEW c \in Calls, NEW reply \in {"ok", "mismatch", "error"}, SendRaw(c, reply)
    PROVE  Inv'
<1> DEFINE i == IntentOf(c)
           tx == call[c].tx
<1>0. TypeOK /\ At(c) = "bound" /\ i \in Intents /\ tx \in Tx /\ tx.intent = i
      /\ (i \in Correlated \ blind => corr[i].tx = tx)
  BY DEF Inv, SendRaw, TypeOK, CallsFit
<1>1. UNCHANGED <<corr, signings, blind, pass, byHand, finalBy>> /\ Send(tx, reply)
  BY DEF SendRaw, passVars
<1>2. /\ pool' \subseteq Tx /\ IsFiniteSet(pool') /\ faults' \in 0 .. MaxFaults /\ handed' = handed \cup {tx}
      /\ UNCHANGED <<mined, head, peak, succeeded>>
  <2> HIDE DEF tx
  <2> QED BY <1>0, <1>1, SendType
<1>3. HandedIsBound'
  BY <1>0, <1>1, <1>2 DEF Inv, HandedIsBound
<1>4. ASSUME call' \in [Calls -> CallRecs],
             \A d \in Calls : At(d)' \notin {"new", "done"} => IntentOf(d)' \in Intents,
             call'[c].at \in {"accepted", "done"}, call'[c].at = "accepted" => call'[c].tx = tx /\ call'[c].intent = i,
             \A d \in Calls \ {c} : call'[d] = call[d],
             status' \in [Intents -> Statuses],
             \A j \in Intents : status'[j] = "BroadcastConfirmed" => status[j] = "BroadcastConfirmed",
             row' \in [Intents -> Rows \cup {None}],
             \A j \in Intents : row[j] # None => row'[j] = row[j]
      PROVE  Inv'
  <2>1. TypeOK'
    BY <1>0, <1>1, <1>2, <1>4 DEF TypeOK, CallRecs
  <2>2. Grows
    <3>1. \A j \in Intents : row[j] # None => row'[j] # None /\ row'[j].tx = row[j].tx
      BY <1>4
    <3> QED BY <1>0, <1>1, <1>2, <3>1, OffChainGrows
  <2>3. CallsFit'
    <3> SUFFICES ASSUME NEW d \in Calls
                 PROVE  /\ call'[d].at \in {"signed", "bound", "accepted", "inserted"}
                               => call'[d].tx \in Tx /\ call'[d].tx.intent = call'[d].intent
                        /\ call'[d].at = "bound" /\ call'[d].intent \in Correlated \ blind
                               => corr[call'[d].intent].tx = call'[d].tx
      BY <1>1 DEF CallsFit, At, IntentOf
    <3>1. CASE d = c
      <4> HIDE DEF i, tx
      <4> QED BY <3>1, <1>0, <1>4
    <3>2. CASE d # c
      BY <3>2, <1>4 DEF Inv, CallsFit, At, IntentOf
    <3> QED BY <3>1, <3>2
  <2> QED BY <1>1, <1>2, <1>3, <1>4, <2>1, <2>2, <2>3, CallStepKeeps
<1>5. row \in [Intents -> Rows \cup {None}] /\ status \in [Intents -> Statuses] /\ At(c) \notin {"new", "done"}
  BY <1>0 DEF TypeOK
<1>6. CASE Goto(c, "accepted") /\ UNCHANGED <<status, row>>
  <2>1. "accepted" \in CallAts
    BY DEF CallAts
  <2>2. /\ call' \in [Calls -> CallRecs]
        /\ \A d \in Calls : At(d)' \notin {"new", "done"} => IntentOf(d)' \in Intents
        /\ call'[c].at = "accepted" /\ call'[c].tx = tx /\ call'[c].intent = i
        /\ \A d \in Calls \ {c} : call'[d] = call[d]
    BY <1>0, <1>5, <1>6, <2>1, GotoType DEF IntentOf
  <2> HIDE DEF i, tx
  <2> QED BY <1>4, <1>5, <1>6, <2>2
<1>7. CASE FailBroadcast(c) /\ UNCHANGED row
  <2> HIDE DEF i, tx
  <2> QED BY <1>0, <1>4, <1>5, <1>7, FailType
<1>8. CASE Return(c) /\ UNCHANGED <<status, row>>
  <2> HIDE DEF i, tx
  <2> QED BY <1>0, <1>4, <1>5, <1>8, ReturnType
<1>9. CASE ~IsDuplicate(c) /\ InsertSubmitted(tx) /\ FailBroadcast(c)
  <2>1. row[tx.intent] = None
    BY <1>0, <1>9 DEF IsDuplicate
  <2> HIDE DEF i, tx
  <2>2. /\ row' \in [Intents -> Rows \cup {None}]
        /\ \A j \in Intents : row[j] # None => row'[j] = row[j]
    BY <1>0, <1>9, <2>1, InsertGrows
  <2> QED BY <1>0, <1>4, <1>5, <1>9, <2>2, FailType
<1> QED BY <1>6, <1>7, <1>8, <1>9 DEF SendRaw

LEMMA InsertRowKeeps ==
    ASSUME Inv, NEW c \in Calls, InsertRow(c)
    PROVE  Inv'
<1> DEFINE i == IntentOf(c)
           tx == call[c].tx
<1>0. TypeOK /\ At(c) = "accepted" /\ i \in Intents /\ tx \in Tx /\ tx.intent = i
  BY DEF Inv, InsertRow, TypeOK, CallsFit
<1>1. UNCHANGED <<status, corr, mined, pool, head, peak, handed, succeeded, faults, signings, blind, pass, byHand, finalBy>>
  BY DEF InsertRow, passVars, chainVars
<1>2. CASE Return(c) /\ UNCHANGED row
  <2>1. /\ call' \in [Calls -> CallRecs]
        /\ \A d \in Calls : At(d)' \notin {"new", "done"} => IntentOf(d)' \in Intents
        /\ call'[c].at = "done" /\ \A d \in Calls \ {c} : call'[d] = call[d]
    BY <1>0, <1>2, ReturnType
  <2>2. TypeOK'
    BY <1>0, <1>1, <1>2, <2>1 DEF TypeOK, CallRecs
  <2> QED BY <1>1, <1>2, <2>1, <2>2, IdleCallStepKeeps
<1>3. CASE ~IsDuplicate(c) /\ InsertSubmitted(tx) /\ Goto(c, "inserted")
  <2>1. row[tx.intent] = None
    BY <1>0, <1>3 DEF IsDuplicate
  <2>2. /\ call' \in [Calls -> CallRecs]
        /\ \A d \in Calls : At(d)' \notin {"new", "done"} => IntentOf(d)' \in Intents
        /\ call'[c].at = "inserted" /\ call'[c].tx = tx /\ call'[c].intent = i
        /\ \A d \in Calls \ {c} : call'[d] = call[d]
    <3>1. "inserted" \in CallAts
      BY DEF CallAts
    <3> QED BY <1>0, <1>3, <3>1, GotoType DEF IntentOf
  <2> HIDE DEF i, tx
  <2>3. /\ row' \in [Intents -> Rows \cup {None}]
        /\ \A j \in Intents : row[j] # None => row'[j] = row[j]
    BY <1>0, <1>3, <2>1, InsertGrows
  <2>4. TypeOK'
    BY <1>0, <1>1, <2>2, <2>3 DEF TypeOK, CallRecs
  <2>5. Grows
    <3>1. \A j \in Intents : row[j] # None => row'[j] # None /\ row'[j].tx = row[j].tx
      BY <2>3
    <3> QED BY <1>0, <1>1, <3>1, OffChainGrows
  <2>6. CallsFit'
    <3> SUFFICES ASSUME NEW d \in Calls
                 PROVE  /\ call'[d].at \in {"signed", "bound", "accepted", "inserted"}
                               => call'[d].tx \in Tx /\ call'[d].tx.intent = call'[d].intent
                        /\ call'[d].at = "bound" /\ call'[d].intent \in Correlated \ blind
                               => corr[call'[d].intent].tx = call'[d].tx
      BY <1>1 DEF CallsFit, At, IntentOf
    <3>1. CASE d = c
      BY <3>1, <1>0, <2>2
    <3>2. CASE d # c
      BY <3>2, <2>2 DEF Inv, CallsFit, At, IntentOf
    <3> QED BY <3>1, <3>2
  <2>7. HandedIsBound'
    BY <1>0, <1>1, <2>5, HandedKept DEF Inv
  <2> QED BY <1>1, <2>3, <2>4, <2>5, <2>6, <2>7, CallStepKeeps
<1> QED BY <1>2, <1>3 DEF InsertRow

LEMMA FinishBroadcastKeeps ==
    ASSUME Inv, NEW c \in Calls, FinishBroadcast(c)
    PROVE  Inv'
<1> DEFINE i == IntentOf(c)
           tx == call[c].tx
<1>0. TypeOK /\ At(c) = "inserted" /\ i \in Intents /\ tx \in Tx /\ tx.intent = i
  BY DEF Inv, FinishBroadcast, TypeOK, CallsFit
<1>1. UNCHANGED <<row, mined, pool, head, peak, handed, succeeded, faults, signings, blind, pass, byHand, finalBy>>
  BY DEF FinishBroadcast, passVars, chainVars
<1>2. /\ call' \in [Calls -> CallRecs]
      /\ \A d \in Calls : At(d)' \notin {"new", "done"} => IntentOf(d)' \in Intents
      /\ call'[c].at = "done" /\ \A d \in Calls \ {c} : call'[d] = call[d]
  BY <1>0, ReturnType DEF FinishBroadcast
<1>3. /\ status' \in [Intents -> Statuses]
      /\ \A j \in Intents : status'[j] = "BroadcastConfirmed" => status[j] = "BroadcastConfirmed"
  BY <1>0 DEF FinishBroadcast, SetStatus, TypeOK, Statuses
<1>4. /\ corr' \in [Correlated -> CorrRecs]
      /\ \A j \in Correlated : corr[j].tx # None => corr'[j].tx = corr[j].tx
  <2>1. CASE i \in Correlated
    BY <2>1, <1>0, AttachGrows DEF FinishBroadcast
  <2>2. CASE i \notin Correlated
    BY <2>2, <1>0 DEF FinishBroadcast, TypeOK, CorrRecs
  <2> QED BY <2>1, <2>2
<1>5. TypeOK'
  BY <1>0, <1>1, <1>2, <1>3, <1>4 DEF TypeOK, CallRecs, CorrRecs
<1>6. Grows
  BY <1>0, <1>1, <1>4, OffChainGrows
<1>7. CallsFit' /\ HandedIsBound'
  BY <1>0, <1>1, <1>2, <1>6, CallsKept, HandedKept DEF Inv
<1> QED BY <1>1, <1>3, <1>5, <1>6, <1>7, CallStepKeeps

LEMMA BroadcastKeeps ==
    ASSUME Inv, NEW c \in Calls, Broadcast(c)
    PROVE  Inv'
BY ReadIntentKeeps, DecideKeeps, SignKeeps, BindHashKeeps, SendRawKeeps, InsertRowKeeps, FinishBroadcastKeeps
   DEF Broadcast

-----------------------------------------------------------------------------
(* The confirmation passes *)

PassRecs == [at : PassAts, head : Nat \cup {None}, queue : Seq(Intents), decision : Confirmations \cup {None}]

LEMMA MovesType ==
    ASSUME TypeOK, NEW p \in {"worker", "operator"}, NEW t \in PassRecs, Moves(p, t)
    PROVE  /\ pass' \in [{"worker", "operator"} -> PassRecs]
           /\ pass'[p] = t /\ \A q \in {"worker", "operator"} \ {p} : pass'[q] = pass[q]
<1>1. pass \in [{"worker", "operator"} -> PassRecs]
  BY DEF TypeOK, PassRecs
<1> QED BY <1>1 DEF Moves

LEMMA IdlePass ==
    /\ Idle \in PassRecs /\ Idle.at = "idle" /\ Idle.head = None /\ Idle.queue = <<>>
BY DEF Idle, PassRecs, PassAts

\* The pass goes on with the next row of its queue, or is done.
LEMMA NextRowFits ==
    ASSUME TypeOK, NEW p \in {"worker", "operator"}, NEW queue \in Seq(Intents), NextRow(p, queue),
           pass[p].head # None => pass[p].head <= peak', UNCHANGED peak,
           \A k \in DOMAIN queue : row'[queue[k]] # None
    PROVE  /\ pass' \in [{"worker", "operator"} -> PassRecs]
           /\ \A q \in {"worker", "operator"} \ {p} : pass'[q] = pass[q]
           /\ PassFits(p)'
<1>1. CASE queue = <<>>
  <2>1. Moves(p, Idle)
    BY <1>1 DEF NextRow
  <2>2. /\ pass' \in [{"worker", "operator"} -> PassRecs]
        /\ pass'[p] = Idle /\ \A q \in {"worker", "operator"} \ {p} : pass'[q] = pass[q]
    BY <2>1, IdlePass, MovesType
  <2>3. PassFits(p)'
    BY <2>2, IdlePass DEF PassFits
  <2> QED BY <2>2, <2>3
<1>2. CASE queue # <<>>
  <2> DEFINE t == [pass[p] EXCEPT !.at = "asking", !.queue = queue, !.decision = None]
  <2>1. pass[p] \in PassRecs /\ Moves(p, t)
    BY <1>2 DEF NextRow, TypeOK, PassRecs
  <2>2. t \in PassRecs /\ t.at = "asking" /\ t.queue = queue /\ t.head = pass[p].head
    BY <2>1 DEF PassRecs, PassAts
  <2> HIDE DEF t
  <2>3. /\ pass' \in [{"worker", "operator"} -> PassRecs]
        /\ pass'[p] = t /\ \A q \in {"worker", "operator"} \ {p} : pass'[q] = pass[q]
    BY <2>1, <2>2, MovesType
  <2>4. PassFits(p)'
    BY <1>2, <2>2, <2>3 DEF PassFits
  <2> QED BY <2>3, <2>4
<1> QED BY <1>1, <1>2

\* The frame of a step of confirmer p.
LEMMA PassStepKeeps ==
    ASSUME Inv, TypeOK', NEW p \in {"worker", "operator"}, Grows,
           UNCHANGED <<mined, head, succeeded, handed, call>>,
           \A q \in {"worker", "operator"} \ {p} : pass'[q] = pass[q],
           PassFits(p)', FinalFits', ConfirmedSucceeded'
    PROVE  Inv'
<1>1. MinedFits' /\ CallsFit' /\ HandedIsBound'
  BY MinedKept, CallsKept, HandedKept DEF Inv
<1>2. \A q \in {"worker", "operator"} \ {p} : PassFits(q)'
  BY PassKept DEF Inv, PassesFit
<1> QED BY <1>1, <1>2 DEF Inv, PassesFit

\* A step that only reads.
LEMMA ReadingKeeps ==
    ASSUME Inv, TypeOK', NEW p \in {"worker", "operator"},
           UNCHANGED <<storeVars, mined, head, peak, succeeded, handed, call, blind, finalBy>>,
           \A q \in {"worker", "operator"} \ {p} : pass'[q] = pass[q],
           PassFits(p)'
    PROVE  Inv'
<1>1. Grows
  BY OffChainGrows DEF Inv, storeVars
<1>2. FinalFits' /\ ConfirmedSucceeded'
  BY <1>1, FinalKept, ConfirmedKept DEF Inv, storeVars
<1> QED BY <1>1, <1>2, PassStepKeeps

LEMMA ReadHeadKeeps ==
    ASSUME Inv, ReadHead
    PROVE  Inv'
<1>0. TypeOK /\ UNCHANGED <<storeVars, mined, pool, head, peak, succeeded, handed, call, signings, blind, byHand, finalBy>>
  BY DEF Inv, ReadHead, callVars
<1>1. PICK t \in PassRecs : Moves("worker", t) /\ t.at = "listing" /\ t.queue = <<>> /\ t.head \in {head, None}
  <2> DEFINE a == [Idle EXCEPT !.at = "listing", !.head = head]
             b == [Idle EXCEPT !.at = "listing"]
  <2>1. a \in PassRecs /\ a.at = "listing" /\ a.queue = <<>> /\ a.head = head
    <3>1. head \in Nat
      BY <1>0 DEF TypeOK
    <3> QED BY <3>1, IdlePass DEF PassRecs, PassAts
  <2>2. b \in PassRecs /\ b.at = "listing" /\ b.queue = <<>> /\ b.head = None
    BY IdlePass DEF PassRecs, PassAts
  <2>3. Moves("worker", a) \/ Moves("worker", b)
    BY DEF ReadHead
  <2> HIDE DEF a, b
  <2> QED BY <2>1, <2>2, <2>3
<1>2. faults' \in 0 .. MaxFaults
  BY <1>0, ChainBounds DEF ReadHead, Fault, TypeOK
<1>4. /\ pass' \in [{"worker", "operator"} -> PassRecs]
      /\ pass'["worker"] = t /\ \A q \in {"worker", "operator"} \ {"worker"} : pass'[q] = pass[q]
  BY <1>0, <1>1, MovesType
<1>5. TypeOK'
  BY <1>0, <1>2, <1>4 DEF TypeOK, storeVars, PassRecs, At, IntentOf
<1>6. PassFits("worker")'
  BY <1>0, <1>1, <1>4 DEF PassFits, TypeOK
<1> QED BY <1>0, <1>4, <1>5, <1>6, ReadingKeeps

LEMMA ListRowsKeeps ==
    ASSUME Inv, ListRows
    PROVE  Inv'
<1>0. TypeOK /\ PassFits("worker") /\ UNCHANGED <<storeVars, chainVars, call, signings, blind, byHand, finalBy>>
      /\ NextRow("worker", ListPending)
  BY DEF Inv, ListRows, callVars, PassesFit
<1>1. ListPending \in Seq(Intents) /\ \A k \in DOMAIN ListPending : row[ListPending[k]] # None
  BY <1>0, ListPendingType
<1>2. /\ pass' \in [{"worker", "operator"} -> PassRecs]
      /\ \A q \in {"worker", "operator"} \ {"worker"} : pass'[q] = pass[q]
      /\ PassFits("worker")'
  <2>1. peak' = peak /\ row' = row
    BY <1>0 DEF chainVars, storeVars
  <2>2. pass["worker"].head # None => pass["worker"].head <= peak'
    BY <1>0, <2>1 DEF PassFits
  <2> QED BY <1>0, <1>1, <2>1, <2>2, NextRowFits
<1>3. TypeOK'
  BY <1>0, <1>2 DEF TypeOK, storeVars, chainVars, PassRecs, At, IntentOf
<1> QED BY <1>0, <1>2, <1>3, ReadingKeeps DEF chainVars

LEMMA ConfirmByHandKeeps ==
    ASSUME Inv, NEW i \in Intents, ConfirmByHand(i)
    PROVE  Inv'
<1>0. TypeOK /\ PassFits("operator") /\ UNCHANGED <<storeVars, chainVars, call, signings, blind, finalBy>>
      /\ NextRow("operator", <<i>>) /\ row[i] # None /\ byHand' \in 0 .. MaxByHand
  BY RequestBounds DEF Inv, ConfirmByHand, callVars, PassesFit, TypeOK
<1>1. <<i>> \in Seq(Intents) /\ \A k \in DOMAIN <<i>> : row[<<i>>[k]] # None
  BY <1>0
<1>2. /\ pass' \in [{"worker", "operator"} -> PassRecs]
      /\ \A q \in {"worker", "operator"} \ {"operator"} : pass'[q] = pass[q]
      /\ PassFits("operator")'
  <2>1. peak' = peak /\ row' = row
    BY <1>0 DEF chainVars, storeVars
  <2>2. pass["operator"].head # None => pass["operator"].head <= peak'
    BY <1>0, <2>1 DEF PassFits
  <2> QED BY <1>0, <1>1, <2>1, <2>2, NextRowFits
<1>3. TypeOK'
  BY <1>0, <1>2 DEF TypeOK, storeVars, chainVars, PassRecs, At, IntentOf
<1> QED BY <1>0, <1>2, <1>3, ReadingKeeps DEF chainVars

\* A pass that is at a row has its row.
LEMMA PassHead ==
    ASSUME TypeOK, NEW p \in {"worker", "operator"}, PassFits(p), pass[p].at \in {"asking", "deciding", "applied"}
    PROVE  /\ pass[p] \in PassRecs /\ pass[p].queue \in Seq(Intents) /\ pass[p].queue # <<>>
           /\ Head(pass[p].queue) \in Intents /\ row[Head(pass[p].queue)] \in Rows
           /\ row[Head(pass[p].queue)] # None /\ row[Head(pass[p].queue)].tx \in Tx
           /\ Tail(pass[p].queue) \in Seq(Intents)
           /\ \A k \in DOMAIN Tail(pass[p].queue) : Tail(pass[p].queue)[k] \in Intents /\ row[Tail(pass[p].queue)[k]] # None
<1> DEFINE q == pass[p].queue
<1>1. pass[p] \in PassRecs /\ q \in Seq(Intents) /\ q # <<>> /\ \A k \in DOMAIN q : row[q[k]] # None
  BY DEF TypeOK, PassRecs, PassFits
<1> HIDE DEF q
<1>2. 1 \in DOMAIN q /\ Head(q) = q[1] /\ Head(q) \in Intents
  BY <1>1
<1>3. row[Head(q)] # None /\ row[Head(q)] \in Rows
  BY <1>1, <1>2 DEF TypeOK
<1>4. Tail(q) \in Seq(Intents) /\ \A k \in DOMAIN Tail(q) : k + 1 \in DOMAIN q /\ Tail(q)[k] = q[k + 1]
  BY <1>1, TailFacts
<1>5. \A k \in DOMAIN q : q[k] \in Intents
  BY <1>1
<1>6. \A k \in DOMAIN Tail(q) : Tail(q)[k] \in Intents /\ row[Tail(q)[k]] # None
  BY <1>1, <1>4, <1>5
<1> QED BY <1>1, <1>2, <1>3, <1>4, <1>6 DEF q, Rows

LEMMA ReadReceiptKeeps ==
    ASSUME Inv, NEW p \in {"worker", "operator"}, ReadReceipt(p)
    PROVE  Inv'
<1> DEFINE i == Head(pass[p].queue)
           Decided(d) == Moves(p, [pass[p] EXCEPT !.at = "deciding", !.decision = d])
<1>0. TypeOK /\ PassFits(p) /\ pass[p].at = "asking"
      /\ UNCHANGED <<storeVars, mined, pool, head, peak, handed, succeeded, call, signings, blind, byHand, finalBy>>
  BY DEF Inv, ReadReceipt, callVars, PassesFit
<1>1. pass[p] \in PassRecs /\ pass[p].queue # <<>> /\ i \in Intents /\ row[i] # None /\ row[i].tx \in Tx
  BY <1>0, PassHead
<1>2. faults' \in 0 .. MaxFaults
  <2>1. faults' = faults \/ Fault
    BY DEF ReadReceipt
  <2>2. faults \in 0 .. MaxFaults
    BY <1>0 DEF TypeOK
  <2> QED BY <2>1, <2>2, ChainBounds DEF Fault
<1>3. ASSUME NEW d \in Confirmations, Decided(d), Grounded(p, row[i].tx, d)
      PROVE  Inv'
  <2> DEFINE t == [pass[p] EXCEPT !.at = "deciding", !.decision = d]
  <2>1. t \in PassRecs /\ t.at = "deciding" /\ t.decision = d /\ t.queue = pass[p].queue /\ t.head = pass[p].head
    BY <1>1 DEF PassRecs, PassAts
  <2>2. Moves(p, t)
    BY <1>3
  <2> HIDE DEF t
  <2>3. /\ pass' \in [{"worker", "operator"} -> PassRecs]
        /\ pass'[p] = t /\ \A q \in {"worker", "operator"} \ {p} : pass'[q] = pass[q]
    BY <1>0, <2>1, <2>2, MovesType
  <2>4. TypeOK'
    BY <1>0, <1>2, <2>3 DEF TypeOK, storeVars, PassRecs, At, IntentOf
  <2>5. Grounded(p, row[Head(pass[p].queue)].tx, pass[p].decision)'
    BY <1>0, <1>3, <2>1, <2>3 DEF Grounded, Buried, storeVars
  <2>6. PassFits(p)'
    <3>1. peak' = peak /\ row' = row
      BY <1>0 DEF storeVars
    <3>2. pass'[p].head # None => pass'[p].head <= peak'
      BY <1>0, <2>1, <2>3, <3>1 DEF PassFits
    <3>3. \A k \in DOMAIN pass'[p].queue : row'[pass'[p].queue[k]] # None
      BY <1>0, <2>1, <2>3, <3>1 DEF PassFits
    <3> QED BY <1>1, <2>1, <2>3, <2>5, <3>2, <3>3 DEF PassFits
  <2> QED BY <1>0, <2>3, <2>4, <2>6, ReadingKeeps
<1>4. ASSUME NEW d \in {"receipt_missing", "receipt_error"}, Decided(d)
      PROVE  Inv'
  <2>1. Grounded(p, row[i].tx, d) /\ d \in Confirmations
    BY DEF Grounded, Confirmations, Unfinal
  <2> HIDE DEF Decided
  <2> QED BY <1>3, <1>4, <2>1
<1>5. ASSUME NEW r \in Receipt(row[i].tx),
             Decided(IF p = "worker" THEN WorkerDecision(pass[p].head, r) ELSE OperatorDecision(r))
      PROVE  Inv'
  <2> DEFINE d == IF p = "worker" THEN WorkerDecision(pass[p].head, r) ELSE OperatorDecision(r)
  <2>1. PICK k \in DOMAIN mined : r = mined[k] /\ r.tx = row[i].tx
    BY DEF Receipt, Range
  <2>2. r \in [tx : Tx, ok : BOOLEAN, block : Nat]
    <3> DEFINE M == [tx : Tx, ok : BOOLEAN, block : Nat]
    <3>1. mined \in Seq(M)
      BY <1>0 DEF TypeOK
    <3> HIDE DEF M
    <3>2. r \in M
      BY <2>1, <3>1
    <3> QED BY <3>2 DEF M
  <2>3. r.ok => row[i].tx \in succeeded
    BY <2>1 DEF Inv, MinedFits
  <2>4. d \in Confirmations
    BY DEF WorkerDecision, OperatorDecision, Confirmations, Unfinal
  <2>5. d = "mined_success" => r.ok
    BY DEF WorkerDecision, OperatorDecision
  <2>6. ASSUME p = "worker", d \in {"mined_success", "mined_failed"}
        PROVE  Buried(row[i].tx, d = "mined_success")
    <3> DEFINE h == pass[p].head
    <3>1. h # None /\ ~ (h < r.block + Finality) /\ r.ok = (d = "mined_success")
      BY <2>6, <2>2 DEF WorkerDecision
    <3>2. h \in Nat /\ h <= peak /\ peak \in Nat
      <4>1. h \in Nat \cup {None}
        BY <1>1 DEF PassRecs
      <4> QED BY <1>0, <3>1, <4>1 DEF PassFits, TypeOK
    <3>3. r.block + Finality <= peak
      <4> HIDE DEF h
      <4> QED BY <3>1, <3>2, <2>2, ChainBounds
    <3> QED BY <2>1, <3>1, <3>3 DEF Buried
  <2>7. Grounded(p, row[i].tx, d)
    BY <2>3, <2>5, <2>6 DEF Grounded
  <2>8. Decided(d)
    BY <1>5
  <2> HIDE DEF d, Decided
  <2> QED BY <1>3, <2>4, <2>7, <2>8
<1>6. \/ Decided("receipt_missing")
      \/ \E r \in Receipt(row[i].tx) :
            Decided(IF p = "worker" THEN WorkerDecision(pass[p].head, r) ELSE OperatorDecision(r))
      \/ Decided("receipt_error")
  BY DEF ReadReceipt
<1> HIDE DEF Decided
<1> QED BY <1>4, <1>5, <1>6

\* The outcome is written to the row, whose transaction it is about.
LEMMA ApplyDecisionKeeps ==
    ASSUME Inv, NEW p \in {"worker", "operator"}, ApplyDecision(p)
    PROVE  Inv'
<1> DEFINE q == pass[p].queue
           i == Head(q)
           d == pass[p].decision
<1>0. TypeOK /\ PassFits(p) /\ pass[p].at = "deciding"
      /\ UNCHANGED <<status, corr, chainVars, call, signings, blind, byHand>>
  BY DEF Inv, ApplyDecision, callVars, PassesFit
<1>1. /\ pass[p] \in PassRecs /\ q # <<>> /\ i \in Intents /\ row[i] # None /\ row[i] \in Rows /\ row[i].tx \in Tx
      /\ Tail(q) \in Seq(Intents) /\ \A k \in DOMAIN Tail(q) : Tail(q)[k] \in Intents /\ row[Tail(q)[k]] # None
  BY <1>0, PassHead
<1>2. d \in Confirmations /\ Grounded(p, row[i].tx, d)
  BY <1>0 DEF PassFits
<1>3. /\ row' = [row EXCEPT ![i].conf = d]
      /\ finalBy' = [finalBy EXCEPT ![i] = IF d \in Unfinal THEN None ELSE p]
  BY DEF ApplyDecision, PersistConfirmation
<1>4. /\ row' \in [Intents -> Rows \cup {None}]
      /\ row'[i] # None /\ row'[i].tx = row[i].tx /\ row'[i].conf = d
      /\ \A j \in Intents \ {i} : row'[j] = row[j]
  <2> DEFINE r == [row[i] EXCEPT !.conf = d]
  <2> HIDE DEF i, d
  <2>1. r \in Rows /\ r.tx = row[i].tx /\ r.conf = d
    BY <1>1, <1>2 DEF Rows
  <2>2. row' = [row EXCEPT ![i] = r]
    BY <1>0, <1>1, <1>3 DEF TypeOK
  <2> HIDE DEF r
  <2> QED BY <1>0, <1>1, <2>1, <2>2, NoneAssumption DEF TypeOK
<1>5. Grows
  <2>1. UNCHANGED <<mined, peak, succeeded, blind, corr>>
    BY <1>0 DEF chainVars
  <2>2. \A j \in Intents : row[j] # None => row'[j] # None /\ row'[j].tx = row[j].tx
    BY <1>4
  <2> QED BY <1>0, <2>1, <2>2, OffChainGrows
<1>6. /\ pass' \in [{"worker", "operator"} -> PassRecs]
      /\ \A s \in {"worker", "operator"} \ {p} : pass'[s] = pass[s]
      /\ PassFits(p)'
  <2>0. peak' = peak /\ (pass[p].head # None => pass[p].head <= peak')
    BY <1>0 DEF chainVars, PassFits
  <2>1. CASE d \in Unfinal
    <3>1. NextRow(p, Tail(q))
      BY <2>1 DEF ApplyDecision
    <3>2. \A k \in DOMAIN Tail(q) : row'[Tail(q)[k]] # None
      BY <1>1, <1>4
    <3> HIDE DEF q
    <3> QED BY <1>0, <1>1, <2>0, <3>1, <3>2, NextRowFits
  <2>2. CASE d \notin Unfinal
    <3> DEFINE t == [pass[p] EXCEPT !.at = "applied"]
    <3>1. t \in PassRecs /\ t.at = "applied" /\ t.decision = d /\ t.queue = q /\ t.head = pass[p].head
      BY <1>1 DEF PassRecs, PassAts
    <3>2. Moves(p, t)
      BY <2>2 DEF ApplyDecision
    <3> HIDE DEF t
    <3>3. /\ pass' \in [{"worker", "operator"} -> PassRecs]
          /\ pass'[p] = t /\ \A s \in {"worker", "operator"} \ {p} : pass'[s] = pass[s]
      BY <1>0, <3>1, <3>2, MovesType
    <3>4. \A k \in DOMAIN q : row'[q[k]] # None
      <4>1. \A k \in DOMAIN q : q[k] \in Intents /\ row[q[k]] # None
        BY <1>0 DEF PassFits, TypeOK
      <4> QED BY <4>1, <1>4
    <3>5. row'[Head(pass'[p].queue)].tx = row[i].tx /\ pass'[p].decision = d
      BY <3>1, <3>3, <1>4
    <3>6. Grounded(p, row[Head(pass[p].queue)].tx, pass[p].decision)'
      <4>1. mined' = mined /\ peak' = peak /\ succeeded' = succeeded
        BY <1>0 DEF chainVars
      <4> QED BY <1>2, <3>5, <4>1 DEF Grounded, Buried
    <3>7. PassFits(p)'
      BY <1>1, <1>2, <2>0, <2>2, <3>1, <3>3, <3>4, <3>6 DEF PassFits
    <3> QED BY <3>3, <3>7
  <2> QED BY <2>1, <2>2
<1>7. finalBy' \in [Intents -> {"worker", "operator", None}]
  BY <1>0, <1>3 DEF TypeOK
<1>8. TypeOK'
  BY <1>0, <1>4, <1>6, <1>7 DEF TypeOK, chainVars, PassRecs, At, IntentOf
<1>9. FinalFits'
  <2> SUFFICES ASSUME NEW j \in Intents, finalBy'[j] = "worker"
               PROVE  /\ row'[j] # None
                      /\ row'[j].conf \in {"mined_success", "mined_failed"}
                             => Buried(row[j].tx, row[j].conf = "mined_success")'
    BY DEF FinalFits
  <2>0. mined' = mined /\ peak' = peak
    BY <1>0 DEF chainVars
  <2>1. CASE j = i
    <3>1. p = "worker"
      BY <2>1, <1>0, <1>3, NoneAssumption DEF TypeOK
    <3>2. row'[j] # None /\ row'[j].tx = row[i].tx /\ row'[j].conf = d
      BY <2>1, <1>4
    <3>3. d \in {"mined_success", "mined_failed"} => Buried(row[i].tx, d = "mined_success")
      BY <1>2, <3>1 DEF Grounded
    <3> QED BY <2>0, <3>2, <3>3 DEF Buried
  <2>2. CASE j # i
    <3>1. finalBy[j] = "worker" /\ row'[j] = row[j]
      BY <2>2, <1>0, <1>3, <1>4 DEF TypeOK
    <3> QED BY <2>0, <3>1 DEF Inv, FinalFits, Buried
  <2> QED BY <2>1, <2>2
<1>10. ConfirmedSucceeded'
  BY <1>0, <1>5, ConfirmedKept DEF Inv
<1> QED BY <1>0, <1>5, <1>6, <1>8, <1>9, <1>10, PassStepKeeps DEF chainVars

LEMMA ApplyStatusKeeps ==
    ASSUME Inv, NEW p \in {"worker", "operator"}, ApplyStatus(p)
    PROVE  Inv'
<1> DEFINE q == pass[p].queue
           i == Head(q)
           d == pass[p].decision
<1>0. TypeOK /\ PassFits(p) /\ pass[p].at = "applied" /\ NextRow(p, Tail(q))
      /\ UNCHANGED <<row, corr, chainVars, call, signings, blind, byHand, finalBy>>
  BY DEF Inv, ApplyStatus, callVars, PassesFit
<1>1. /\ i \in Intents /\ row[i] # None
      /\ Tail(q) \in Seq(Intents) /\ \A k \in DOMAIN Tail(q) : Tail(q)[k] \in Intents /\ row[Tail(q)[k]] # None
  BY <1>0, PassHead
<1>2. d \in Confirmations \ Unfinal /\ (d = "mined_success" => row[i].tx \in succeeded)
  BY <1>0 DEF PassFits, Grounded
<1>3. /\ status' = [status EXCEPT ![i] = StatusOf(d)] /\ StatusOf(d) \in Statuses
      /\ StatusOf(d) = "BroadcastConfirmed" => d = "mined_success"
  BY <1>2 DEF ApplyStatus, SetStatus, StatusOf, Statuses, Confirmations
<1>4. /\ pass' \in [{"worker", "operator"} -> PassRecs]
      /\ \A s \in {"worker", "operator"} \ {p} : pass'[s] = pass[s]
      /\ PassFits(p)'
  <2>1. peak' = peak /\ (pass[p].head # None => pass[p].head <= peak')
    BY <1>0 DEF chainVars, PassFits
  <2> HIDE DEF q
  <2> QED BY <1>0, <1>1, <2>1, NextRowFits
<1>5. TypeOK'
  <2>1. status' \in [Intents -> Statuses]
    BY <1>0, <1>3 DEF TypeOK
  <2> QED BY <1>0, <1>4, <2>1 DEF TypeOK, chainVars, PassRecs, At, IntentOf
<1>6. Grows
  BY <1>0, OffChainGrows DEF chainVars
<1>7. ConfirmedSucceeded'
  <2>1. \A j \in Intents : status'[j] = "BroadcastConfirmed" =>
            status[j] = "BroadcastConfirmed" \/ (row[j] # None /\ row[j].tx \in succeeded)
    <3> HIDE DEF i, d
    <3> QED BY <1>0, <1>1, <1>2, <1>3 DEF TypeOK
  <2> QED BY <1>0, <1>6, <2>1, ConfirmedKept DEF Inv
<1>8. FinalFits'
  BY <1>0, <1>6, FinalKept DEF Inv
<1> QED BY <1>0, <1>4, <1>5, <1>6, <1>7, <1>8, PassStepKeeps DEF chainVars

-----------------------------------------------------------------------------
(* The chain *)

\* The frame of a block or of a reorg: what was buried stays buried.
LEMMA ChainStepKeeps ==
    ASSUME Inv, TypeOK', MinedFits', UNCHANGED <<storeVars, callVars, passVars, handed>>,
           succeeded \subseteq succeeded', peak <= peak',
           \A tx \in Tx, ok \in BOOLEAN : Buried(tx, ok) => Buried(tx, ok)'
    PROVE  Inv'
<1>1. Grows
  BY DEF Grows, storeVars, callVars
<1>2. PassesFit' /\ FinalFits' /\ ConfirmedSucceeded' /\ HandedIsBound'
  BY <1>1, PassesKept, FinalKept, ConfirmedKept, HandedKept DEF Inv, storeVars, passVars
<1>3. CallsFit'
  BY <1>1, CallsKept DEF Inv, callVars
<1> QED BY <1>2, <1>3 DEF Inv

LEMMA AdvanceFacts ==
    ASSUME TypeOK, Advance, head < MaxHead
    PROVE  /\ head \in Nat /\ peak \in Nat /\ head' = head + 1 /\ peak <= peak'
           /\ peak' \in 0 .. MaxHead /\ head' \in 0 .. peak'
BY ChainBounds DEF TypeOK, Advance

LEMMA MineKeeps ==
    ASSUME Inv, NEW tx \in pool, NEW ok \in BOOLEAN, Mine(tx, ok), UNCHANGED <<storeVars, callVars, passVars>>
    PROVE  Inv'
<1> DEFINE M == [tx : Tx, ok : BOOLEAN, block : Nat]
           r == [tx |-> tx, ok |-> ok, block |-> head + 1]
<1>0. TypeOK /\ tx \in Tx
  BY DEF Inv, TypeOK
<1>1. /\ head \in Nat /\ peak \in Nat /\ head' = head + 1 /\ peak <= peak'
      /\ peak' \in 0 .. MaxHead /\ head' \in 0 .. peak'
  BY <1>0, AdvanceFacts DEF Mine
<1>2. /\ mined' = Append(mined, r) /\ pool' = pool \ {tx}
      /\ succeeded' = IF ok THEN succeeded \cup {tx} ELSE succeeded
      /\ UNCHANGED <<handed, faults>>
  BY DEF Mine
<1>3. r \in M /\ r.block = head + 1 /\ r.tx = tx /\ r.ok = ok
  BY <1>0, <1>1
<1>4. mined \in Seq(M)
  BY <1>0 DEF TypeOK
<1> HIDE DEF M, r
<1>5. /\ mined' \in Seq(M) /\ DOMAIN mined \subseteq DOMAIN mined'
      /\ \A k \in DOMAIN mined : mined'[k] = mined[k]
      /\ \A k \in DOMAIN mined' : k \in DOMAIN mined \/ (k = Len(mined) + 1 /\ mined'[k] = r)
  BY <1>2, <1>3, <1>4
<1>6. \A k \in DOMAIN mined : k < Len(mined) + 1 /\ k \in Nat /\ mined[k] \in M
  BY <1>4
<1>7. IsFiniteSet(pool') /\ pool' \subseteq Tx /\ succeeded \subseteq succeeded' /\ succeeded' \subseteq Tx
  BY <1>0, <1>2, FS_RemoveElement DEF TypeOK
<1>8. TypeOK'
  BY <1>0, <1>1, <1>2, <1>5, <1>7 DEF TypeOK, storeVars, callVars, passVars, At, IntentOf, M
<1>9. \A k \in DOMAIN mined : mined[k].block \in Nat /\ mined[k].block <= head /\ (mined[k].ok => mined[k].tx \in succeeded)
  BY <1>6 DEF M, Inv, MinedFits
<1>10. MinedFits'
  <2>1. ASSUME NEW k \in DOMAIN mined'
        PROVE  mined'[k].block <= head' /\ (mined'[k].ok => mined'[k].tx \in succeeded')
    <3>1. CASE k \in DOMAIN mined
      BY <3>1, <1>1, <1>5, <1>7, <1>9
    <3>2. CASE mined'[k] = r
      BY <3>2, <1>1, <1>2, <1>3
    <3> QED BY <3>1, <3>2, <1>5
  <2>2. ASSUME NEW j \in DOMAIN mined', NEW k \in DOMAIN mined', j < k
        PROVE  mined'[j].block < mined'[k].block
    <3>0. Len(mined) \in Nat
      BY <1>4
    <3>1. j \in DOMAIN mined
      BY <1>4, <1>5, <2>2, <3>0, <1>6
    <3>2. CASE k \in DOMAIN mined
      BY <3>1, <3>2, <1>5, <2>2 DEF Inv, MinedFits
    <3>3. CASE mined'[k] = r
      BY <3>1, <3>3, <1>1, <1>3, <1>5, <1>9
    <3> QED BY <3>2, <3>3, <1>5
  <2> QED BY <2>1, <2>2 DEF MinedFits
<1>11. ASSUME NEW t \in Tx, NEW b \in BOOLEAN, Buried(t, b)
       PROVE  Buried(t, b)'
  <2>1. PICK k \in DOMAIN mined : mined[k].tx = t /\ mined[k].ok = b /\ mined[k].block + Finality <= peak
    BY <1>11 DEF Buried
  <2>2. k \in DOMAIN mined' /\ mined'[k] = mined[k] /\ mined[k].block + Finality <= peak'
    BY <2>1, <1>1, <1>5, <1>9, ChainBounds
  <2> QED BY <2>1, <2>2 DEF Buried
<1> QED BY <1>1, <1>2, <1>7, <1>8, <1>10, <1>11, ChainStepKeeps

LEMMA EmptyBlockKeeps ==
    ASSUME Inv, EmptyBlock, UNCHANGED <<storeVars, callVars, passVars>>
    PROVE  Inv'
<1>0. TypeOK /\ UNCHANGED <<mined, pool, handed, succeeded, faults>>
  BY DEF Inv, EmptyBlock
<1>1. /\ head \in Nat /\ peak \in Nat /\ head' = head + 1 /\ peak <= peak'
      /\ peak' \in 0 .. MaxHead /\ head' \in 0 .. peak'
  BY <1>0, AdvanceFacts DEF EmptyBlock
<1>2. TypeOK'
  BY <1>0, <1>1 DEF TypeOK, storeVars, callVars, passVars, At, IntentOf
<1>3. \A k \in DOMAIN mined : mined[k].block \in Nat
  <2> DEFINE M == [tx : Tx, ok : BOOLEAN, block : Nat]
  <2>1. mined \in Seq(M)
    BY <1>0 DEF TypeOK
  <2> HIDE DEF M
  <2>2. \A k \in DOMAIN mined : mined[k] \in M
    BY <2>1
  <2> QED BY <2>2 DEF M
<1>4. MinedFits'
  BY <1>0, <1>1, <1>3 DEF Inv, MinedFits
<1>5. \A t \in Tx, b \in BOOLEAN : Buried(t, b) => Buried(t, b)'
  BY <1>0, <1>1, <1>3, ChainBounds DEF Buried
<1> QED BY <1>0, <1>1, <1>2, <1>4, <1>5, ChainStepKeeps

\* The heart of finality: a block that ever had finality_blocks on it is below
\* every height a reorg may return to.
LEMMA ReorgKeeps ==
    ASSUME Inv, NEW height \in 0 .. MaxHead, Reorg(height), UNCHANGED <<storeVars, callVars, passVars>>
    PROVE  Inv'
<1> DEFINE M == [tx : Tx, ok : BOOLEAN, block : Nat]
           dropped == {r.tx : r \in {q \in Range(mined) : q.block > height}}
<1>0. /\ TypeOK /\ MinedFits /\ height \in Nat /\ height < head /\ height + Finality >= peak
      /\ head' = height /\ mined' = UpTo(height) /\ pool' = pool \cup dropped
      /\ UNCHANGED <<peak, handed, succeeded>>
  BY ChainBounds DEF Inv, Reorg
<1>1. /\ mined' \in Seq(M) /\ DOMAIN mined' \subseteq DOMAIN mined
      /\ \A k \in DOMAIN mined' : mined'[k] = mined[k] /\ mined[k].block <= height
      /\ \A k \in DOMAIN mined : mined[k].block <= height => k \in DOMAIN mined'
  BY <1>0, UpToFacts
<1>2. mined \in Seq(M)
  BY <1>0 DEF TypeOK
<1>3. \A k \in DOMAIN mined : mined[k].block \in Nat /\ mined[k].tx \in Tx
  <2>1. \A k \in DOMAIN mined : mined[k] \in M
    <3> HIDE DEF M
    <3> QED BY <1>2
  <2> QED BY <2>1
<1>4. IsFiniteSet(dropped) /\ dropped \subseteq Tx
  <2> DEFINE D == {k \in DOMAIN mined : mined[k].block > height}
             f == [k \in D |-> mined[k].tx]
  <2>1. DOMAIN mined = 1 .. Len(mined) /\ Len(mined) \in Nat
    <3> HIDE DEF M
    <3> QED BY <1>2
  <2>2. IsFiniteSet(D)
    <3>1. IsFiniteSet(1 .. Len(mined))
      BY <2>1, FS_Interval
    <3> QED BY <2>1, <3>1, FS_Subset
  <2>3. f \in [D -> dropped] /\ \A y \in dropped : \E x \in D : f[x] = y
    BY DEF Range
  <2>4. dropped \subseteq Tx
    BY <1>3 DEF Range
  <2> HIDE DEF D, f, dropped
  <2> QED BY <2>2, <2>3, <2>4, ImageIsSmaller
<1>5. pool' \subseteq Tx /\ IsFiniteSet(pool')
  <2> HIDE DEF dropped
  <2> QED BY <1>0, <1>4, FS_Union DEF TypeOK
<1>6. faults' \in 0 .. MaxFaults /\ peak \in Nat /\ head' \in 0 .. peak'
  BY <1>0, ChainBounds DEF Reorg, Fault, TypeOK
<1>7. TypeOK'
  <2> HIDE DEF dropped
  <2> QED BY <1>0, <1>1, <1>5, <1>6 DEF TypeOK, storeVars, callVars, passVars, At, IntentOf
<1> HIDE DEF M, dropped
<1>8. MinedFits'
  BY <1>0, <1>1 DEF MinedFits
<1>9. ASSUME NEW t \in Tx, NEW b \in BOOLEAN, Buried(t, b)
      PROVE  Buried(t, b)'
  <2>1. PICK k \in DOMAIN mined : mined[k].tx = t /\ mined[k].ok = b /\ mined[k].block + Finality <= peak
    BY <1>9 DEF Buried
  <2>2. mined[k].block <= height
    BY <1>0, <1>3, <1>6, <2>1, ChainBounds
  <2>3. k \in DOMAIN mined' /\ mined'[k] = mined[k]
    BY <1>1, <2>2
  <2> QED BY <1>0, <2>1, <2>3 DEF Buried
<1>10. peak <= peak'
  BY <1>0, <1>6
<1> QED BY <1>0, <1>7, <1>8, <1>9, <1>10, ChainStepKeeps

LEMMA CrashKeeps ==
    ASSUME Inv, Crash
    PROVE  Inv'
<1>0. TypeOK /\ UNCHANGED <<storeVars, mined, pool, head, peak, handed, succeeded, signings, blind, byHand, finalBy>>
  BY DEF Inv, Crash
<1>1. faults' \in 0 .. MaxFaults
  BY <1>0, ChainBounds DEF Crash, Fault, TypeOK
<1>2. /\ NoCall("new") \in CallRecs /\ NoCall("done") \in CallRecs
      /\ NoCall("new").at = "new" /\ NoCall("done").at = "done"
  BY DEF NoCall, CallRecs, CallAts
<1>3. call' \in [Calls -> CallRecs] /\ \A c \in Calls : call'[c].at \in {"new", "done"}
  <2> DEFINE t(c) == NoCall(IF At(c) = "new" THEN "new" ELSE "done")
  <2>1. \A c \in Calls : t(c) \in CallRecs /\ t(c).at \in {"new", "done"}
    BY <1>2
  <2>2. call' = [c \in Calls |-> t(c)]
    BY DEF Crash
  <2> HIDE DEF t
  <2> QED BY <2>1, <2>2
<1>4. pass' = [p \in {"worker", "operator"} |-> Idle]
  BY <1>0 DEF Crash, TypeOK
<1>5. pass' \in [{"worker", "operator"} -> PassRecs]
  <2> HIDE DEF Idle
  <2> QED BY <1>4, IdlePass
<1>6. TypeOK'
  BY <1>0, <1>1, <1>3, <1>5 DEF TypeOK, storeVars, CallRecs, PassRecs, At, IntentOf
<1>7. Grows
  BY <1>0, OffChainGrows DEF storeVars
<1>8. MinedFits' /\ CallsFit' /\ HandedIsBound' /\ FinalFits' /\ ConfirmedSucceeded'
  BY <1>0, <1>3, <1>7, MinedKept, CallsKept, HandedKept, FinalKept, ConfirmedKept DEF Inv, storeVars
<1>9. PassesFit'
  BY <1>4, IdlePass DEF PassesFit, PassFits
<1> QED BY <1>6, <1>8, <1>9 DEF Inv

-----------------------------------------------------------------------------
(* The theorems *)

LEMMA InitInv ==
    ASSUME Init
    PROVE  Inv
<1>1. mined = <<>> /\ row = [i \in Intents |-> None] /\ pass = [p \in {"worker", "operator"} |-> Idle]
  BY DEF Init, ChainInit, StoreInit
<1>2. call \in [Calls -> CallRecs] /\ \A c \in Calls : call[c].at = "new"
  <2>1. NoCall("new") \in CallRecs /\ NoCall("new").at = "new"
    BY DEF NoCall, CallRecs, CallAts
  <2> QED BY <2>1 DEF Init
<1>3. pass \in [{"worker", "operator"} -> PassRecs]
  BY <1>1, IdlePass
<1>4. corr \in [Correlated -> CorrRecs]
  BY DEF Init, StoreInit, CorrRecs, Open
<1>5. status \in [Intents -> Statuses] /\ \A i \in Intents : status[i] # "BroadcastConfirmed"
  BY DEF Init, StoreInit, Statuses
<1>6. finalBy \in [Intents -> {"worker", "operator", None}] /\ \A i \in Intents : finalBy[i] = None
  BY DEF Init
<1>7. TypeOK
  <2>1. mined \in Seq([tx : Tx, ok : BOOLEAN, block : Nat]) /\ IsFiniteSet(pool)
    BY FS_EmptySet DEF Init, ChainInit
  <2> QED BY <2>1, <1>1, <1>2, <1>3, <1>4, <1>5, <1>6, ChainBounds, RequestBounds
          DEF Init, ChainInit, TypeOK, CallRecs, PassRecs, CorrRecs, At, IntentOf
<1>8. MinedFits /\ CallsFit /\ HandedIsBound /\ ConfirmedSucceeded /\ FinalFits
  BY <1>1, <1>2, <1>5, <1>6, NoneAssumption
     DEF Init, ChainInit, MinedFits, CallsFit, HandedIsBound, ConfirmedSucceeded, FinalFits, At
<1>9. PassesFit
  BY <1>1, IdlePass DEF PassesFit, PassFits
<1> QED BY <1>7, <1>8, <1>9 DEF Inv

LEMMA NextInv ==
    ASSUME Inv, [Next]_vars
    PROVE  Inv'
<1>1. CASE UNCHANGED vars
  BY <1>1 DEF vars, storeVars, chainVars, callVars, passVars, Inv, TypeOK, MinedFits, CallsFit, PassesFit, PassFits,
              FinalFits, HandedIsBound, ConfirmedSucceeded, Grounded, Buried, At, IntentOf
<1>2. CASE Chain
  BY <1>2, MineKeeps, EmptyBlockKeeps, ReorgKeeps DEF Chain
<1>3. ASSUME NEW p \in {"worker", "operator"}, Confirm(p)
      PROVE  Inv'
  BY <1>3, ReadReceiptKeeps, ApplyDecisionKeeps, ApplyStatusKeeps DEF Confirm
<1>4. CASE Worker
  BY <1>3, <1>4, ReadHeadKeeps, ListRowsKeeps DEF Worker
<1>5. CASE Operator
  BY <1>3, <1>5, ConfirmByHandKeeps DEF Operator
<1> QED BY <1>1, <1>2, <1>4, <1>5, SubmitSignaturesKeeps, BroadcastKeeps, CrashKeeps DEF Next

\* The inductive invariant of the options executor.
THEOREM Invariant == Spec => []Inv
<1>1. Init => Inv
  BY InitInv
<1>2. Inv /\ [Next]_vars => Inv'
  BY NextInv
<1> QED BY <1>1, <1>2, PTL DEF Spec

\* One trade, one hash: whatever calls overlap, fail or crash, what the node
\* was given for a trade of the order book is what its correlation bound.
THEOREM HandedIsBoundCorrect == Spec => []HandedIsBound
<1>1. Inv => HandedIsBound
  BY DEF Inv
<1> QED BY <1>1, Invariant, PTL

\* What the worker records as mined stays on the chain with that outcome, for
\* every finality depth.
THEOREM FinalIsPermanentCorrect == Spec => []FinalIsPermanent
<1>1. Inv => FinalIsPermanent
  <2> SUFFICES ASSUME Inv, NEW i \in Intents, finalBy[i] = "worker", row[i].conf \in {"mined_success", "mined_failed"}
               PROVE  \E r \in Receipt(row[i].tx) : r.ok = (row[i].conf = "mined_success")
    BY DEF FinalIsPermanent
  <2>1. PICK k \in DOMAIN mined : mined[k].tx = row[i].tx /\ mined[k].ok = (row[i].conf = "mined_success")
    BY DEF Inv, FinalFits, Buried
  <2>2. mined[k] \in Receipt(row[i].tx)
    BY <2>1 DEF Receipt, Range
  <2> QED BY <2>1, <2>2
<1> QED BY <1>1, Invariant, PTL

\* An intent is BroadcastConfirmed only if the transaction of its row was mined
\* with success.
THEOREM ConfirmedSucceededCorrect == Spec => []ConfirmedSucceeded
<1>1. Inv => ConfirmedSucceeded
  BY DEF Inv
<1> QED BY <1>1, Invariant, PTL
=============================================================================
