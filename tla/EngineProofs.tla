---------------------------- MODULE EngineProofs ----------------------------
(***************************************************************************)
(* Proofs about Engine, for any keys and values, any log and any batch:    *)
(* type correctness, the inductive invariant IInv, the safety properties   *)
(* that follow from it, and the refinement of AtomicStore.                 *)
(***************************************************************************)
EXTENDS Engine, WALProofs

-----------------------------------------------------------------------------
(* Prefixes of a log. *)

LEMMA PrefixFacts ==
    ASSUME NEW w \in Logs
    PROVE  /\ SubSeq(w, 1, Len(w)) = w
           /\ SubSeq(w, 1, 0) = <<>>
           /\ \A n \in 0..Len(w) :
                 /\ SubSeq(w, 1, n) \in Logs
                 /\ Len(SubSeq(w, 1, n)) = n
                 /\ SubSeq(SubSeq(w, 1, n), 1, n) = SubSeq(w, 1, n)
           /\ \A n \in 0..Len(w), e \in Entry :
                 SubSeq(Append(w, e), 1, n) = SubSeq(w, 1, n)
  BY DEF Logs

\* Appending an entry keeps every prefix allowed if it keeps the whole allowed.
LEMMA PrefixAppend ==
    ASSUME NEW b, NEW w \in Logs, NEW e \in Entry,
           NEW s \in 0..Len(w), NEW t \in s..(Len(w) + 1), NEW A, NEW B,
           PrefixesAllowed(b, w, s, A),
           A \subseteq B \/ t = Len(w) + 1,
           Recover(b, Append(w, e)) \in B
    PROVE  PrefixesAllowed(b, Append(w, e), t, B)
<1> SUFFICES ASSUME NEW n \in t..Len(Append(w, e))
             PROVE  Recover(b, SubSeq(Append(w, e), 1, n)) \in B
  BY DEF PrefixesAllowed
<1>1. Append(w, e) \in Logs /\ Len(Append(w, e)) = Len(w) + 1 /\ Len(w) \in Nat
  BY AppendFacts
<1>2. CASE n = Len(w) + 1
  BY <1>1, <1>2, PrefixFacts
<1>3. CASE n # Len(w) + 1
  <2>1. n \in s..Len(w) /\ n \in 0..Len(w) /\ A \subseteq B
    BY <1>1, <1>3
  <2>2. SubSeq(Append(w, e), 1, n) = SubSeq(w, 1, n)
    BY <2>1, PrefixFacts
  <2> QED BY <2>1, <2>2 DEF PrefixesAllowed
<1> QED BY <1>2, <1>3

\* A store that the whole log leads to is among the allowed ones.
LEMMA PrefixWhole ==
    ASSUME NEW b, NEW w \in Logs, NEW s \in 0..Len(w), NEW A, PrefixesAllowed(b, w, s, A)
    PROVE  Recover(b, w) \in A
<1>1. Len(w) \in s..Len(w)
  BY DEF Logs
<1>2. Recover(b, SubSeq(w, 1, Len(w))) \in A
  BY <1>1 DEF PrefixesAllowed
<1> QED BY <1>2, PrefixFacts

\* With all of the log on stable storage there is one prefix to speak of.
LEMMA PrefixOne ==
    ASSUME NEW b, NEW w \in Logs, NEW A, Recover(b, w) \in A
    PROVE  PrefixesAllowed(b, w, Len(w), A)
<1>1. Len(w) \in Nat
  BY DEF Logs
<1>2. \A n \in Len(w)..Len(w) : n = Len(w)
  BY <1>1
<1> QED BY <1>2, PrefixFacts DEF PrefixesAllowed

-----------------------------------------------------------------------------
(* The types of what the actions compute. *)

LEMMA ContentsFacts == EmptyStore \in Stores /\ NoRecord \in Contents
  BY DEF EmptyStore, Stores, Contents

LEMMA BaseType ==
    ASSUME TypeOK
    PROVE  Base \in Stores /\ Recovered \in Stores /\ wal \in Logs
<1>1. Base \in Stores
  BY ContentsFacts, NoFileAssumption DEF TypeOK, Base
<1> QED BY <1>1, RecoverType DEF TypeOK, Recovered, Logs

LEMMA SequenceType ==
    ASSUME NEW S
    PROVE  /\ <<>> \in Seq(S) /\ Len(<<>>) = 0
           /\ \A s \in Seq(S) : s # <<>> => Head(s) \in S /\ Tail(s) \in Seq(S)
           /\ \A s \in Seq(S), x \in S :
                 Append(s, x) \in Seq(S) /\ Len(s) \in Nat /\ Len(Append(s, x)) = Len(s) + 1
  OBVIOUS

LEMMA EmptyLogType == <<>> \in Seq(Entry) /\ 0 \in 0..Len(<<>>)
  BY SequenceType

LEMMA ElementType ==
    ASSUME NEW S, NEW u \in Seq(S), NEW i \in DOMAIN u
    PROVE  u[i] \in S
  OBVIOUS

LEMMA FunctionIsSequence ==
    ASSUME NEW S, NEW n \in Nat, NEW f \in [1..n -> S]
    PROVE  f \in Seq(S)
  OBVIOUS

LEMMA UndoAllType ==
    ASSUME NEW s \in Stores, NEW u \in Seq([key : Keys, previous : Contents])
    PROVE  UndoAll(s, u) \in Stores
<1> SUFFICES ASSUME NEW k \in Keys
             PROVE  (IF Oldest(u, k) = {} THEN s[k]
                     ELSE u[CHOOSE i \in Oldest(u, k) : TRUE].previous) \in Contents
  BY DEF UndoAll, Stores
<1>1. CASE Oldest(u, k) = {}
  BY <1>1 DEF Stores
<1>2. CASE Oldest(u, k) # {}
  <2> DEFINE first == CHOOSE i \in Oldest(u, k) : TRUE
  <2>1. first \in DOMAIN u
    BY <1>2 DEF Oldest
  <2>2. u[first] \in [key : Keys, previous : Contents]
    <3> HIDE DEF first
    <3> QED BY <2>1, ElementType
  <2>3. u[first].previous \in Contents
    <3> HIDE DEF first
    <3> QED BY <2>2
  <2> QED BY <1>2, <2>3
<1> QED BY <1>1, <1>2

LEMMA OutcomeType ==
    ASSUME NEW s \in Stores, NEW ops \in Seq([key : Keys, val : Contents])
    PROVE  Outcome(s, ops) \in Stores
<1> DEFINE Ends(k) == {i \in DOMAIN ops :
                          /\ ops[i].key = k
                          /\ \A j \in DOMAIN ops : ops[j].key = k => j <= i}
           Val(k) == IF Ends(k) = {} THEN s[k] ELSE ops[CHOOSE i \in Ends(k) : TRUE].val
<1>1. ASSUME NEW k \in Keys
      PROVE  Val(k) \in Contents
  <2>1. CASE Ends(k) = {}
    BY <2>1 DEF Stores
  <2>2. CASE Ends(k) # {}
    <3> DEFINE l == CHOOSE i \in Ends(k) : TRUE
    <3>1. l \in DOMAIN ops
      BY <2>2
    <3>2. ops[l] \in [key : Keys, val : Contents]
      <4> HIDE DEF l
      <4> QED BY <3>1, ElementType
    <3>3. ops[l].val \in Contents
      <4> HIDE DEF l
      <4> QED BY <3>2
    <3> QED BY <2>2, <3>3
  <2> QED BY <2>1, <2>2
<1>2. Outcome(s, ops) = [k \in Keys |-> Val(k)]
  BY DEF Outcome
<1> HIDE DEF Val
<1> QED BY <1>1, <1>2 DEF Stores

LEMMA PutType ==
    ASSUME NEW s \in Stores, NEW k \in Keys, NEW c \in Contents
    PROVE  [s EXCEPT ![k] = c] \in Stores
  BY DEF Stores

\* What becomes of the log in an append that succeeds, and in one that fails.
LEMMA LogType ==
    ASSUME TypeOK, NEW e \in Entry
    PROVE  /\ Logged(e) => wal' \in Seq(Entry) /\ stable' \in 0..Len(wal')
           /\ LogFails(e) /\ UNCHANGED stable => wal' \in Seq(Entry) /\ stable' \in 0..Len(wal')
<1>1. wal \in Logs /\ stable \in 0..Len(wal) /\ Torn \in Entry
  BY EntryFacts DEF TypeOK, Logs
<1>2. \A x \in Entry : /\ Append(wal, x) \in Logs /\ Len(Append(wal, x)) = Len(wal) + 1
                       /\ Len(wal) \in Nat
  BY <1>1, AppendFacts
<1>3. ASSUME Logged(e)
      PROVE  wal' \in Seq(Entry) /\ stable' \in 0..Len(wal')
  <2>1. \/ UNCHANGED <<wal, stable>>
        \/ wal' = Append(wal, e) /\ stable' \in {stable, Len(wal) + 1}
    BY <1>3 DEF Logged, Append1
  <2> QED BY <1>1, <1>2, <2>1 DEF Logs
<1>4. ASSUME LogFails(e), UNCHANGED stable
      PROVE  wal' \in Seq(Entry) /\ stable' \in 0..Len(wal')
  <2>1. wal' = wal \/ \E x \in Entry : wal' = Append(wal, x)
    BY <1>1, <1>4 DEF LogFails
  <2>2. wal' \in Logs /\ Len(wal') \in {Len(wal), Len(wal) + 1}
    BY <1>1, <1>2, <2>1
  <2> QED BY <1>1, <1>2, <1>4, <2>2 DEF Logs
<1> QED BY <1>3, <1>4

LEMMA AcknowledgeType ==
    ASSUME TypeOK, NEW s \in Stores, NEW own \in BOOLEAN, Acknowledge(s, own)
    PROVE  live' \in Stores /\ allowed' \subseteq Stores /\ forfeited' \subseteq Causes
  BY DEF TypeOK, Acknowledge, Causes

LEMMA NewBaseType ==
    ASSUME TypeOK, NewBase
    PROVE  /\ live' \in Stores /\ goal' \in Stores
           /\ allowed' \subseteq Stores /\ forfeited' \subseteq Causes
  BY DEF TypeOK, NewBase, Causes

LEMMA GoDownType ==
    ASSUME TypeOK, GoDown
    PROVE  /\ handle' \in {"down", "open"} /\ fd' \in {"none", "live", "dead"}
           /\ durability' \in Durabilities \union {"none"} /\ segmented' \in BOOLEAN
           /\ mem' \in Stores /\ live' \in Stores /\ goal' \in Stores
           /\ pc' \in {"idle", "apply", "tidy", "reset"} /\ call' \in Calls \union {"none"}
           /\ todo' \in Seq([key : Keys, val : Contents])
           /\ undo' \in Seq([key : Keys, previous : Contents])
<1>1. \A S : <<>> \in Seq(S)
  OBVIOUS
<1> QED BY <1>1, ContentsFacts DEF GoDown

-----------------------------------------------------------------------------
(* Type correctness. *)

LEMMA TypeInit == Init => TypeOK
<1> SUFFICES ASSUME Init PROVE TypeOK
  OBVIOUS
<1>1. wal \in Seq(Entry) /\ stable \in 0..Len(wal)
  BY EmptyLogType DEF Init
<1>2. /\ todo \in Seq([key : Keys, val : Contents])
      /\ undo \in Seq([key : Keys, previous : Contents])
  BY SequenceType DEF Init
<1>3. mem \in Stores /\ live \in Stores /\ goal \in Stores /\ allowed \subseteq Stores
  BY ContentsFacts DEF Init
<1> QED BY <1>1, <1>2, <1>3 DEF Init, TypeOK

LEMMA TypeStep ==
    ASSUME TypeOK, [Next]_vars
    PROVE  TypeOK'
<1> USE DEF TypeOK
<1>0. /\ Base \in Stores /\ Recovered \in Stores
      /\ \A k \in Keys, c \in Contents : Put(k, c) \in Entry
      /\ TxnBegin \in Entry /\ TxnCommit \in Entry /\ Torn \in Entry
  BY BaseType, EntryFacts
<1>e. \A S : <<>> \in Seq(S) /\ Len(<<>>) = 0
  BY SequenceType
<1>1. ASSUME NEW d \in Durabilities, NEW s \in Layouts, Open(d, s)
      PROVE  TypeOK'
  BY <1>0, <1>1, ModesAssumption DEF Open, Causes, running
<1>2. ASSUME NEW k \in Keys, NEW c \in Contents, Write(k, c)
      PROVE  TypeOK'
  <2>1. wal' \in Seq(Entry) /\ stable' \in 0..Len(wal')
    BY <1>0, <1>2, LogType DEF Write
  <2>2. [live EXCEPT ![k] = c] \in Stores /\ mem' \in Stores
    BY <1>2, PutType DEF Write
  <2>3. live' \in Stores /\ allowed' \subseteq Stores /\ forfeited' \subseteq Causes
    BY <1>2, <2>2, AcknowledgeType DEF Write
  <2> QED BY <1>2, <2>1, <2>2, <2>3 DEF Write, session, running
<1>3. ASSUME NEW k \in Keys, NEW c \in Contents, WriteFails(k, c)
      PROVE  TypeOK'
  <2>1. wal' \in Seq(Entry) /\ stable' \in 0..Len(wal')
    BY <1>0, <1>3, LogType DEF WriteFails
  <2>2. forfeited' \subseteq Causes
    BY <1>3 DEF WriteFails, Causes
  <2> QED BY <1>3, <2>1, <2>2 DEF WriteFails, session, running
<1>4. ASSUME NEW batch \in Batches, Begin(batch)
      PROVE  TypeOK'
  <2>1. wal' \in Seq(Entry) /\ stable' \in 0..Len(wal')
    BY <1>0, <1>4, LogType DEF Begin
  <2>2. batch \in Seq([key : Keys, val : Contents])
    <3>1. PICK n \in 0..MaxBatch : batch \in [1..n -> [key : Keys, val : Contents]]
      BY DEF Batches
    <3>2. n \in Nat
      BY BoundsAssumption
    <3> QED BY <3>1, <3>2, FunctionIsSequence
  <2>3. goal' \in Stores
    BY <1>4, <2>2, OutcomeType DEF Begin
  <2> QED BY <1>4, <1>e, <2>1, <2>2, <2>3 DEF Begin, session
<1>5. CASE BeginFails
  <2>1. wal' \in Seq(Entry) /\ stable' \in 0..Len(wal')
    BY <1>0, <1>5, LogType DEF BeginFails
  <2> QED BY <1>5, <2>1 DEF BeginFails, session, running, promises
<1>6. CASE Apply
  <2> DEFINE op == Head(todo)
  <2>1. op \in [key : Keys, val : Contents] /\ Tail(todo) \in Seq([key : Keys, val : Contents])
    BY <1>6, SequenceType DEF Apply
  <2>2. op.key \in Keys /\ op.val \in Contents
    <3> HIDE DEF op
    <3> QED BY <2>1
  <2>3. [key |-> op.key, previous |-> mem[op.key]] \in [key : Keys, previous : Contents]
    <3> HIDE DEF op
    <3> QED BY <2>2 DEF Stores
  <2>4. undo' \in Seq([key : Keys, previous : Contents])
    <3>1. undo' = Append(undo, [key |-> op.key, previous |-> mem[op.key]])
      BY <1>6 DEF Apply
    <3> HIDE DEF op
    <3> QED BY <2>3, <3>1
  <2>5. wal' \in Seq(Entry) /\ stable' \in 0..Len(wal')
    <3>1. UNCHANGED <<wal, stable>> \/ Logged(Put(op.key, op.val))
      BY <1>6 DEF Apply
    <3> HIDE DEF op
    <3> QED BY <1>0, <2>2, <3>1, LogType
  <2>6. mem' \in Stores
    <3>1. UNCHANGED mem \/ mem' = [mem EXCEPT ![op.key] = op.val]
      BY <1>6 DEF Apply
    <3> HIDE DEF op
    <3> QED BY <2>2, <3>1, PutType
  <2> QED BY <1>6, <2>1, <2>4, <2>5, <2>6 DEF Apply, session, promises
<1>7. CASE ApplyFails
  <2> DEFINE op == Head(todo)
  <2>1. op \in [key : Keys, val : Contents]
    BY <1>7, SequenceType DEF ApplyFails
  <2>2. Put(op.key, op.val) \in Entry
    <3> HIDE DEF op
    <3> QED BY <1>0, <2>1
  <2>3. wal' \in Seq(Entry) /\ stable' \in 0..Len(wal')
    BY <1>7, <2>2, LogType DEF ApplyFails
  <2>4. mem' \in Stores
    BY <1>7, UndoAllType DEF ApplyFails
  <2> QED BY <1>7, <1>e, <2>3, <2>4, ContentsFacts DEF ApplyFails, EndCall, session
<1>8. CASE Commit
  <2>1. wal' \in Seq(Entry) /\ stable' \in 0..Len(wal')
    BY <1>0, <1>8, LogType DEF Commit
  <2>2. live' \in Stores /\ allowed' \subseteq Stores /\ forfeited' \subseteq Causes
    BY <1>0, <1>8, AcknowledgeType DEF Commit
  <2> QED BY <1>8, <1>e, <2>1, <2>2, ContentsFacts DEF Commit, EndCall, session
<1>9. CASE CommitFails
  <2>1. wal' \in Seq(Entry) /\ stable' \in 0..Len(wal')
    BY <1>0, <1>9, LogType DEF CommitFails
  <2> QED BY <1>9, <1>e, <2>1, ContentsFacts DEF CommitFails, EndCall, session, Causes
<1>10. ASSUME NEW c \in Calls, Publish(c)
       PROVE  TypeOK'
  <2>1. /\ live' \in Stores /\ goal' \in Stores
        /\ allowed' \subseteq Stores /\ forfeited' \subseteq Causes
    BY <1>10, NewBaseType DEF Publish, promises
  <2> QED BY <1>10, <2>1 DEF Publish, session
<1>11. CASE Tidy
  <2>1. /\ live' \in Stores /\ goal' \in Stores
        /\ allowed' \subseteq Stores /\ forfeited' \subseteq Causes
    BY <1>11, NewBaseType DEF Tidy, promises, Causes
  <2> QED BY <1>11, <2>1 DEF Tidy, session
<1>12. CASE Reset
  <2>0. wal' \in Seq(Entry) /\ stable' \in 0..Len(wal')
    <3>1. UNCHANGED <<wal, stable>> \/ (wal' = <<>> /\ stable' = 0)
      BY <1>12 DEF Reset
    <3> QED BY <3>1, EmptyLogType
  <2>1. /\ walfile' \in {"absent", "new", "durable"}
        /\ allowed' \subseteq Stores /\ forfeited' \subseteq Causes
        /\ UNCHANGED <<snapshot, manifest, segments>>
    BY <1>12 DEF Reset
  <2>2. CASE GoDown
    BY <2>0, <2>1, <2>2, GoDownType
  <2>3. CASE ~GoDown
    BY <1>12, <2>0, <2>1, <2>3 DEF Reset
  <2> QED BY <2>2, <2>3
<1>13. CASE ResetFails
  <2>1. wal' \in Seq(Entry) /\ stable' \in 0..Len(wal')
    <3>1. UNCHANGED <<wal, stable>> \/ (wal' = <<>> /\ stable' = 0)
      BY <1>13 DEF ResetFails
    <3> QED BY <3>1, EmptyLogType
  <2> QED BY <1>13, <2>1 DEF ResetFails, promises
<1>14. CASE Abandon
  BY <1>14, GoDownType DEF Abandon, disk
<1>15. CASE Crash
  BY <1>15, GoDownType DEF Crash, disk
<1>16. CASE CrashInAppend
  <2>1. ASSUME NEW e \in Entry, NEW outcome \in Stores, CrashInside(e, outcome)
        PROVE  TypeOK'
    <3>1. /\ Append(wal, e) \in Seq(Entry) /\ Append(wal, Torn) \in Seq(Entry)
          /\ Len(wal) \in Nat
          /\ Len(Append(wal, e)) = Len(wal) + 1 /\ Len(Append(wal, Torn)) = Len(wal) + 1
      BY <1>0, SequenceType
    <3>2. wal' \in Seq(Entry) /\ stable' \in 0..Len(wal')
      <4>1. wal' \in {Append(wal, e), Append(wal, Torn)} /\ stable' = stable
        BY <2>1 DEF CrashInside
      <4>2. stable \in 0..(Len(wal) + 1)
        BY <3>1
      <4> QED BY <3>1, <4>1, <4>2
    <3>3. allowed' \subseteq Stores
      BY <2>1 DEF CrashInside
    <3> QED BY <2>1, <3>2, <3>3, GoDownType DEF CrashInside
  <2>2. CASE \/ CrashInside(TxnBegin, live)
             \/ CrashInside(TxnCommit, goal)
    BY <1>0, <2>1, <2>2
  <2>3. ASSUME NEW k \in Keys, NEW c \in Contents,
               \/ CrashInside(Put(k, c), [live EXCEPT ![k] = c])
               \/ CrashInside(Put(k, c), live)
        PROVE  TypeOK'
    BY <1>0, <2>1, <2>3, PutType
  <2>4. CASE todo # <<>> /\ CrashInside(Put(Head(todo).key, Head(todo).val), live)
    <3>1. Head(todo) \in [key : Keys, val : Contents]
      BY <2>4, SequenceType
    <3>2. Head(todo).key \in Keys /\ Head(todo).val \in Contents
      BY <3>1
    <3> QED BY <2>3, <2>4, <3>2
  <2> QED BY <1>16, <2>2, <2>3, <2>4 DEF CrashInAppend
<1>17. CASE PowerLoss
  <2>1. wal' \in Seq(Entry) /\ stable' \in 0..Len(wal')
    <3>1. ASSUME NEW n \in stable..Len(wal),
                 \/ wal' = SubSeq(wal, 1, n) /\ stable' = n
                 \/ wal' = Append(SubSeq(wal, 1, n), Torn) /\ stable' = n + 1
          PROVE  wal' \in Seq(Entry) /\ stable' \in 0..Len(wal')
      <4>1. n \in 0..Len(wal)
        OBVIOUS
      <4>2. SubSeq(wal, 1, n) \in Seq(Entry) /\ Len(SubSeq(wal, 1, n)) = n
        BY <4>1, PrefixFacts DEF Logs
      <4>3. /\ Append(SubSeq(wal, 1, n), Torn) \in Seq(Entry)
            /\ Len(Append(SubSeq(wal, 1, n), Torn)) = n + 1
        BY <1>0, <4>2, SequenceType
      <4>4. n \in 0..n /\ n + 1 \in 0..(n + 1)
        BY <4>1
      <4> HIDE DEF TypeOK
      <4> QED BY <3>1, <4>2, <4>3, <4>4
    <3>2. CASE wal' = <<>> /\ stable' = 0
      BY <3>2, <1>e
    <3> QED BY <1>17, <3>1, <3>2 DEF PowerLoss
  <2>2. walfile' \in {"absent", "new", "durable"} /\ forfeited' \subseteq Causes
    BY <1>17 DEF PowerLoss, Causes
  <2> QED BY <1>17, <2>1, <2>2, GoDownType DEF PowerLoss
<1>18. CASE UNCHANGED vars
  BY <1>18 DEF vars, disk, session, running, promises
<1> QED
  BY <1>1, <1>2, <1>3, <1>4, <1>5, <1>6, <1>7, <1>8, <1>9, <1>10, <1>11, <1>12,
     <1>13, <1>14, <1>15, <1>16, <1>17, <1>18 DEF Next

\* Every variable of the engine keeps its type, whatever fails: forfeited and
\* allowed included, so the yardstick of the other properties is well defined.
THEOREM TypeCorrect == Spec => []TypeOK
  BY TypeInit, TypeStep, PTL DEF Spec

-----------------------------------------------------------------------------
(* The undo log. *)

UndoEntry == [key : Keys, previous : Contents]

\* A key that was captured at all has a first capture.
LEMMA HasOldest ==
    ASSUME NEW u \in Seq(UndoEntry), NEW i \in DOMAIN u
    PROVE  Oldest(u, u[i].key) # {}
<1> DEFINE T == {j \in DOMAIN u : u[j].key = u[i].key}
<1>1. T \subseteq Nat /\ T # {} /\ T \subseteq DOMAIN u
  OBVIOUS
<1>2. PICK x \in T : \A y \in T : x <= y
  <2> HIDE DEF T
  <2> QED BY <1>1, LeastNumber
<1> QED BY <1>2 DEF Oldest

\* A further capture of a key leaves the first capture where it is.
LEMMA OldestAppend ==
    ASSUME NEW u \in Seq(UndoEntry), NEW x \in UndoEntry, NEW k \in Keys
    PROVE  Oldest(Append(u, x), k) =
             IF Oldest(u, k) = {} /\ x.key = k THEN {Len(u) + 1} ELSE Oldest(u, k)
<1> DEFINE v == Append(u, x)
<1>1. /\ Len(u) \in Nat /\ DOMAIN u = 1..Len(u) /\ DOMAIN v = 1..(Len(u) + 1)
      /\ v[Len(u) + 1] = x /\ \A i \in 1..Len(u) : v[i] = u[i]
  OBVIOUS
<1> HIDE DEF v
<1>2. CASE Oldest(u, k) = {}
  <2>1. \A i \in 1..Len(u) : u[i].key # k
    BY <1>1, <1>2, HasOldest
  <2>2. \A i \in 1..(Len(u) + 1) : v[i].key = k => i = Len(u) + 1 /\ x.key = k
    BY <1>1, <2>1
  <2>3. CASE x.key = k
    <3>1. \A i : i \in Oldest(v, k) <=> i = Len(u) + 1
      BY <1>1, <2>2, <2>3 DEF Oldest
    <3> QED BY <1>2, <2>3, <3>1 DEF v
  <2>4. CASE x.key # k
    <3>1. \A i : i \notin Oldest(v, k)
      BY <1>1, <2>2, <2>4 DEF Oldest
    <3> QED BY <1>2, <2>4, <3>1 DEF v
  <2> QED BY <2>3, <2>4
<1>3. CASE Oldest(u, k) # {}
  <2>1. PICK o \in Oldest(u, k) : TRUE
    BY <1>3
  <2>2. o \in 1..Len(u) /\ u[o].key = k /\ v[o].key = k
    BY <1>1, <2>1 DEF Oldest
  <2>3. ASSUME NEW i, i \in Oldest(v, k)
        PROVE  i \in Oldest(u, k)
    <3>1. i \in 1..(Len(u) + 1) /\ i <= o
      BY <1>1, <2>2, <2>3 DEF Oldest
    <3>2. i \in 1..Len(u)
      BY <1>1, <2>2, <3>1
    <3> QED BY <1>1, <2>3, <3>2 DEF Oldest
  <2>4. ASSUME NEW i, i \in Oldest(u, k)
        PROVE  i \in Oldest(v, k)
    <3>1. i \in 1..Len(u) /\ v[i].key = k
      BY <1>1, <2>4 DEF Oldest
    <3>2. ASSUME NEW j \in 1..(Len(u) + 1), v[j].key = k
          PROVE  i <= j
      <4>1. CASE j = Len(u) + 1
        BY <1>1, <3>1, <4>1
      <4>2. CASE j # Len(u) + 1
        BY <1>1, <2>4, <3>2, <4>2 DEF Oldest
      <4> QED BY <4>1, <4>2
    <3> QED BY <1>1, <3>1, <3>2 DEF Oldest
  <2>5. Oldest(v, k) = Oldest(u, k)
    BY <2>3, <2>4
  <2> QED BY <1>3, <2>5 DEF v
<1> QED BY <1>2, <1>3

\* What an operation does to a record, its capture takes back.
LEMMA UndoAppend ==
    ASSUME NEW s \in Stores, NEW u \in Seq(UndoEntry),
           NEW k \in Keys, NEW t \in Stores, NEW c \in Contents, t = [s EXCEPT ![k] = c]
    PROVE  UndoAll(t, Append(u, [key |-> k, previous |-> s[k]])) = UndoAll(s, u)
<1> DEFINE x == [key |-> k, previous |-> s[k]]
           v == Append(u, x)
<1>0. x \in UndoEntry /\ x.key = k /\ x.previous = s[k]
  BY DEF UndoEntry, Stores
<1>1. /\ Len(u) \in Nat /\ DOMAIN u = 1..Len(u) /\ DOMAIN v = 1..(Len(u) + 1)
      /\ v[Len(u) + 1] = x /\ \A i \in 1..Len(u) : v[i] = u[i]
  <2> HIDE DEF x
  <2> QED BY <1>0
<1>2. \A l \in Keys : Oldest(v, l) =
          IF Oldest(u, l) = {} /\ x.key = l THEN {Len(u) + 1} ELSE Oldest(u, l)
  <2> HIDE DEF x
  <2> QED BY <1>0, OldestAppend
<1>3. ASSUME NEW l \in Keys
      PROVE  (IF Oldest(v, l) = {} THEN t[l]
              ELSE v[CHOOSE i \in Oldest(v, l) : TRUE].previous) =
             (IF Oldest(u, l) = {} THEN s[l]
              ELSE u[CHOOSE i \in Oldest(u, l) : TRUE].previous)
  <2> HIDE DEF v
  <2>1. CASE Oldest(u, l) = {} /\ l = k
    <3>1. Oldest(v, l) = {Len(u) + 1}
      BY <1>0, <1>2, <2>1
    <3>2. (CHOOSE i \in Oldest(v, l) : TRUE) = Len(u) + 1
      BY <3>1
    <3> QED BY <1>0, <1>1, <2>1, <3>1, <3>2
  <2>2. CASE Oldest(u, l) = {} /\ l # k
    <3>1. Oldest(v, l) = {}
      BY <1>0, <1>2, <2>2
    <3> QED BY <2>2, <3>1 DEF Stores
  <2>3. CASE Oldest(u, l) # {}
    <3>1. Oldest(v, l) = Oldest(u, l)
      BY <1>2, <2>3
    <3>2. (CHOOSE i \in Oldest(u, l) : TRUE) \in Oldest(u, l)
      BY <2>3
    <3>3. (CHOOSE i \in Oldest(u, l) : TRUE) \in 1..Len(u)
      BY <1>1, <3>2 DEF Oldest
    <3> QED BY <1>1, <2>3, <3>1, <3>3
  <2> QED BY <2>1, <2>2, <2>3
<1> HIDE DEF v
<1>4. UndoAll(t, v) = UndoAll(s, u)
  BY <1>3 DEF UndoAll
<1> QED BY <1>4 DEF v

LEMMA UndoNothing ==
    ASSUME NEW s \in Stores
    PROVE  UndoAll(s, <<>>) = s
<1>1. \A k : Oldest(<<>>, k) = {}
  BY DEF Oldest
<1> QED BY <1>1 DEF UndoAll, Stores

-----------------------------------------------------------------------------
(* The outcome of a batch. *)

Op == [key : Keys, val : Contents]

\* An operation applied is an operation less to come.
LEMMA OutcomeStep ==
    ASSUME NEW s \in Stores, NEW ops \in Seq(Op), ops # <<>>
    PROVE  Outcome([s EXCEPT ![Head(ops).key] = Head(ops).val], Tail(ops)) = Outcome(s, ops)
<1> DEFINE rest == Tail(ops)
           t == [s EXCEPT ![Head(ops).key] = Head(ops).val]
           On(l, k) == {i \in DOMAIN l : l[i].key = k}
           Ends(l, k) == {i \in DOMAIN l : /\ l[i].key = k
                                          /\ \A j \in DOMAIN l : l[j].key = k => j <= i}
           Val(r, l, k) == IF Ends(l, k) = {} THEN r[k]
                           ELSE l[CHOOSE i \in Ends(l, k) : TRUE].val
<1>1. /\ rest \in Seq(Op) /\ Len(ops) \in Nat /\ Len(ops) >= 1
      /\ Head(ops) = ops[1] /\ ops[1] \in Op
      /\ DOMAIN ops = 1..Len(ops) /\ DOMAIN rest = 1..(Len(ops) - 1)
      /\ \A i \in 1..(Len(ops) - 1) : rest[i] = ops[i + 1]
  OBVIOUS
<1> HIDE DEF rest
<1>2. ASSUME NEW l \in Seq(Op), NEW k \in Keys, On(l, k) # {}
      PROVE  Ends(l, k) # {}
  <2>1. On(l, k) \subseteq 0..Len(l) /\ Len(l) \in Nat
    OBVIOUS
  <2>2. PICK x \in On(l, k) : \A y \in On(l, k) : y <= x
    <3> HIDE DEF On
    <3> QED BY <1>2, <2>1, GreatestNumber
  <2>3. x \in Ends(l, k)
    BY <2>2
  <2> QED BY <2>3
<1>3. ASSUME NEW k \in Keys
      PROVE  Val(t, rest, k) = Val(s, ops, k)
  <2>1. CASE Ends(rest, k) # {}
    <3> DEFINE x == CHOOSE i \in Ends(rest, k) : TRUE
    <3>1. x \in Ends(rest, k)
      BY <2>1
    <3> HIDE DEF x
    <3>2. x \in 1..(Len(ops) - 1) /\ ops[x + 1].key = k
      BY <1>1, <3>1
    <3>3. ASSUME NEW j \in 1..Len(ops), ops[j].key = k
          PROVE  j <= x + 1
      <4>1. CASE j = 1
        BY <1>1, <3>2, <4>1
      <4>2. CASE j # 1
        <5>1. j - 1 \in 1..(Len(ops) - 1) /\ rest[j - 1] = ops[j]
          BY <1>1, <4>2
        <5>2. j - 1 <= x
          BY <1>1, <3>1, <3>3, <5>1
        <5> QED BY <1>1, <3>2, <5>2
      <4> QED BY <4>1, <4>2
    <3>4. x + 1 \in Ends(ops, k)
      BY <1>1, <3>2, <3>3
    <3>5. \A i \in Ends(ops, k) : i = x + 1
      BY <1>1, <3>2, <3>3, <3>4
    <3>6. (CHOOSE i \in Ends(ops, k) : TRUE) = x + 1
      <4> HIDE DEF Ends
      <4> QED BY <3>4, <3>5
    <3>7. Val(s, ops, k) = ops[x + 1].val
      <4> HIDE DEF Ends
      <4> QED BY <3>4, <3>6
    <3>8. Val(t, rest, k) = rest[x].val
      <4> HIDE DEF Ends
      <4> QED BY <2>1 DEF x
    <3> HIDE DEF Val
    <3> QED BY <1>1, <3>2, <3>7, <3>8
  <2>2. CASE Ends(rest, k) = {}
    <3>1. \A i \in 1..(Len(ops) - 1) : ops[i + 1].key # k
      <4>1. On(rest, k) = {}
        <5> HIDE DEF On, Ends
        <5> QED BY <1>1, <1>2, <2>2
      <4> QED BY <1>1, <4>1
    <3>2. \A j \in 1..Len(ops) : ops[j].key = k => j = 1
      <4>1. SUFFICES ASSUME NEW j \in 1..Len(ops), j # 1
                     PROVE  ops[j].key # k
        OBVIOUS
      <4>2. j - 1 \in 1..(Len(ops) - 1) /\ ops[(j - 1) + 1] = ops[j]
        BY <1>1, <4>1
      <4> QED BY <3>1, <4>2
    <3>3. CASE ops[1].key = k
      <4>1. Ends(ops, k) = {1}
        <5>1. \A i : i \in Ends(ops, k) <=> i = 1
          BY <1>1, <3>2, <3>3
        <5> HIDE DEF Ends
        <5> QED BY <5>1
      <4>2. (CHOOSE i \in Ends(ops, k) : TRUE) = 1
        <5> HIDE DEF Ends
        <5> QED BY <4>1
      <4>3. Val(s, ops, k) = ops[1].val
        <5> HIDE DEF Ends
        <5> QED BY <4>1, <4>2
      <4>4. t[k] = ops[1].val
        BY <1>1, <3>3 DEF Stores
      <4> HIDE DEF t
      <4> QED BY <2>2, <4>3, <4>4
    <3>4. CASE ops[1].key # k
      <4>1. Ends(ops, k) = {}
        BY <1>1, <3>2, <3>4
      <4>2. t[k] = s[k]
        BY <1>1, <3>4 DEF Stores
      <4> HIDE DEF t, Ends
      <4> QED BY <2>2, <4>1, <4>2
    <3> QED BY <3>3, <3>4
  <2> QED BY <2>1, <2>2
<1>4. /\ Outcome(t, rest) = [k \in Keys |-> Val(t, rest, k)]
      /\ Outcome(s, ops) = [k \in Keys |-> Val(s, ops, k)]
  BY DEF Outcome
<1>5. Outcome(t, rest) = Outcome(s, ops)
  <2> HIDE DEF Val, t
  <2> QED BY <1>3, <1>4
<1> QED BY <1>5 DEF rest

LEMMA OutcomeNothing ==
    ASSUME NEW s \in Stores
    PROVE  Outcome(s, <<>>) = s
  BY DEF Outcome, Stores

-----------------------------------------------------------------------------
(* The steps of a session.  Each lemma takes IInv through one action, with   *)
(* one step for each part of it that the action can disturb.                 *)

LEMMA SameFiles ==
    ASSUME UNCHANGED <<snapshot, manifest, segments>>
    PROVE  Base' = Base /\ DiskReadable' = DiskReadable
  BY DEF Base, DiskReadable

\* What an append that threw may have left behind.
LEMMA LogFailsFacts ==
    ASSUME TypeOK, NEW e \in Entry, LogFails(e)
    PROVE  \/ wal' = wal
           \/ fd = "live" /\ wal' = Append(wal, Torn)
           \/ fd = "live" /\ wal' = Append(wal, e)
  BY DEF LogFails, CanAppend

\* An entry that recovers to the same store disturbs no prefix.
LEMMA PrefixesKept ==
    ASSUME IInv, UNCHANGED <<snapshot, manifest, segments, stable>>, allowed \subseteq allowed',
           forfeited \subseteq forfeited', NEW e \in Entry,
           wal' = wal \/ (wal' = Append(wal, e) /\ Recover(Base, wal') = Recover(Base, wal))
    PROVE  PrefixInv'
<1> SUFFICES ASSUME forfeited' = {}
             PROVE  PrefixesAllowed(Base', wal', stable', allowed')
  BY DEF PrefixInv
<1>1. /\ wal \in Logs /\ stable \in 0..Len(wal) /\ Base' = Base /\ stable' = stable
      /\ PrefixesAllowed(Base, wal, stable, allowed) /\ Len(wal) \in Nat
  BY BaseType, SameFiles, AppendFacts DEF IInv, TypeOK, PrefixInv
<1>2. Recover(Base, wal) \in allowed
  BY <1>1, PrefixWhole
<1>3. CASE wal' = wal
  BY <1>1, <1>3 DEF PrefixesAllowed
<1>4. CASE wal' = Append(wal, e) /\ Recover(Base, wal') = Recover(Base, wal)
  <2>1. stable \in stable..(Len(wal) + 1) /\ Recover(Base, Append(wal, e)) \in allowed'
    BY <1>1, <1>2, <1>4
  <2>2. PrefixesAllowed(Base, Append(wal, e), stable, allowed')
    BY <1>1, <2>1, PrefixAppend
  <2> QED BY <1>1, <1>4, <2>2
<1> QED BY <1>3, <1>4

LEMMA WriteStep ==
    ASSUME IInv, TypeOK', NEW k \in Keys, NEW c \in Contents, Write(k, c)
    PROVE  IInv'
<1>1. /\ TypeOK /\ pc = "idle" /\ pc' = "idle" /\ handle = "open"
      /\ UNCHANGED <<handle, durability, segmented, fd, call, todo, undo>>
      /\ UNCHANGED <<snapshot, manifest, segments>>
      /\ mem' = [mem EXCEPT ![k] = c] /\ live' = [live EXCEPT ![k] = c]
      /\ forfeited \subseteq forfeited'
  BY DEF IInv, Write, Idle, Acknowledge, session, running
<1>2. /\ wal \in Logs /\ Len(wal) \in Nat /\ stable \in 0..Len(wal) /\ Base' = Base
      /\ Put(k, c) \in Entry
  BY <1>1, BaseType, SameFiles, EntryFacts, AppendFacts DEF TypeOK
<1>3. SessionInv' /\ CheckpointInv' /\ AlwaysReadable'
  BY <1>1, SameFiles DEF IInv, SessionInv, CheckpointInv, AlwaysReadable
<1>4. MemoryInv'
  BY <1>1 DEF IInv, MemoryInv
<1>5. ASSUME fd # "none"
      PROVE  /\ wal' = Append(wal, Put(k, c))
             /\ stable' = IF durability # "relaxed" THEN Len(wal) + 1 ELSE stable
             /\ forfeited' \subseteq {"unsynced_log"} => Clean(wal)
    <2>1. Logged(Put(k, c)) /\ Acknowledge([live EXCEPT ![k] = c], FALSE)
      BY DEF Write
    <2>2. fd = "live"
      BY <1>5, <2>1 DEF Logged, CanAppend
    <2>3. forfeited' \subseteq {"unsynced_log"} => Clean(wal)
      BY <2>1, <2>2 DEF Acknowledge, Clean
    <2> QED BY <1>5, <2>1, <2>3 DEF Logged, Append1, SyncEachWrite
<1>6. ASSUME fd # "none", forfeited' \subseteq {"unsynced_log"}
      PROVE  Recover(Base, wal') = mem'
  <2>1. Recover(Base, wal) = mem
    BY <1>1, <1>6 DEF IInv, LogInv, Recovered
  <2>2. Clean(wal) /\ wal' = Append(wal, Put(k, c))
    BY <1>5, <1>6
  <2>3. Recover(Base, Append(wal, Put(k, c))) = [Recover(Base, wal) EXCEPT ![k] = c]
    BY <1>2, <2>2, RecoverPutClean
  <2> QED BY <1>1, <2>1, <2>2, <2>3
<1>7. LogInv'
  BY <1>1, <1>2, <1>6 DEF LogInv, Recovered
<1>8. PrefixInv'
  <2>1. SUFFICES ASSUME forfeited' = {}
                 PROVE  PrefixesAllowed(Base', wal', stable', allowed')
    BY DEF PrefixInv
  <2>2. PrefixesAllowed(Base, wal, stable, allowed)
    BY <1>1, <2>1 DEF IInv, PrefixInv
  <2>3. CASE fd = "none"
    <3>1. wal' = wal /\ stable' = stable /\ allowed' = allowed
      BY <2>3 DEF Write, Logged, CanAppend, Acknowledge
    <3> QED BY <1>2, <2>2, <3>1
  <2>4. CASE fd # "none"
    <3>1. live' = mem'
      BY <1>1, <2>1 DEF IInv, MemoryInv
    <3>2. Recover(Base, Append(wal, Put(k, c))) = live'
      BY <1>5, <1>6, <2>1, <2>4, <3>1
    <3>3. allowed' = IF durability = "relaxed" THEN allowed \union {live'} ELSE {live'}
      BY <2>4, <1>1 DEF Write, Acknowledge
    <3>4. /\ stable' \in stable..(Len(wal) + 1)
          /\ allowed \subseteq allowed' \/ stable' = Len(wal) + 1
          /\ Recover(Base, Append(wal, Put(k, c))) \in allowed'
      BY <1>2, <1>5, <2>4, <3>2, <3>3
    <3>5. PrefixesAllowed(Base, Append(wal, Put(k, c)), stable', allowed')
      BY <1>2, <2>2, <3>4, PrefixAppend
    <3> QED BY <1>2, <1>5, <2>4, <3>5
  <2> QED BY <2>3, <2>4
<1> QED BY <1>3, <1>4, <1>7, <1>8 DEF IInv

LEMMA WriteFailsStep ==
    ASSUME IInv, TypeOK', NEW k \in Keys, NEW c \in Contents, WriteFails(k, c)
    PROVE  IInv'
<1>1. /\ TypeOK /\ pc = "idle" /\ pc' = "idle" /\ handle = "open"
      /\ UNCHANGED <<handle, durability, segmented, fd, call, todo, undo>>
      /\ UNCHANGED <<snapshot, manifest, segments, stable, mem, live, allowed>>
      /\ forfeited \subseteq forfeited'
  BY DEF IInv, WriteFails, Idle, session, running
<1>2. /\ wal \in Logs /\ Base' = Base /\ Put(k, c) \in Entry /\ Torn \in Entry
      /\ Torn.op = "torn" /\ IsPut(Put(k, c))
  BY <1>1, BaseType, SameFiles, EntryFacts
<1>3. SessionInv' /\ MemoryInv' /\ CheckpointInv' /\ AlwaysReadable'
  BY <1>1, SameFiles
  DEF IInv, SessionInv, MemoryInv, CheckpointInv, AlwaysReadable
<1>4. \/ wal' = wal
      \/ wal' = Append(wal, Torn)
      \/ wal' = Append(wal, Put(k, c))
  BY <1>1, <1>2, LogFailsFacts DEF WriteFails
<1>5. ASSUME forfeited' \subseteq {"unsynced_log"}, wal' = Append(wal, Put(k, c))
      PROVE  Recover(Base, wal') = Recover(Base, wal)
  <2>1. ~Clean(wal)
    BY <1>5 DEF WriteFails
  <2> QED BY <1>2, <1>5, <2>1, RecoverHidden, RecoverPutInTxn DEF Clean
<1>6. ASSUME wal' = Append(wal, Torn)
      PROVE  Recover(Base, wal') = Recover(Base, wal)
  BY <1>2, <1>6, RecoverHidden
<1>7. ASSUME forfeited' \subseteq {"unsynced_log"}
      PROVE  Recover(Base, wal') = Recover(Base, wal)
  BY <1>4, <1>5, <1>6, <1>7
<1>8. LogInv'
  BY <1>1, <1>2, <1>7 DEF IInv, LogInv, Recovered
<1>9. PrefixInv'
  <2>1. CASE forfeited' = {}
    <3>1. Recover(Base, wal') = Recover(Base, wal)
      BY <1>7, <2>1
    <3> QED BY <1>1, <1>2, <1>4, <3>1, PrefixesKept
  <2>2. CASE forfeited' # {}
    BY <2>2 DEF PrefixInv
  <2> QED BY <2>1, <2>2
<1> QED BY <1>3, <1>8, <1>9 DEF IInv

LEMMA BeginStep ==
    ASSUME IInv, TypeOK', NEW batch \in Batches, Begin(batch)
    PROVE  IInv'
<1>1. /\ TypeOK /\ pc = "idle" /\ pc' = "apply" /\ handle = "open" /\ undo' = <<>>
      /\ UNCHANGED <<handle, durability, segmented, fd, call>>
      /\ UNCHANGED <<snapshot, manifest, segments, mem, live, allowed, forfeited>>
  BY DEF IInv, Begin, Idle, session, promises
<1>2. /\ wal \in Logs /\ Base' = Base /\ TxnBegin \in Entry /\ TxnBegin.op = "txn_begin"
      /\ stable \in 0..Len(wal) /\ Len(wal) \in Nat
  BY <1>1, BaseType, SameFiles, EntryFacts, AppendFacts DEF TypeOK
<1>3. Logged(TxnBegin)
  BY DEF Begin
<1>4. fd # "none" =>
        /\ fd = "live" /\ wal' = Append(wal, TxnBegin)
        /\ stable' = IF durability # "relaxed" THEN Len(wal) + 1 ELSE stable
  BY <1>3 DEF Logged, CanAppend, Append1, SyncEachWrite
<1>5. Recover(Base, Append(wal, TxnBegin)) = Recover(Base, wal)
  BY <1>2, RecoverBegin
<1>6. SessionInv'
  <2>1. fd = "dead" => FALSE
    BY <1>4 DEF SessionInv
  <2>2. fd = "live" => InTxn(wal', Len(wal'))
    <3>1. SUFFICES ASSUME fd = "live"
                   PROVE  InTxn(wal', Len(wal'))
      OBVIOUS
    <3>2. /\ wal' = Append(wal, TxnBegin) /\ Len(wal') = Len(wal) + 1
          /\ wal'[Len(wal) + 1] = TxnBegin
      BY <1>2, <1>4, <3>1, AppendFacts
    <3> QED BY <1>2, <3>2 DEF InTxn
  <2> QED BY <1>1, <2>1, <2>2 DEF IInv, SessionInv
<1>7. MemoryInv'
  <2>1. UndoAll(mem, <<>>) = mem
    BY <1>1, UndoNothing DEF TypeOK
  <2>2. goal' = Outcome(live, todo')
    BY DEF Begin
  <2> QED BY <1>1, <2>1, <2>2 DEF IInv, MemoryInv
<1>8. CheckpointInv' /\ AlwaysReadable'
  BY <1>1, SameFiles DEF IInv, CheckpointInv, AlwaysReadable
<1>9. LogInv'
  <2>1. SUFFICES ASSUME fd # "none", forfeited \subseteq {"unsynced_log"}
                 PROVE  /\ Recovered' = live
                        /\ Intact(wal') => RecoverIfCommitted(Base, wal') = mem
    BY <1>1, <1>2 DEF LogInv
  <2>2. Recovered = mem
    BY <1>1, <2>1 DEF IInv, LogInv
  <2>3. live = mem
    BY <1>1, <2>1 DEF IInv, MemoryInv
  <2>4. wal' = Append(wal, TxnBegin)
    BY <1>4, <2>1
  <2>5. ASSUME Intact(wal')
        PROVE  RecoverIfCommitted(Base, wal') = mem
    <3>1. Intact(wal)
      BY <1>2, <2>4, <2>5, ReadableHidden
    <3> QED BY <1>2, <2>2, <2>4, <3>1, IfCommittedAfterBegin DEF Recovered
  <2> QED BY <1>2, <1>5, <2>2, <2>3, <2>4, <2>5 DEF Recovered
<1>10. PrefixInv'
  <2>1. SUFFICES ASSUME forfeited = {}
                 PROVE  PrefixesAllowed(Base, wal', stable', allowed)
    BY <1>1, <1>2 DEF PrefixInv
  <2>2. PrefixesAllowed(Base, wal, stable, allowed)
    BY <2>1 DEF IInv, PrefixInv
  <2>3. Recover(Base, Append(wal, TxnBegin)) \in allowed
    BY <1>2, <1>5, <2>2, PrefixWhole
  <2>4. CASE fd = "none"
    BY <1>3, <2>2, <2>4 DEF Logged, CanAppend
  <2>5. CASE fd # "none"
    <3>1. stable' \in stable..(Len(wal) + 1)
      BY <1>2, <1>4, <2>5
    <3>2. PrefixesAllowed(Base, Append(wal, TxnBegin), stable', allowed)
      BY <1>2, <2>2, <2>3, <3>1, PrefixAppend
    <3> QED BY <1>4, <2>5, <3>2
  <2> QED BY <2>4, <2>5
<1> QED BY <1>6, <1>7, <1>8, <1>9, <1>10 DEF IInv

LEMMA BeginFailsStep ==
    ASSUME IInv, TypeOK', BeginFails
    PROVE  IInv'
<1>1. /\ TypeOK /\ pc = "idle" /\ pc' = "idle" /\ handle = "open"
      /\ UNCHANGED <<handle, durability, segmented, fd, call, todo, undo>>
      /\ UNCHANGED <<snapshot, manifest, segments, stable, mem, live, allowed, forfeited>>
  BY DEF IInv, BeginFails, Idle, session, running, promises
<1>2. /\ wal \in Logs /\ Base' = Base /\ TxnBegin \in Entry /\ Torn \in Entry
      /\ Torn.op = "torn" /\ TxnBegin.op = "txn_begin"
  BY <1>1, BaseType, SameFiles, EntryFacts
<1>3. SessionInv' /\ MemoryInv' /\ CheckpointInv' /\ AlwaysReadable'
  BY <1>1, SameFiles
  DEF IInv, SessionInv, MemoryInv, CheckpointInv, AlwaysReadable
<1>4. \/ wal' = wal
      \/ wal' = Append(wal, Torn) /\ Recover(Base, wal') = Recover(Base, wal)
      \/ wal' = Append(wal, TxnBegin) /\ Recover(Base, wal') = Recover(Base, wal)
  <2>1. wal' = wal \/ wal' = Append(wal, Torn) \/ wal' = Append(wal, TxnBegin)
    <3>1. LogFails(TxnBegin)
      BY DEF BeginFails
    <3> QED BY <1>1, <1>2, <3>1, LogFailsFacts
  <2>2. Recover(Base, Append(wal, Torn)) = Recover(Base, wal)
    BY <1>2, RecoverHidden
  <2>3. Recover(Base, Append(wal, TxnBegin)) = Recover(Base, wal)
    BY <1>2, RecoverBegin
  <2> QED BY <2>1, <2>2, <2>3
<1>5. LogInv'
  BY <1>1, <1>2, <1>4 DEF IInv, LogInv, Recovered
<1>6. PrefixInv'
  BY <1>1, <1>2, <1>4, PrefixesKept
<1> QED BY <1>3, <1>5, <1>6 DEF IInv

\* An entry of a batch, appended while its window is open or hidden behind a
\* torn record, is not applied by any replay yet.
LEMMA PutInBatch ==
    ASSUME IInv, pc = "apply", fd = "live", NEW k \in Keys, NEW c \in Contents
    PROVE  Recover(Base, Append(wal, Put(k, c))) = Recover(Base, wal)
<1>1. wal \in Logs /\ Put(k, c) \in Entry /\ IsPut(Put(k, c))
  BY BaseType, EntryFacts DEF IInv
<1>2. InTxn(wal, Len(wal)) \/ ~Intact(wal)
  BY DEF IInv, SessionInv
<1> QED BY <1>1, <1>2, RecoverHidden, RecoverPutInTxn

LEMMA InTxnKept ==
    ASSUME NEW log \in Logs, NEW e \in Entry, e.op # "txn_commit", InTxn(log, Len(log))
    PROVE  InTxn(Append(log, e), Len(Append(log, e)))
<1> DEFINE l == Append(log, e)
<1>1. /\ Len(log) \in Nat /\ Len(l) = Len(log) + 1 /\ l[Len(log) + 1] = e
      /\ \A i \in 1..Len(log) : l[i] = log[i]
  BY AppendFacts
<1>2. PICK b \in 1..Len(log) : /\ log[b].op = "txn_begin"
                               /\ \A m \in (b + 1)..Len(log) : log[m].op # "txn_commit"
  BY DEF InTxn
<1> HIDE DEF l
<1>3. b \in 1..Len(l) /\ l[b].op = "txn_begin"
  BY <1>1, <1>2
<1>4. ASSUME NEW m \in (b + 1)..Len(l)
      PROVE  l[m].op # "txn_commit"
  <2>1. CASE m = Len(log) + 1
    BY <1>1, <2>1
  <2>2. CASE m # Len(log) + 1
    <3>1. m \in (b + 1)..Len(log) /\ m \in 1..Len(log)
      BY <1>1, <2>2
    <3> QED BY <1>1, <1>2, <3>1
  <2> QED BY <2>1, <2>2
<1>5. InTxn(l, Len(l))
  BY <1>3, <1>4 DEF InTxn
<1> QED BY <1>5 DEF l

LEMMA ApplyStep ==
    ASSUME IInv, TypeOK', Apply
    PROVE  IInv'
<1> DEFINE op == Head(todo)
           k == op.key
           c == op.val
<1>1. /\ TypeOK /\ pc = "apply" /\ pc' = "apply"
      /\ UNCHANGED <<handle, durability, segmented, fd, call>>
      /\ UNCHANGED <<snapshot, manifest, segments, live, allowed, forfeited>>
      /\ undo' = Append(undo, [key |-> k, previous |-> mem[k]])
      /\ UNCHANGED goal
  BY DEF IInv, Apply, session, promises
<1>2. k \in Keys /\ c \in Contents
  <2>1. op \in [key : Keys, val : Contents]
    BY <1>1, SequenceType DEF Apply, TypeOK
  <2> HIDE DEF op
  <2> QED BY <2>1
<1>3. \/ UNCHANGED <<wal, stable, mem>> /\ c = NoRecord /\ mem[k] = NoRecord
      \/ Logged(Put(k, c)) /\ mem' = [mem EXCEPT ![k] = c]
  BY DEF Apply, Skipped
<1>o. Outcome([mem EXCEPT ![k] = c], todo') = Outcome(mem, todo)
  <2>1. mem \in Stores /\ todo \in Seq(Op) /\ todo # <<>> /\ todo' = Tail(todo)
    BY <1>1 DEF Apply, TypeOK, Op
  <2> QED BY <2>1, OutcomeStep
<1> HIDE DEF op, k, c
<1>4. /\ wal \in Logs /\ Base' = Base /\ Put(k, c) \in Entry
      /\ Put(k, c).op # "torn" /\ Put(k, c).op # "txn_commit"
      /\ stable \in 0..Len(wal) /\ Len(wal) \in Nat /\ mem \in Stores
  BY <1>1, <1>2, BaseType, SameFiles, EntryFacts, AppendFacts DEF TypeOK, IsPut
<1>5. fd # "none" => fd = "live"
  BY <1>1 DEF IInv, SessionInv, TypeOK
<1>6. mem' = [mem EXCEPT ![k] = c]
  <2>1. mem[k] = c => [mem EXCEPT ![k] = c] = mem
    BY <1>4 DEF Stores
  <2>2. (mem' = mem /\ mem[k] = c) \/ mem' = [mem EXCEPT ![k] = c]
    BY <1>3
  <2> QED BY <2>1, <2>2
<1>u. UndoAll(mem', undo') = UndoAll(mem, undo)
  <2>1. undo \in Seq(UndoEntry) /\ mem' \in Stores
    BY <1>1 DEF TypeOK, UndoEntry
  <2>2. UndoAll(mem', Append(undo, [key |-> k, previous |-> mem[k]])) = UndoAll(mem, undo)
    <3>1. mem \in Stores /\ k \in Keys /\ c \in Contents
      BY <1>2, <1>4
    <3> QED BY <1>6, <2>1, <3>1, UndoAppend, ZenonT(60)
  <2> QED BY <1>1, <2>2
<1>7. MemoryInv'
  BY <1>1, <1>o, <1>6, <1>u DEF IInv, MemoryInv
<1>8. CheckpointInv' /\ AlwaysReadable'
  BY <1>1, SameFiles DEF IInv, CheckpointInv, AlwaysReadable
<1>9. \/ UNCHANGED <<wal, stable, mem>>
      \/ fd = "none" /\ UNCHANGED <<wal, stable>>
      \/ /\ fd = "live" /\ wal' = Append(wal, Put(k, c)) /\ mem' = [mem EXCEPT ![k] = c]
         /\ stable' = IF durability # "relaxed" THEN Len(wal) + 1 ELSE stable
  BY <1>3 DEF Logged, CanAppend, Append1, SyncEachWrite
<1>10. CASE UNCHANGED <<wal, stable>> /\ (fd = "none" \/ mem' = mem)
  <2>1. SessionInv'
    BY <1>1, <1>10 DEF IInv, SessionInv
  <2>2. LogInv'
    BY <1>1, <1>4, <1>10 DEF IInv, LogInv, Recovered
  <2>3. PrefixInv'
    BY <1>1, <1>4, <1>10 DEF IInv, PrefixInv
  <2> QED BY <1>7, <1>8, <2>1, <2>2, <2>3 DEF IInv
<1>11. CASE /\ fd = "live" /\ wal' = Append(wal, Put(k, c)) /\ mem' = [mem EXCEPT ![k] = c]
            /\ stable' = IF durability # "relaxed" THEN Len(wal) + 1 ELSE stable
  <2>1. Intact(wal') => Intact(wal)
    BY <1>4, <1>11, ReadableHidden
  <2>2. SessionInv'
    <3>1. Intact(wal') => InTxn(wal', Len(wal'))
      BY <1>1, <1>4, <1>11, <2>1, InTxnKept DEF IInv, SessionInv
    <3> QED BY <1>1, <1>11, <3>1 DEF IInv, SessionInv
  <2>3. Recover(Base, wal') = Recover(Base, wal)
    BY <1>1, <1>2, <1>11, PutInBatch
  <2>4. LogInv'
    <3>1. SUFFICES ASSUME forfeited \subseteq {"unsynced_log"}
                   PROVE  /\ Recovered' = live
                          /\ Intact(wal') => RecoverIfCommitted(Base, wal') = mem'
      BY <1>1, <1>4 DEF LogInv
    <3>2. Recovered = live /\ (Intact(wal) => RecoverIfCommitted(Base, wal) = mem)
      BY <1>1, <1>11, <3>1 DEF IInv, LogInv
    <3>3. ASSUME Intact(wal')
          PROVE  RecoverIfCommitted(Base, wal') = mem'
      <4>1. RecoverIfCommitted(Base, Append(wal, Put(k, c))) =
              [RecoverIfCommitted(Base, wal) EXCEPT ![k] = c]
        BY <1>2, <1>4, <2>1, <3>3, IfCommittedAfterPut
      <4> QED BY <1>11, <2>1, <3>2, <3>3, <4>1
    <3> QED BY <1>4, <2>3, <3>2, <3>3 DEF Recovered
  <2>5. PrefixInv'
    <3>1. SUFFICES ASSUME forfeited = {}
                   PROVE  PrefixesAllowed(Base, wal', stable', allowed)
      BY <1>1, <1>4 DEF PrefixInv
    <3>2. PrefixesAllowed(Base, wal, stable, allowed)
      BY <3>1 DEF IInv, PrefixInv
    <3>3. Recover(Base, Append(wal, Put(k, c))) \in allowed
      BY <1>4, <1>11, <2>3, <3>2, PrefixWhole
    <3>4. stable' \in stable..(Len(wal) + 1)
      BY <1>4, <1>11
    <3>5. PrefixesAllowed(Base, Append(wal, Put(k, c)), stable', allowed)
      BY <1>4, <3>2, <3>3, <3>4, PrefixAppend
    <3> QED BY <1>11, <3>5
  <2> QED BY <1>7, <1>8, <2>2, <2>4, <2>5 DEF IInv
<1> QED BY <1>9, <1>10, <1>11

LEMMA ApplyFailsStep ==
    ASSUME IInv, TypeOK', ApplyFails
    PROVE  IInv'
<1> DEFINE op == Head(todo)
           k == op.key
           c == op.val
<1>1. /\ TypeOK /\ pc = "apply" /\ pc' = "idle" /\ undo' = <<>>
      /\ UNCHANGED <<handle, durability, segmented, fd, call>>
      /\ UNCHANGED <<snapshot, manifest, segments, stable, live, allowed, forfeited>>
      /\ mem' = UndoAll(mem, undo)
  BY DEF IInv, ApplyFails, EndCall, session, promises
<1>2. k \in Keys /\ c \in Contents
  <2>1. op \in [key : Keys, val : Contents]
    BY <1>1, SequenceType DEF ApplyFails, TypeOK
  <2> HIDE DEF op
  <2> QED BY <2>1
<1>3. LogFails(Put(k, c))
  BY DEF ApplyFails
<1> HIDE DEF op, k, c
<1>4. /\ wal \in Logs /\ Base' = Base /\ Put(k, c) \in Entry
      /\ Torn \in Entry /\ Torn.op = "torn"
  BY <1>1, <1>2, BaseType, SameFiles, EntryFacts
<1>5. \/ wal' = wal
      \/ wal' = Append(wal, Torn) /\ Recover(Base, wal') = Recover(Base, wal)
      \/ wal' = Append(wal, Put(k, c)) /\ Recover(Base, wal') = Recover(Base, wal)
  <2>1. \/ wal' = wal
        \/ fd = "live" /\ wal' = Append(wal, Torn)
        \/ fd = "live" /\ wal' = Append(wal, Put(k, c))
    BY <1>1, <1>3, <1>4, LogFailsFacts
  <2>2. Recover(Base, Append(wal, Torn)) = Recover(Base, wal)
    BY <1>4, RecoverHidden
  <2>3. fd = "live" => Recover(Base, Append(wal, Put(k, c))) = Recover(Base, wal)
    BY <1>1, <1>2, PutInBatch
  <2> QED BY <2>1, <2>2, <2>3
<1>6. MemoryInv'
  BY <1>1 DEF IInv, MemoryInv, SessionInv, TypeOK
<1>7. SessionInv' /\ CheckpointInv' /\ AlwaysReadable'
  BY <1>1, SameFiles DEF IInv, SessionInv, CheckpointInv, AlwaysReadable
<1>8. LogInv'
  <2>1. SUFFICES ASSUME fd # "none", forfeited \subseteq {"unsynced_log"}
                 PROVE  Recovered' = mem'
    BY <1>1 DEF LogInv
  <2>2. Recovered = live
    BY <1>1, <2>1 DEF IInv, LogInv
  <2>3. handle = "open"
    BY <1>1, <2>1 DEF IInv, SessionInv, TypeOK
  <2>4. live = mem'
    BY <1>1, <2>1, <2>3 DEF IInv, MemoryInv
  <2> QED BY <1>4, <1>5, <2>2, <2>4 DEF Recovered
<1>9. PrefixInv'
  BY <1>1, <1>4, <1>5, PrefixesKept
<1> QED BY <1>6, <1>7, <1>8, <1>9 DEF IInv

LEMMA CommitStep ==
    ASSUME IInv, TypeOK', Commit
    PROVE  IInv'
<1>1. /\ TypeOK /\ pc = "apply" /\ pc' = "idle" /\ undo' = <<>>
      /\ UNCHANGED <<handle, durability, segmented, fd, call>>
      /\ UNCHANGED <<snapshot, manifest, segments, mem>>
      /\ live' = goal /\ todo = <<>> /\ forfeited \subseteq forfeited'
  BY DEF IInv, Commit, EndCall, Acknowledge, session
<1>2. /\ wal \in Logs /\ Base' = Base /\ TxnCommit \in Entry /\ TxnCommit.op = "txn_commit"
      /\ stable \in 0..Len(wal) /\ Len(wal) \in Nat
  BY <1>1, BaseType, SameFiles, EntryFacts, AppendFacts DEF TypeOK
<1>3. fd # "none" =>
        /\ wal' = Append(wal, TxnCommit)
        /\ stable' = IF durability # "relaxed" THEN Len(wal) + 1 ELSE stable
        /\ forfeited' \subseteq {"unsynced_log"} => Intact(wal)
  <2>1. Logged(TxnCommit) /\ Acknowledge(goal, TRUE)
    BY DEF Commit
  <2>2. fd # "none" => fd = "live"
    BY <2>1 DEF Logged, CanAppend
  <2>3. fd # "none" /\ forfeited' \subseteq {"unsynced_log"} => Intact(wal)
    BY <2>1, <2>2 DEF Acknowledge
  <2> QED BY <2>1, <2>3 DEF Logged, Append1, SyncEachWrite
<1>4. SessionInv' /\ CheckpointInv' /\ AlwaysReadable'
  BY <1>1, SameFiles DEF IInv, SessionInv, CheckpointInv, AlwaysReadable
<1>5. handle = "open" /\ "failed_marker" \notin forfeited => live' = mem
  <2>1. handle = "open" /\ "failed_marker" \notin forfeited => goal = Outcome(mem, todo)
    BY <1>1 DEF IInv, MemoryInv
  <2>2. Outcome(mem, <<>>) = mem
    BY <1>1, OutcomeNothing DEF TypeOK
  <2> QED BY <1>1, <2>1, <2>2
<1>6. MemoryInv'
  BY <1>1, <1>5 DEF MemoryInv
<1>7. ASSUME fd # "none", forfeited' \subseteq {"unsynced_log"}
      PROVE  Recover(Base, wal') = mem
  <2>1. Intact(wal) /\ wal' = Append(wal, TxnCommit)
    BY <1>3, <1>7
  <2>2. RecoverIfCommitted(Base, wal) = mem
    BY <1>1, <1>7, <2>1 DEF IInv, LogInv
  <2> QED BY <1>2, <2>1, <2>2, RecoverCommit
<1>8. LogInv'
  BY <1>1, <1>2, <1>7 DEF LogInv, Recovered
<1>9. PrefixInv'
  <2>1. SUFFICES ASSUME forfeited' = {}
                 PROVE  PrefixesAllowed(Base', wal', stable', allowed')
    BY DEF PrefixInv
  <2>2. PrefixesAllowed(Base, wal, stable, allowed)
    BY <1>1, <2>1 DEF IInv, PrefixInv
  <2>3. CASE fd = "none"
    <3>1. wal' = wal /\ stable' = stable /\ allowed' = allowed
      BY <2>3 DEF Commit, Logged, CanAppend, Acknowledge
    <3> QED BY <1>2, <2>2, <3>1
  <2>4. CASE fd # "none"
    <3>1. handle = "open"
      BY <1>1, <2>4 DEF IInv, SessionInv, TypeOK
    <3>2. live' = mem
      BY <1>1, <1>5, <2>1, <3>1
    <3>3. Recover(Base, Append(wal, TxnCommit)) = live'
      BY <1>3, <1>7, <2>1, <2>4, <3>2
    <3>4. allowed' = IF durability = "relaxed" THEN allowed \union {live'} ELSE {live'}
      BY <1>1, <2>4 DEF Commit, Acknowledge
    <3>5. /\ stable' \in stable..(Len(wal) + 1)
          /\ allowed \subseteq allowed' \/ stable' = Len(wal) + 1
          /\ Recover(Base, Append(wal, TxnCommit)) \in allowed'
      BY <1>2, <1>3, <2>4, <3>3, <3>4
    <3>6. PrefixesAllowed(Base, Append(wal, TxnCommit), stable', allowed')
      BY <1>2, <2>2, <3>5, PrefixAppend
    <3> QED BY <1>2, <1>3, <2>4, <3>6
  <2> QED BY <2>3, <2>4
<1> QED BY <1>4, <1>6, <1>8, <1>9 DEF IInv

LEMMA CommitFailsStep ==
    ASSUME IInv, TypeOK', CommitFails
    PROVE  IInv'
<1>1. /\ TypeOK /\ pc' = "idle" /\ undo' = <<>> /\ pc = "apply"
      /\ UNCHANGED <<handle, durability, segmented, fd, call>>
      /\ UNCHANGED <<snapshot, manifest, segments>>
      /\ forfeited' = forfeited \union {"failed_marker"}
  BY DEF IInv, CommitFails, EndCall, session
<1>2. MemoryInv' /\ LogInv' /\ PrefixInv'
  BY <1>1 DEF MemoryInv, LogInv, PrefixInv
<1>3. SessionInv' /\ CheckpointInv' /\ AlwaysReadable'
  BY <1>1, SameFiles DEF IInv, SessionInv, CheckpointInv, AlwaysReadable
<1> QED BY <1>2, <1>3 DEF IInv

-----------------------------------------------------------------------------
(* The steps of a checkpoint. *)

\* With the store in memory as the base, a log that led to it adds nothing.
LEMMA MemoryAsBase ==
    ASSUME IInv, pc # "apply", forfeited \subseteq {"unsynced_log"}, fd # "none"
    PROVE  Recover(mem, wal) = mem
<1>1. Recover(Base, wal) = mem /\ wal \in Logs
  BY BaseType DEF IInv, LogInv, Recovered
<1> QED BY <1>1, RecoverRebase

LEMMA NewBaseAllowed ==
    ASSUME IInv, TypeOK', pc # "apply", NewBase, UNCHANGED <<wal, stable>>, Base' = mem
    PROVE  PrefixInv'
<1>1. SUFFICES ASSUME forfeited' = {}
               PROVE  PrefixesAllowed(mem, wal, stable, {mem})
  <2>1. forfeited' = {} => allowed' = {mem}
    BY DEF NewBase
  <2> QED BY <2>1 DEF PrefixInv
<1>2. TypeOK /\ wal \in Logs /\ mem \in Stores
  BY BaseType DEF IInv, TypeOK
<1>3. stable = Len(wal) /\ forfeited = {} /\ (fd = "none" => wal = <<>>)
  BY <1>1 DEF NewBase, Synced
<1>4. Recover(mem, wal) = mem
  <2>1. CASE fd = "none"
    BY <1>2, <1>3, <2>1, RecoverEmpty
  <2>2. CASE fd # "none"
    BY <1>3, <2>2, MemoryAsBase
  <2> QED BY <2>1, <2>2
<1> QED BY <1>2, <1>3, <1>4, PrefixOne

LEMMA PublishStep ==
    ASSUME IInv, TypeOK', NEW c \in Calls, Publish(c)
    PROVE  IInv'
<1>1. /\ TypeOK /\ pc = "idle" /\ pc' = "tidy" /\ handle = "open"
      /\ UNCHANGED <<handle, durability, segmented, fd>>
      /\ UNCHANGED <<wal, stable, mem, undo, live>>
      /\ forfeited \subseteq forfeited' /\ mem # NoFile /\ mem \in Stores
  BY NoFileAssumption DEF IInv, Publish, Idle, NewBase, session, promises, TypeOK
<1>2. SessionInv' /\ MemoryInv'
  BY <1>1 DEF IInv, SessionInv, MemoryInv
<1>3. AlwaysReadable'
  BY <1>1 DEF IInv, AlwaysReadable, Publish, DiskReadable
<1>4. CASE ~segmented /\ manifest # NoFile
  <2>1. UNCHANGED <<live, allowed, forfeited, manifest>> /\ snapshot' = mem
    BY <1>4 DEF Publish, promises
  <2>2. Base' = Base
    BY <1>4, <2>1 DEF Base
  <2>3. LogInv' /\ PrefixInv'
    BY <1>1, <2>1, <2>2 DEF IInv, LogInv, PrefixInv, Recovered
  <2>4. CheckpointInv'
    BY <1>1, <1>4, <2>1 DEF CheckpointInv
  <2> QED BY <1>2, <1>3, <2>3, <2>4 DEF IInv
<1>5. CASE segmented \/ manifest = NoFile
  <2>1. /\ NewBase
        /\ segmented => manifest' = mem
        /\ ~segmented => snapshot' = mem /\ manifest' = manifest
    BY <1>5 DEF Publish
  <2>2. Base' = mem
    BY <1>1, <1>5, <2>1 DEF Base
  <2>3. PrefixInv'
    BY <1>1, <2>1, <2>2, NewBaseAllowed
  <2>4. LogInv'
    <3>1. SUFFICES ASSUME fd # "none", forfeited' \subseteq {"unsynced_log"}
                   PROVE  Recover(mem, wal) = mem
      BY <1>1, <2>2 DEF LogInv, Recovered
    <3>2. pc # "apply"
      BY <1>1
    <3> QED BY <1>1, <3>1, <3>2, MemoryAsBase
  <2>5. CheckpointInv'
    BY <1>1, <2>1 DEF CheckpointInv, NewBase
  <2> QED BY <1>2, <1>3, <2>3, <2>4, <2>5 DEF IInv
<1> QED BY <1>4, <1>5

LEMMA TidyStep ==
    ASSUME IInv, TypeOK', Tidy
    PROVE  IInv'
<1>1. /\ TypeOK /\ pc = "tidy" /\ pc' = "reset"
      /\ UNCHANGED <<handle, durability, segmented, fd>>
      /\ UNCHANGED <<wal, stable, mem, undo, live>>
      /\ forfeited \subseteq forfeited' /\ mem # NoFile /\ mem \in Stores
      /\ mem = IF segmented THEN manifest ELSE snapshot
      /\ segmented \/ manifest = NoFile => mem \in allowed
  BY NoFileAssumption DEF IInv, Tidy, NewBase, session, promises, TypeOK, CheckpointInv
<1>2. SessionInv' /\ MemoryInv'
  BY <1>1 DEF IInv, SessionInv, MemoryInv
<1>3. AlwaysReadable'
  BY <1>1 DEF IInv, AlwaysReadable, Tidy, DiskReadable, promises
<1>4. CASE "stale_manifest" \in forfeited'
  BY <1>1, <1>2, <1>3, <1>4 DEF IInv, LogInv, CheckpointInv, PrefixInv
<1>5. CASE "stale_manifest" \notin forfeited'
  <2>1. Base' = mem
    BY <1>1, <1>5 DEF Tidy, Base
  <2>2. CASE NewBase
    <3>1. PrefixInv'
      BY <1>1, <2>1, <2>2, NewBaseAllowed
    <3>2. LogInv'
      <4>1. SUFFICES ASSUME fd # "none", forfeited' \subseteq {"unsynced_log"}
                     PROVE  Recover(mem, wal) = mem
        BY <1>1, <2>1 DEF LogInv, Recovered
      <4>2. pc # "apply"
        BY <1>1
      <4> QED BY <1>1, <4>1, <4>2, MemoryAsBase
    <3>3. CheckpointInv'
      BY <1>1, <2>1, <2>2 DEF CheckpointInv, NewBase
    <3> QED BY <1>2, <1>3, <3>1, <3>2, <3>3 DEF IInv
  <2>3. CASE ~NewBase
    <3>1. /\ UNCHANGED <<allowed, forfeited>> /\ (segmented \/ manifest = NoFile)
      BY <1>5, <2>3 DEF Tidy, promises
    <3>2. Base = mem
      BY <1>1, <3>1 DEF Base
    <3>3. LogInv' /\ PrefixInv' /\ CheckpointInv'
      BY <1>1, <2>1, <3>1, <3>2 DEF IInv, LogInv, PrefixInv, CheckpointInv, Recovered
    <3> QED BY <1>2, <1>3, <3>3 DEF IInv
  <2> QED BY <2>2, <2>3
<1> QED BY <1>4, <1>5

\* Nothing of the session is left to be said once there is no session.
LEMMA DownStep ==
    ASSUME IInv, GoDown
    PROVE  SessionInv' /\ MemoryInv' /\ LogInv' /\ CheckpointInv'
  BY DEF GoDown, SessionInv, MemoryInv, LogInv, CheckpointInv

LEMMA ResetStep ==
    ASSUME IInv, TypeOK', Reset
    PROVE  IInv'
<1>1. /\ TypeOK /\ pc = "reset" /\ UNCHANGED <<snapshot, manifest, segments>>
      /\ ("stale_manifest" \notin forfeited => Base = mem /\ mem \in allowed)
      /\ mem \in Stores
  BY DEF IInv, Reset, CheckpointInv, TypeOK
<1>2. Base' = Base /\ DiskReadable' = DiskReadable
  BY <1>1, SameFiles
<1>3. /\ "stale_manifest" \in forfeited' <=> "stale_manifest" \in forfeited
      /\ "failed_marker" \in forfeited' <=> "failed_marker" \in forfeited
  BY DEF Reset
<1>4. AlwaysReadable'
  BY <1>2, <1>3 DEF IInv, AlwaysReadable
<1>5. ASSUME fd # "none"
      PROVE  /\ wal' = <<>> /\ stable' = 0 /\ allowed' = {mem}
             /\ "stale_manifest" \notin forfeited => Recover(Base, wal') = mem
  <2>1. wal' = <<>> /\ stable' = 0 /\ allowed' = {mem}
    BY <1>5 DEF Reset
  <2> QED BY <1>1, <2>1, RecoverEmpty
<1>6. PrefixInv'
  <2>1. SUFFICES ASSUME forfeited' = {}
                 PROVE  PrefixesAllowed(Base, wal', stable', allowed')
    BY <1>2 DEF PrefixInv
  <2>2. CASE fd = "none"
    <3>1. UNCHANGED <<wal, stable, allowed, forfeited>>
      BY <2>2 DEF Reset
    <3> QED BY <2>1, <3>1 DEF IInv, PrefixInv
  <2>3. CASE fd # "none"
    <3>1. <<>> \in Logs /\ Len(<<>>) = 0
      BY SequenceType DEF Logs
    <3>2. Recover(Base, <<>>) \in {mem}
      BY <1>3, <1>5, <2>1, <2>3
    <3>3. PrefixesAllowed(Base, <<>>, Len(<<>>), {mem})
      BY <3>1, <3>2, PrefixOne
    <3> QED BY <1>5, <2>3, <3>1, <3>3
  <2> QED BY <2>2, <2>3
<1>7. CASE GoDown
  BY <1>4, <1>6, <1>7, DownStep DEF IInv
<1>8. CASE ~GoDown
  <2>1. /\ pc' = "idle" /\ UNCHANGED <<handle, durability, segmented, mem, undo, live>>
        /\ fd' = IF fd = "none" THEN "none" ELSE "live"
    BY <1>8 DEF Reset
  <2>2. SessionInv' /\ MemoryInv' /\ CheckpointInv'
    BY <1>1, <1>3, <2>1 DEF IInv, SessionInv, MemoryInv, CheckpointInv
  <2>3. LogInv'
    <3>1. SUFFICES ASSUME fd # "none", forfeited' \subseteq {"unsynced_log"}
                   PROVE  Recover(Base, wal') = mem
      BY <1>2, <2>1 DEF LogInv, Recovered
    <3> QED BY <1>3, <1>5, <3>1
  <2> QED BY <1>4, <1>6, <2>2, <2>3 DEF IInv
<1> QED BY <1>7, <1>8

LEMMA ResetFailsStep ==
    ASSUME IInv, TypeOK', ResetFails
    PROVE  IInv'
<1>1. /\ TypeOK /\ pc = "reset" /\ pc' = "idle" /\ fd # "none" /\ fd' # "none"
      /\ UNCHANGED <<snapshot, manifest, segments, mem, live, undo, allowed, forfeited>>
      /\ UNCHANGED <<handle, durability, segmented>>
      /\ ("stale_manifest" \notin forfeited => Base = mem /\ mem \in allowed)
      /\ mem \in Stores /\ Base' = Base
  BY SameFiles DEF IInv, ResetFails, CheckpointInv, TypeOK, promises
<1>2. SessionInv' /\ MemoryInv' /\ CheckpointInv' /\ AlwaysReadable'
  BY <1>1, SameFiles
  DEF IInv, SessionInv, MemoryInv, CheckpointInv, AlwaysReadable, TypeOK
<1>3. CASE UNCHANGED <<wal, stable>>
  BY <1>1, <1>2, <1>3 DEF IInv, LogInv, PrefixInv, Recovered
<1>4. CASE wal' = <<>> /\ stable' = 0
  <2>1. "stale_manifest" \notin forfeited => Recover(Base, <<>>) = mem
    BY <1>1, RecoverEmpty
  <2>2. LogInv'
    BY <1>1, <1>4, <2>1 DEF LogInv, Recovered
  <2>3. PrefixInv'
    <3>1. SUFFICES ASSUME forfeited = {}
                   PROVE  PrefixesAllowed(Base, <<>>, 0, allowed)
      BY <1>1, <1>4 DEF PrefixInv
    <3>2. <<>> \in Logs /\ Len(<<>>) = 0
      BY SequenceType DEF Logs
    <3>3. Recover(Base, <<>>) \in allowed
      BY <1>1, <2>1, <3>1
    <3>4. PrefixesAllowed(Base, <<>>, Len(<<>>), allowed)
      BY <3>2, <3>3, PrefixOne
    <3> QED BY <3>2, <3>4
  <2> QED BY <1>2, <2>2, <2>3 DEF IInv
<1> QED BY <1>3, <1>4 DEF ResetFails

-----------------------------------------------------------------------------
(* The end of a session, and the beginning of the next. *)

\* abandon(), and a crash between two appends.
LEMMA StopStep ==
    ASSUME IInv, TypeOK', Abandon \/ Crash
    PROVE  IInv'
<1>1. GoDown /\ UNCHANGED <<disk, allowed, forfeited>>
  BY DEF Abandon, Crash
<1>2. Base' = Base /\ DiskReadable' = DiskReadable
  BY <1>1, SameFiles DEF disk
<1>3. PrefixInv' /\ AlwaysReadable'
  BY <1>1, <1>2 DEF IInv, disk, PrefixInv, AlwaysReadable
<1> QED BY <1>1, <1>3, DownStep DEF IInv

\* A whole record in the log is harmless if it leads where the call leads.
LEMMA CrashInsideStep ==
    ASSUME IInv, TypeOK', NEW e \in Entry, NEW outcome, CrashInside(e, outcome),
           forfeited = {} => \/ Recover(Base, Append(wal, e)) = Recover(Base, wal)
                             \/ Recover(Base, Append(wal, e)) = outcome
    PROVE  IInv'
<1>1. GoDown /\ UNCHANGED <<stable, snapshot, manifest, segments, forfeited>>
  BY DEF CrashInside
<1>2. Base' = Base /\ DiskReadable' = DiskReadable
  BY <1>1, SameFiles
<1>3. AlwaysReadable'
  BY <1>1, <1>2 DEF IInv, AlwaysReadable
<1>4. PrefixInv'
  <2>1. SUFFICES ASSUME forfeited = {}
                 PROVE  PrefixesAllowed(Base, wal', stable, allowed')
    BY <1>1, <1>2 DEF PrefixInv
  <2>2. /\ wal \in Logs /\ stable \in 0..Len(wal) /\ Len(wal) \in Nat /\ Torn \in Entry
        /\ Torn.op = "torn" /\ PrefixesAllowed(Base, wal, stable, allowed)
    BY <2>1, BaseType, EntryFacts, AppendFacts DEF IInv, TypeOK, PrefixInv
  <2>3. Recover(Base, wal) \in allowed
    BY <2>2, PrefixWhole
  <2>4. stable \in stable..(Len(wal) + 1)
    BY <2>2
  <2>5. CASE wal' = Append(wal, Torn) /\ UNCHANGED allowed
    <3>1. Recover(Base, Append(wal, Torn)) \in allowed
      BY <2>2, <2>3, RecoverHidden
    <3> QED BY <2>2, <2>4, <2>5, <3>1, PrefixAppend
  <2>6. CASE wal' = Append(wal, e) /\ allowed' = allowed \union {outcome}
    <3>1. Recover(Base, Append(wal, e)) \in allowed' /\ allowed \subseteq allowed'
      BY <2>1, <2>3, <2>6
    <3>2. PrefixesAllowed(Base, Append(wal, e), stable, allowed')
      BY <2>2, <2>4, <3>1, PrefixAppend
    <3> QED BY <2>6, <3>2
  <2> QED BY <2>5, <2>6 DEF CrashInside
<1> QED BY <1>1, <1>3, <1>4, DownStep DEF IInv

LEMMA CrashInAppendStep ==
    ASSUME IInv, TypeOK', CrashInAppend
    PROVE  IInv'
<1>1. /\ TypeOK /\ wal \in Logs /\ TxnBegin \in Entry /\ TxnCommit \in Entry
      /\ TxnBegin.op = "txn_begin" /\ TxnCommit.op = "txn_commit"
      /\ \A k \in Keys, c \in Contents : Put(k, c) \in Entry /\ IsPut(Put(k, c))
  BY BaseType, EntryFacts DEF IInv
<1>2. ASSUME Idle, CrashInside(TxnBegin, live)
      PROVE  IInv'
  <2>1. Recover(Base, Append(wal, TxnBegin)) = Recover(Base, wal)
    BY <1>1, RecoverBegin
  <2> QED BY <1>1, <1>2, <2>1, CrashInsideStep
<1>3. ASSUME Idle, NEW k \in Keys, NEW c \in Contents,
             CrashInside(Put(k, c), [live EXCEPT ![k] = c])
      PROVE  IInv'
  <2>1. ASSUME forfeited = {}
        PROVE  \/ Recover(Base, Append(wal, Put(k, c))) = Recover(Base, wal)
               \/ Recover(Base, Append(wal, Put(k, c))) = [live EXCEPT ![k] = c]
    <3>1. CASE Clean(wal)
      <4>1. fd # "none" /\ Recover(Base, wal) = mem
        BY <1>3, <2>1 DEF IInv, LogInv, Recovered, Idle, CrashInside, CanAppend
      <4>2. live = mem
        BY <1>3, <2>1 DEF IInv, MemoryInv, Idle
      <4>3. Recover(Base, Append(wal, Put(k, c))) = [Recover(Base, wal) EXCEPT ![k] = c]
        BY <1>1, <3>1, RecoverPutClean
      <4> QED BY <4>1, <4>2, <4>3
    <3>2. CASE ~Clean(wal)
      BY <1>1, <3>2, RecoverHidden, RecoverPutInTxn DEF Clean
    <3> QED BY <3>1, <3>2
  <2> QED BY <1>1, <1>3, <2>1, CrashInsideStep
<1>4. ASSUME pc = "apply", todo = <<>>, CrashInside(TxnCommit, goal)
      PROVE  IInv'
  <2>1. ASSUME forfeited = {}
        PROVE  \/ Recover(Base, Append(wal, TxnCommit)) = Recover(Base, wal)
               \/ Recover(Base, Append(wal, TxnCommit)) = goal
    <3>1. CASE Intact(wal)
      <4>1. fd # "none" /\ handle = "open"
        BY <1>1, <1>4 DEF IInv, SessionInv, CrashInside, CanAppend, TypeOK
      <4>2. RecoverIfCommitted(Base, wal) = mem
        BY <1>4, <2>1, <3>1, <4>1 DEF IInv, LogInv
      <4>3. goal = mem
        <5>1. goal = Outcome(mem, todo)
          BY <1>4, <2>1, <4>1 DEF IInv, MemoryInv
        <5> QED BY <1>1, <1>4, <5>1, OutcomeNothing DEF TypeOK
      <4> QED BY <1>1, <3>1, <4>2, <4>3, RecoverCommit
    <3>2. CASE ~Intact(wal)
      BY <1>1, <3>2, RecoverHidden
    <3> QED BY <3>1, <3>2
  <2> QED BY <1>1, <1>4, <2>1, CrashInsideStep
<1>5. ASSUME pc = "apply", NEW k \in Keys, NEW c \in Contents, CrashInside(Put(k, c), live)
      PROVE  IInv'
  <2>1. Recover(Base, Append(wal, Put(k, c))) = Recover(Base, wal)
    BY <1>5, PutInBatch DEF CrashInside, CanAppend
  <2> QED BY <1>1, <1>5, <2>1, CrashInsideStep
<1>6. ASSUME pc = "apply", todo # <<>>, CrashInside(Put(Head(todo).key, Head(todo).val), live)
      PROVE  IInv'
  <2>1. Head(todo) \in [key : Keys, val : Contents]
    BY <1>1, <1>6, SequenceType DEF TypeOK
  <2>2. Head(todo).key \in Keys /\ Head(todo).val \in Contents
    BY <2>1
  <2> QED BY <1>5, <1>6, <2>2
<1> QED BY <1>2, <1>3, <1>4, <1>6 DEF CrashInAppend

LEMMA PowerLossStep ==
    ASSUME IInv, TypeOK', PowerLoss
    PROVE  IInv'
<1>1. GoDown /\ UNCHANGED <<snapshot, manifest, segments, allowed>> /\ forfeited \subseteq forfeited'
  BY DEF PowerLoss
<1>2. Base' = Base /\ DiskReadable' = DiskReadable
  BY <1>1, SameFiles
<1>3. AlwaysReadable'
  BY <1>1, <1>2 DEF IInv, AlwaysReadable
<1>4. /\ wal \in Logs /\ stable \in 0..Len(wal) /\ Len(wal) \in Nat /\ Torn \in Entry
      /\ Torn.op = "torn"
  BY BaseType, EntryFacts, AppendFacts DEF IInv, TypeOK
<1>5. PrefixInv'
  <2>1. SUFFICES ASSUME forfeited' = {}
                 PROVE  PrefixesAllowed(Base, wal', stable', allowed)
    BY <1>1, <1>2 DEF PrefixInv
  <2>2. PrefixesAllowed(Base, wal, stable, allowed)
    BY <1>1, <2>1 DEF IInv, PrefixInv
  <2>3. ASSUME NEW n \in stable..Len(wal),
               \/ wal' = SubSeq(wal, 1, n) /\ stable' = n
               \/ wal' = Append(SubSeq(wal, 1, n), Torn) /\ stable' = n + 1
        PROVE  PrefixesAllowed(Base, wal', stable', allowed)
    <3> DEFINE w == SubSeq(wal, 1, n)
    <3>1. w \in Logs /\ Len(w) = n /\ Recover(Base, w) \in allowed
      BY <1>4, <2>2, PrefixFacts DEF PrefixesAllowed
    <3> HIDE DEF w
    <3>2. PrefixesAllowed(Base, w, n, allowed)
      BY <3>1, PrefixOne
    <3>3. /\ Append(w, Torn) \in Logs /\ Len(Append(w, Torn)) = n + 1
          /\ Recover(Base, Append(w, Torn)) \in allowed
      BY <1>4, <3>1, AppendFacts, RecoverHidden
    <3>4. PrefixesAllowed(Base, Append(w, Torn), n + 1, allowed)
      BY <3>3, PrefixOne
    <3>5. \/ wal' = w /\ stable' = n
          \/ wal' = Append(w, Torn) /\ stable' = n + 1
      BY <2>3 DEF w
    <3> QED BY <3>2, <3>4, <3>5
  <2>4. ASSUME wal' = <<>>, stable' = 0, stable = 0
        PROVE  PrefixesAllowed(Base, wal', stable', allowed)
    <3>1. Recover(Base, SubSeq(wal, 1, 0)) \in allowed
      BY <1>4, <2>2, <2>4 DEF PrefixesAllowed
    <3>2. Recover(Base, <<>>) \in allowed /\ <<>> \in Logs /\ Len(<<>>) = 0
      BY <1>4, <3>1, PrefixFacts, SequenceType DEF Logs
    <3>3. PrefixesAllowed(Base, <<>>, Len(<<>>), allowed)
      BY <3>2, PrefixOne
    <3> QED BY <2>4, <3>2, <3>3
  <2>5. \/ \E n \in stable..Len(wal) :
              \/ wal' = SubSeq(wal, 1, n) /\ stable' = n
              \/ wal' = Append(SubSeq(wal, 1, n), Torn) /\ stable' = n + 1
        \/ wal' = <<>> /\ stable' = 0 /\ stable = 0
    BY <1>4, <2>1 DEF PowerLoss
  <2> QED BY <2>3, <2>4, <2>5
<1> QED BY <1>1, <1>3, <1>5, DownStep DEF IInv

LEMMA OpenStep ==
    ASSUME IInv, TypeOK', NEW d \in Durabilities, NEW s \in Layouts, Open(d, s)
    PROVE  IInv'
<1>1. /\ TypeOK /\ handle = "down" /\ handle' = "open" /\ pc = "idle" /\ pc' = "idle"
      /\ durability' = d /\ fd' \in {"none", "live"}
      /\ mem' = Recovered /\ live' = Recovered
      /\ UNCHANGED <<wal, stable, snapshot, manifest, segments, undo>> /\ DiskReadable
  BY DEF IInv, SessionInv, Open, running
<1>2. Base' = Base /\ Recovered' = Recovered /\ DiskReadable' /\ wal \in Logs
      /\ stable \in 0..Len(wal)
  BY <1>1, SameFiles, BaseType DEF Recovered, TypeOK
<1>3. /\ SessionInv' /\ MemoryInv' /\ LogInv' /\ CheckpointInv'
      /\ AlwaysReadable'
  BY <1>1, <1>2
  DEF IInv, SessionInv, MemoryInv, LogInv, CheckpointInv, AlwaysReadable
<1>4. PrefixInv'
  <2>1. SUFFICES ASSUME forfeited' = {}
                 PROVE  PrefixesAllowed(Base, wal, stable, allowed')
    BY <1>1, <1>2 DEF PrefixInv
  <2>2. CASE Synced
    <3>1. stable = Len(wal) /\ Recover(Base, wal) \in allowed'
      BY <2>2 DEF Synced, Open, Recovered
    <3> QED BY <1>2, <3>1, PrefixOne
  <2>3. CASE ~Synced
    <3>1. forfeited = {} /\ allowed \subseteq allowed'
      BY <2>1, <2>3 DEF Open
    <3>2. PrefixesAllowed(Base, wal, stable, allowed)
      BY <3>1 DEF IInv, PrefixInv
    <3> QED BY <3>1, <3>2 DEF PrefixesAllowed
  <2> QED BY <2>2, <2>3
<1> QED BY <1>3, <1>4 DEF IInv

-----------------------------------------------------------------------------
(* The invariant. *)

LEMMA InvInit == Init => IInv
<1> SUFFICES ASSUME Init PROVE IInv
  OBVIOUS
<1>1. TypeOK
  BY TypeInit
<1>2. Base = EmptyStore
  BY NoFileAssumption DEF Init, Base
<1>3. SessionInv /\ MemoryInv /\ LogInv /\ CheckpointInv /\ AlwaysReadable
  BY DEF Init, SessionInv, MemoryInv, LogInv, CheckpointInv, AlwaysReadable,
         DiskReadable
<1>4. PrefixInv
  <2>1. Recover(EmptyStore, <<>>) = EmptyStore /\ <<>> \in Logs /\ Len(<<>>) = 0
    BY ContentsFacts, RecoverEmpty, SequenceType DEF Logs
  <2>2. PrefixesAllowed(EmptyStore, <<>>, Len(<<>>), {EmptyStore})
    BY <2>1, PrefixOne
  <2> QED BY <1>2, <2>1, <2>2 DEF Init, PrefixInv
<1> QED BY <1>1, <1>3, <1>4 DEF IInv

LEMMA InvStep ==
    ASSUME IInv, [Next]_vars
    PROVE  IInv'
<1>1. TypeOK'
  BY TypeStep DEF IInv
<1>2. CASE UNCHANGED vars
  <2>1. Base' = Base /\ DiskReadable' = DiskReadable
    BY <1>2, SameFiles DEF vars, disk
  <2> QED BY <1>1, <1>2, <2>1
          DEF IInv, vars, disk, session, running, promises, SessionInv, MemoryInv,
              LogInv, CheckpointInv, PrefixInv, AlwaysReadable, Recovered
<1>3. CASE Next
  BY <1>1, <1>3, OpenStep, WriteStep, WriteFailsStep, BeginStep, BeginFailsStep, ApplyStep,
     ApplyFailsStep, CommitStep, CommitFailsStep, PublishStep, TidyStep, ResetStep,
     ResetFailsStep, StopStep, CrashInAppendStep, PowerLossStep
  DEF Next
<1> QED BY <1>2, <1>3

\* No failure and no crash leads the engine out of its invariant: what memory,
\* log, base and every prefix of the log say of each other always holds.
THEOREM Invariant == Spec => []IInv
  BY InvInit, InvStep, PTL DEF Spec

LEMMA InvRecoverySound == IInv => RecoverySound
<1> SUFFICES ASSUME IInv, forfeited = {} PROVE Recovered \in allowed
  BY DEF RecoverySound
<1>1. /\ wal \in Logs /\ stable \in 0..Len(wal)
      /\ PrefixesAllowed(Base, wal, stable, allowed)
  BY BaseType DEF IInv, TypeOK, PrefixInv
<1> QED BY <1>1, PrefixWhole DEF Recovered

\* Whatever a crash, a power loss or a failed call left in the directory, the
\* store that open() builds from it is one the acknowledged calls allow, as long
\* as none of the eight causes in Causes is outstanding.
THEOREM RecoveryIsSound == Spec => []RecoverySound
  BY Invariant, InvRecoverySound, PTL

LEMMA InvMemory == IInv => MemoryIsWhatWasAcknowledged
  BY DEF IInv, MemoryInv, MemoryIsWhatWasAcknowledged, Idle

\* Between two calls memory holds what the successful calls made it: a batch
\* that fails half way, whatever it wrote and however often, is undone whole.
THEOREM MemoryIsExact == Spec => []MemoryIsWhatWasAcknowledged
  BY Invariant, InvMemory, PTL

LEMMA InvDisk == IInv => DiskMatchesMemory
  BY DEF IInv, LogInv, DiskMatchesMemory, Idle

\* Between two calls of a logged session a crash would cost nothing: base and
\* log together give back the store in memory.
THEOREM DiskIsExact == Spec => []DiskMatchesMemory
  BY Invariant, InvDisk, PTL

LEMMA InvReadable == IInv => AlwaysReadable
  BY DEF IInv

\* No order of publishing, tidying up and crashing, in either layout, leaves a
\* manifest that names a segment which is gone.
THEOREM DirectoryIsReadable == Spec => []AlwaysReadable
  BY Invariant, InvReadable, PTL

LEMMA CheckpointStep ==
    ASSUME IInv, IInv', (\E c \in Calls : Publish(c)) \/ Tidy \/ Reset \/ ResetFails,
           forfeited \union forfeited' \subseteq {"unsynced_log"}, fd # "none"
    PROVE  Recovered' = Recovered
<1>1. pc # "apply" /\ Recovered = mem
  BY DEF IInv, LogInv, Publish, Idle, Tidy, Reset, ResetFails
<1>2. CASE (\E c \in Calls : Publish(c)) \/ Tidy \/ ResetFails
  <2>1. mem' = mem /\ fd' # "none" /\ pc' # "apply"
    BY <1>2 DEF Publish, Tidy, ResetFails, session
  <2>2. Recovered' = mem'
    BY <2>1 DEF IInv, LogInv
  <2> QED BY <1>1, <2>1, <2>2
<1>3. CASE Reset
  <2>1. wal' = <<>> /\ Base' = Base /\ Base = mem /\ mem \in Stores
    BY <1>3, SameFiles DEF Reset, IInv, CheckpointInv, TypeOK
  <2> QED BY <1>1, <2>1, RecoverEmpty DEF Recovered
<1> QED BY <1>2, <1>3

\* A checkpoint changes files and never what they mean: at each of its steps, a
\* crash would recover the store that it would have recovered before the step.
THEOREM CheckpointChangesNothing == Spec => CheckpointIsInvisible
<1>1. ASSUME IInv, IInv', [Next]_vars
      PROVE  [(\E c \in Calls : Publish(c)) \/ Tidy \/ Reset \/ ResetFails =>
               (forfeited \union forfeited' \subseteq {"unsynced_log"} /\ fd # "none" =>
                  Recovered' = Recovered)]_vars
  BY <1>1, CheckpointStep
<1> QED BY <1>1, Invariant, PTL DEF Spec, CheckpointIsInvisible

-----------------------------------------------------------------------------
(* The engine implements AtomicStore: each of its steps is a step of the     *)
(* abstract store or leaves it as it is.                                     *)

RestartableCorrect == Recovered \in Restartable /\ (Synced => Restartable = {Recovered})

LEMMA RestartableFacts == TypeOK => RestartableCorrect
<1> SUFFICES ASSUME TypeOK
             PROVE  Recovered \in Restartable /\ (Synced => Restartable = {Recovered})
  BY DEF RestartableCorrect
<1>1. wal \in Logs /\ stable \in 0..Len(wal) /\ Len(wal) \in Nat
  BY BaseType, AppendFacts DEF TypeOK
<1>2. Len(wal) \in stable..Len(wal) /\ SubSeq(wal, 1, Len(wal)) = wal
  BY <1>1, PrefixFacts
<1>3. Recovered \in Restartable
  BY <1>2 DEF Restartable, Recovered
<1>4. ASSUME Synced
      PROVE  Restartable = {Recovered}
  <2>1. \A n \in stable..Len(wal) : n = Len(wal)
    BY <1>1, <1>4 DEF Synced
  <2> QED BY <1>2, <2>1 DEF Restartable, Recovered
<1> QED BY <1>3, <1>4 DEF RestartableCorrect

LEMMA RestartableKept ==
    ASSUME UNCHANGED <<wal, stable>>, Base' = Base
    PROVE  Recovered' = Recovered /\ Restartable' = Restartable
  BY DEF Recovered, Restartable

LEMMA RestartableAppend ==
    ASSUME TypeOK, Base' = Base, NEW e \in Entry, wal' = Append(wal, e),
           stable' \in {stable, Len(wal) + 1}
    PROVE  /\ Recovered' = Recover(Base, Append(wal, e))
           /\ stable' = stable => Restartable' = Restartable \union {Recovered'}
           /\ stable' = Len(wal) + 1 => Restartable' = {Recovered'}
<1>1. /\ wal \in Logs /\ stable \in 0..Len(wal) /\ Len(wal) \in Nat
      /\ Append(wal, e) \in Logs /\ Len(Append(wal, e)) = Len(wal) + 1
  BY BaseType, AppendFacts DEF TypeOK
<1> DEFINE w == Append(wal, e)
           At(n) == Recover(Base, SubSeq(w, 1, n))
<1>2. Recovered' = Recover(Base, w)
  BY DEF Recovered
<1>3. At(Len(wal) + 1) = Recovered'
  BY <1>1, <1>2, PrefixFacts
<1>4. ASSUME NEW n \in stable..Len(wal)
      PROVE  At(n) = Recover(Base, SubSeq(wal, 1, n))
  <2>1. n \in 0..Len(wal)
    BY <1>1
  <2> QED BY <1>1, <2>1, PrefixFacts
<1>5. Restartable' = {At(n) : n \in stable'..(Len(wal) + 1)}
  BY <1>1 DEF Restartable
<1> HIDE DEF w, At
<1>6. ASSUME stable' = stable
      PROVE  Restartable' = Restartable \union {Recovered'}
  <2>1. stable..(Len(wal) + 1) = (stable..Len(wal)) \union {Len(wal) + 1}
    BY <1>1
  <2>2. Restartable = {At(n) : n \in stable..Len(wal)}
    BY <1>4 DEF Restartable
  <2> QED BY <1>3, <1>5, <1>6, <2>1, <2>2
<1>7. ASSUME stable' = Len(wal) + 1
      PROVE  Restartable' = {Recovered'}
  <2>1. \A n \in (Len(wal) + 1)..(Len(wal) + 1) : n = Len(wal) + 1
    BY <1>1
  <2>2. Len(wal) + 1 \in (Len(wal) + 1)..(Len(wal) + 1)
    BY <1>1
  <2> QED BY <1>3, <1>5, <1>7, <2>1, <2>2
<1> QED BY <1>2, <1>6, <1>7 DEF w

\* An entry that recovers to the same store is nothing that anybody sees.
LEMMA QuietAppend ==
    ASSUME TypeOK, Base' = Base, NEW e \in Entry, Recover(Base, Append(wal, e)) = Recovered,
           \/ UNCHANGED <<wal, stable>>
           \/ wal' = Append(wal, e) /\ stable' \in {stable, Len(wal) + 1}
    PROVE  Atomic!Quiet
<1>1. CASE UNCHANGED <<wal, stable>>
  BY <1>1, RestartableKept DEF Atomic!Quiet
<1>2. CASE wal' = Append(wal, e) /\ stable' \in {stable, Len(wal) + 1}
  <2>1. Recovered' = Recovered
    BY <1>2, RestartableAppend
  <2>2. Restartable' = Restartable \union {Recovered} \/ Restartable' = {Recovered}
    BY <1>2, <2>1, RestartableAppend
  <2> QED BY <2>1, <2>2, RestartableFacts DEF RestartableCorrect, Atomic!Quiet
<1> QED BY <1>1, <1>2

\* What the abstract store is, read off the session.
MapCorrect ==
    /\ Mode \in {"down", "strict", "lazy", "unlogged"}
    /\ Atomic!Up <=> handle = "open"
    /\ Atomic!Logged <=> fd # "none"
    /\ fd # "none" => handle = "open" /\ (Mode = "lazy" <=> durability = "relaxed")
    /\ Mode = "unlogged" <=> handle = "open" /\ fd = "none"
    /\ pc # "apply" => Visible = mem /\ Pending = NoFile
    /\ pc = "apply" => Visible = UndoAll(mem, undo) /\ Pending = Outcome(mem, todo)
    /\ Pending = NoFile <=> pc # "apply"
    /\ Visible \in Stores /\ Pending \in Stores \union {NoFile}

LEMMA MapFacts == IInv => MapCorrect
<1> SUFFICES ASSUME TypeOK, SessionInv PROVE MapCorrect
  BY DEF IInv
<1>1. Mode \in {"down", "strict", "lazy", "unlogged"}
  BY DEF Mode
<1>2. /\ Atomic!Up <=> handle = "open"
      /\ Atomic!Logged <=> fd # "none"
      /\ fd # "none" => handle = "open" /\ (Mode = "lazy" <=> durability = "relaxed")
      /\ Mode = "unlogged" <=> handle = "open" /\ fd = "none"
  BY DEF TypeOK, SessionInv, Mode, Atomic!Up, Atomic!Logged
<1>3. /\ pc # "apply" => Visible = mem /\ Pending = NoFile
      /\ pc = "apply" => Visible = UndoAll(mem, undo) /\ Pending = Outcome(mem, todo)
  BY DEF Visible, Pending
<1>4. Visible \in Stores /\ Outcome(mem, todo) \in Stores
  BY <1>3, UndoAllType, OutcomeType DEF TypeOK
<1>5. Pending = NoFile <=> pc # "apply"
  BY <1>3, <1>4, NoFileAssumption
<1>6. Pending \in Stores \union {NoFile}
  BY <1>3, <1>4
<1> QED BY <1>1, <1>2, <1>3, <1>4, <1>5, <1>6 DEF MapCorrect

LEMMA SameStores == Atomic!EmptyStore = EmptyStore /\ Atomic!Stores = Stores
  BY DEF Atomic!EmptyStore, Atomic!Stores, EmptyStore, Stores

\* As long as no promise is forfeited, memory and disk say the same.
LEMMA Coherence == IInv => (Excused \/ Atomic!Coherent)
<1> SUFFICES ASSUME IInv, forfeited = {} PROVE Atomic!Coherent
  BY DEF Excused
<1>1. MapCorrect /\ Recovered \in Restartable
  BY MapFacts, RestartableFacts DEF IInv, RestartableCorrect
<1>2. ASSUME fd # "none"
      PROVE  Recovered = Visible
  <2>1. CASE pc # "apply"
    BY <1>1, <1>2, <2>1 DEF IInv, LogInv, MapCorrect
  <2>2. CASE pc = "apply"
    BY <1>1, <1>2, <2>2 DEF IInv, LogInv, MemoryInv, MapCorrect
  <2> QED BY <2>1, <2>2
<1> QED BY <1>1, <1>2 DEF Atomic!Coherent, MapCorrect

\* The same of the state after a step.
LEMMA CoherenceNext == IInv' => (Excused' \/ Atomic!Coherent')
  BY Coherence, PTL

LEMMA MapNext == IInv' => MapCorrect'
  BY MapFacts, PTL

LEMMA RestartableNext == TypeOK' => RestartableCorrect'
  BY RestartableFacts, PTL

-----------------------------------------------------------------------------
(* What the steps share. *)

LEMMA ModeKept ==
    ASSUME UNCHANGED <<handle, durability>>, fd = "none" <=> fd' = "none"
    PROVE  Mode' = Mode
  BY DEF Mode

LEMMA DownMap ==
    ASSUME GoDown
    PROVE  Atomic!Down
  BY SameStores DEF GoDown, Atomic!Down, Mode, Visible, Pending

LEMMA LoggedFacts ==
    ASSUME NEW e \in Entry, Logged(e)
    PROVE  \/ fd = "none" /\ UNCHANGED <<wal, stable>>
           \/ /\ fd = "live" /\ wal' = Append(wal, e)
              /\ stable' = IF durability = "relaxed" THEN stable ELSE Len(wal) + 1
  BY DEF Logged, CanAppend, Append1, SyncEachWrite

LEMMA QuietLogged ==
    ASSUME TypeOK, Base' = Base, NEW e \in Entry, Logged(e),
           fd = "live" => Recover(Base, Append(wal, e)) = Recovered
    PROVE  Atomic!Quiet
<1>1. CASE UNCHANGED <<wal, stable>>
  BY <1>1, RestartableKept DEF Atomic!Quiet
<1>2. CASE ~UNCHANGED <<wal, stable>>
  <2>1. fd = "live" /\ wal' = Append(wal, e) /\ stable' \in {stable, Len(wal) + 1}
    BY <1>2, LoggedFacts
  <2> QED BY <2>1, QuietAppend
<1> QED BY <1>1, <1>2

LEMMA QuietFailure ==
    ASSUME TypeOK, Base' = Base, UNCHANGED stable, NEW e \in Entry, LogFails(e),
           fd = "live" /\ wal' = Append(wal, e) => Recover(Base, Append(wal, e)) = Recovered
    PROVE  Atomic!Quiet
<1>1. wal \in Logs /\ Torn \in Entry /\ Torn.op = "torn"
  BY BaseType, EntryFacts
<1>2. Recover(Base, Append(wal, Torn)) = Recovered
  BY <1>1, RecoverHidden DEF Recovered
<1>3. \/ wal' = wal
      \/ wal' = Append(wal, Torn)
      \/ wal' = Append(wal, e) /\ Recover(Base, Append(wal, e)) = Recovered
  BY LogFailsFacts
<1>4. CASE wal' = wal
  BY <1>4, RestartableKept DEF Atomic!Quiet
<1>5. CASE wal' = Append(wal, Torn)
  BY <1>1, <1>2, <1>5, QuietAppend
<1>6. CASE wal' = Append(wal, e) /\ Recover(Base, Append(wal, e)) = Recovered
  BY <1>6, QuietAppend
<1> QED BY <1>3, <1>4, <1>5, <1>6

\* The entry that completes a call makes what memory holds the store on the disk.
LEMMA LastingAppend ==
    ASSUME IInv, IInv', forfeited' = {}, Base' = Base, NEW e \in Entry, Logged(e),
           pc' = "idle", UNCHANGED fd
    PROVE  IF Atomic!Logged
           THEN /\ Recovered' = mem'
                /\ Restartable' = IF Mode = "lazy" THEN Restartable \union {mem'} ELSE {mem'}
           ELSE UNCHANGED <<Recovered, Restartable>>
<1>1. TypeOK /\ MapCorrect
  BY MapFacts DEF IInv
<1>2. CASE fd = "none"
  <2>1. UNCHANGED <<wal, stable>>
    BY <1>2, LoggedFacts
  <2> QED BY <1>1, <1>2, <2>1, RestartableKept DEF MapCorrect
<1>3. CASE fd # "none"
  <2>1. /\ wal' = Append(wal, e)
        /\ stable' = IF durability = "relaxed" THEN stable ELSE Len(wal) + 1
    BY <1>3, LoggedFacts
  <2>2. Recovered' = mem'
    BY <1>3 DEF IInv, LogInv
  <2>3. /\ stable' = stable => Restartable' = Restartable \union {mem'}
        /\ stable' = Len(wal) + 1 => Restartable' = {mem'}
    BY <1>1, <2>1, <2>2, RestartableAppend
  <2> QED BY <1>1, <1>3, <2>1, <2>2, <2>3 DEF MapCorrect
<1> QED BY <1>2, <1>3

\* A step within a session that leaves no trace, or one that is excused.
LEMMA WorkStep ==
    ASSUME IInv, IInv', handle = "open", UNCHANGED <<Mode, Visible, Pending>>,
           forfeited = {} /\ forfeited' = {} => Atomic!Quiet
    PROVE  Atomic!Work
  BY MapFacts, CoherenceNext
  DEF MapCorrect, Excused, Atomic!Work, Atomic!Stay, Atomic!Unless

LEMMA LeaveStep ==
    ASSUME IInv, IInv', handle = "open", GoDown,
           forfeited = {} /\ forfeited' = {} => Atomic!Quiet
    PROVE  Atomic!Leave
  BY MapFacts, DownMap, CoherenceNext
  DEF MapCorrect, Excused, Atomic!Leave, Atomic!Unless

-----------------------------------------------------------------------------
(* The calls. *)

LEMMA OpenMap ==
    ASSUME IInv, IInv', NEW d \in Durabilities, NEW s \in Layouts, Open(d, s)
    PROVE  Atomic!Open
<1>1. /\ handle = "down" /\ handle' = "open" /\ pc = "idle" /\ pc' = "idle" /\ mem' = Recovered
      /\ UNCHANGED <<wal, stable, snapshot, manifest, segments>>
  BY DEF IInv, SessionInv, Open, running
<1>2. UNCHANGED <<Recovered, Restartable>>
  BY <1>1, SameFiles, RestartableKept
<1>3. Mode' \in {"strict", "lazy", "unlogged"}
  BY <1>1 DEF Mode
<1> QED
  BY <1>1, <1>2, <1>3, MapFacts, MapNext, CoherenceNext
  DEF MapCorrect, Excused, Atomic!Open, Atomic!Unless

LEMMA WriteMap ==
    ASSUME IInv, IInv', NEW k \in Keys, NEW c \in Contents, Write(k, c)
    PROVE  Atomic!Write
<1>1. /\ handle = "open" /\ pc = "idle" /\ pc' = "idle" /\ Logged(Put(k, c))
      /\ UNCHANGED <<handle, durability, fd, snapshot, manifest, segments>>
      /\ mem' = [mem EXCEPT ![k] = c]
  BY DEF Write, Idle, session, running
<1>2. Mode' = Mode /\ Base' = Base /\ Put(k, c) \in Entry
  BY <1>1, ModeKept, SameFiles, EntryFacts
<1>3. forfeited' = {} => Atomic!Lasting(Visible')
  <2>1. SUFFICES ASSUME forfeited' = {} PROVE Atomic!Lasting(Visible')
    OBVIOUS
  <2>2. Visible' = mem'
    BY <1>1, MapNext DEF MapCorrect
  <2> QED BY <1>1, <1>2, <2>1, <2>2, LastingAppend DEF Atomic!Lasting
<1> QED
  BY <1>1, <1>2, <1>3, MapFacts, MapNext, CoherenceNext
  DEF MapCorrect, Excused, Atomic!Write, Atomic!Stay, Atomic!Unless

LEMMA WriteFailsMap ==
    ASSUME IInv, IInv', NEW k \in Keys, NEW c \in Contents, WriteFails(k, c)
    PROVE  Atomic!Work
<1>1. /\ TypeOK /\ handle = "open" /\ pc = "idle" /\ pc' = "idle" /\ LogFails(Put(k, c))
      /\ UNCHANGED <<handle, durability, fd, snapshot, manifest, segments, stable, mem>>
  BY DEF IInv, WriteFails, Idle, session, running
<1>2. /\ Base' = Base /\ wal \in Logs /\ Put(k, c) \in Entry /\ IsPut(Put(k, c))
      /\ UNCHANGED <<Mode, Visible, Pending>>
  BY <1>1, ModeKept, SameFiles, BaseType, EntryFacts DEF Visible, Pending
<1>3. ASSUME forfeited' = {}, wal' = Append(wal, Put(k, c))
      PROVE  Recover(Base, Append(wal, Put(k, c))) = Recovered
  <2>1. ~Clean(wal)
    BY <1>3 DEF WriteFails
  <2> QED BY <1>2, <2>1, RecoverHidden, RecoverPutInTxn DEF Clean, Recovered
<1>4. forfeited' = {} => Atomic!Quiet
  BY <1>1, <1>2, <1>3, QuietFailure
<1> QED BY <1>1, <1>2, <1>4, WorkStep

LEMMA BeginMap ==
    ASSUME IInv, IInv', NEW batch \in Batches, Begin(batch)
    PROVE  Atomic!Begin
<1>1. /\ TypeOK /\ handle = "open" /\ pc = "idle" /\ pc' = "apply" /\ Logged(TxnBegin)
      /\ UNCHANGED <<handle, durability, fd, snapshot, manifest, segments, mem>>
      /\ undo' = <<>>
  BY DEF IInv, Begin, Idle, session
<1>2. /\ Mode' = Mode /\ Base' = Base /\ wal \in Logs
      /\ TxnBegin \in Entry /\ TxnBegin.op = "txn_begin"
  BY <1>1, ModeKept, SameFiles, BaseType, EntryFacts
<1>3. Atomic!Quiet
  <2>1. Recover(Base, Append(wal, TxnBegin)) = Recovered
    BY <1>2, RecoverBegin DEF Recovered
  <2> QED BY <1>1, <1>2, <2>1, QuietLogged
<1>4. Visible' = Visible
  <2>1. Visible = mem /\ Visible' = UndoAll(mem, <<>>)
    BY <1>1, MapFacts, MapNext DEF MapCorrect
  <2> QED BY <1>1, <2>1, UndoNothing DEF TypeOK
<1>5. Pending = NoFile /\ Pending' \in Atomic!Stores
  BY <1>1, MapFacts, MapNext, SameStores DEF MapCorrect
<1> QED
  BY <1>1, <1>2, <1>3, <1>4, <1>5, MapFacts, CoherenceNext
  DEF MapCorrect, Excused, Atomic!Begin, Atomic!Stay, Atomic!Unless

LEMMA BeginFailsMap ==
    ASSUME IInv, IInv', BeginFails
    PROVE  Atomic!Work
<1>1. /\ TypeOK /\ handle = "open" /\ pc = "idle" /\ pc' = "idle" /\ LogFails(TxnBegin)
      /\ UNCHANGED <<handle, durability, fd, snapshot, manifest, segments, stable, mem>>
  BY DEF IInv, BeginFails, Idle, session, running
<1>2. /\ Base' = Base /\ wal \in Logs /\ TxnBegin \in Entry /\ TxnBegin.op = "txn_begin"
      /\ UNCHANGED <<Mode, Visible, Pending>>
  BY <1>1, ModeKept, SameFiles, BaseType, EntryFacts DEF Visible, Pending
<1>3. Recover(Base, Append(wal, TxnBegin)) = Recovered
  BY <1>2, RecoverBegin DEF Recovered
<1>4. Atomic!Quiet
  BY <1>1, <1>2, <1>3, QuietFailure
<1> QED BY <1>1, <1>2, <1>4, WorkStep

\* The next operation of a batch, and what it leaves alone.
LEMMA NextOperation ==
    ASSUME IInv, pc = "apply", todo # <<>>
    PROVE  Head(todo).key \in Keys /\ Head(todo).val \in Contents
<1>1. Head(todo) \in [key : Keys, val : Contents]
  BY SequenceType DEF IInv, TypeOK
<1> QED BY <1>1

LEMMA ApplyMap ==
    ASSUME IInv, IInv', Apply
    PROVE  Atomic!Work
<1> DEFINE k == Head(todo).key
           c == Head(todo).val
<1>1. /\ TypeOK /\ pc = "apply" /\ pc' = "apply" /\ k \in Keys /\ c \in Contents
      /\ UNCHANGED <<handle, durability, fd, snapshot, manifest, segments>>
      /\ undo' = Append(undo, [key |-> k, previous |-> mem[k]])
      /\ todo # <<>> /\ todo' = Tail(todo)
  BY NextOperation DEF IInv, Apply, session
<1>2. \/ UNCHANGED <<wal, stable, mem>> /\ c = NoRecord /\ mem[k] = NoRecord
      \/ Logged(Put(k, c)) /\ mem' = [mem EXCEPT ![k] = c]
  BY DEF Apply, Skipped
<1>o. Outcome([mem EXCEPT ![k] = c], todo') = Outcome(mem, todo)
  <2>1. mem \in Stores /\ todo \in Seq(Op)
    BY <1>1 DEF TypeOK, Op
  <2> QED BY <1>1, <2>1, OutcomeStep
<1> HIDE DEF k, c
<1>3. /\ Mode' = Mode /\ Base' = Base /\ Put(k, c) \in Entry /\ mem \in Stores
      /\ handle = "open"
  BY <1>1, ModeKept, SameFiles, EntryFacts DEF IInv, SessionInv, TypeOK
<1>4. mem' = [mem EXCEPT ![k] = c]
  <2>1. mem[k] = c => [mem EXCEPT ![k] = c] = mem
    BY <1>3 DEF Stores
  <2> QED BY <1>2, <2>1
<1>5. Visible' = Visible
  <2>1. undo \in Seq(UndoEntry) /\ mem' \in Stores
    BY <1>1 DEF IInv, TypeOK, UndoEntry
  <2>2. UndoAll(mem', undo') = UndoAll(mem, undo)
    BY <1>1, <1>3, <1>4, <2>1, UndoAppend, ZenonT(60)
  <2> QED BY <1>1, <2>2 DEF Visible
<1>6. Pending' = Pending
  BY <1>1, <1>o, <1>4 DEF Pending
<1>7. Atomic!Quiet
  <2>1. CASE UNCHANGED <<wal, stable>>
    BY <1>3, <2>1, RestartableKept DEF Atomic!Quiet
  <2>2. CASE ~UNCHANGED <<wal, stable>>
    <3>1. Logged(Put(k, c))
      BY <1>2, <2>2
    <3>2. fd = "live" => Recover(Base, Append(wal, Put(k, c))) = Recovered
      BY <1>1, PutInBatch DEF Recovered
    <3> QED BY <1>1, <1>3, <3>1, <3>2, QuietLogged
  <2> QED BY <2>1, <2>2
<1> QED BY <1>3, <1>5, <1>6, <1>7, WorkStep

LEMMA ApplyFailsMap ==
    ASSUME IInv, IInv', ApplyFails
    PROVE  Atomic!GiveUp
<1> DEFINE k == Head(todo).key
           c == Head(todo).val
<1>1. /\ TypeOK /\ pc = "apply" /\ pc' = "idle" /\ k \in Keys /\ c \in Contents
      /\ UNCHANGED <<handle, durability, fd, snapshot, manifest, segments, stable>>
      /\ LogFails(Put(k, c)) /\ mem' = UndoAll(mem, undo)
  BY NextOperation DEF IInv, ApplyFails, EndCall, session
<1> HIDE DEF k, c
<1>2. /\ Mode' = Mode /\ Base' = Base /\ Put(k, c) \in Entry /\ handle = "open"
  BY <1>1, ModeKept, SameFiles, EntryFacts DEF IInv, SessionInv, TypeOK
<1>3. Atomic!Quiet
  <2>1. fd = "live" => Recover(Base, Append(wal, Put(k, c))) = Recovered
    BY <1>1, PutInBatch DEF Recovered
  <2> QED BY <1>1, <1>2, <2>1, QuietFailure
<1>4. Visible' = Visible /\ Pending # NoFile /\ Pending' = NoFile
  BY <1>1, MapFacts, MapNext DEF MapCorrect
<1> QED
  BY <1>2, <1>3, <1>4, MapFacts, CoherenceNext
  DEF MapCorrect, Excused, Atomic!GiveUp, Atomic!Stay, Atomic!Unless

\* Commit, and the commit that fails at its marker and undoes nothing, make the
\* same of memory; the disk has the batch in the first case only.
LEMMA CommitMemory ==
    ASSUME IInv, IInv', pc = "apply", todo = <<>>, pc' = "idle", UNCHANGED mem
    PROVE  /\ handle = "open" /\ Visible' = Pending
           /\ Pending = mem /\ Pending # NoFile /\ Pending' = NoFile
<1>1. handle = "open" /\ Outcome(mem, <<>>) = mem
  BY OutcomeNothing DEF IInv, TypeOK, SessionInv
<1> QED BY <1>1, MapFacts, MapNext DEF MapCorrect

LEMMA CommitMap ==
    ASSUME IInv, IInv', Commit
    PROVE  Atomic!Commit
<1>1. /\ pc = "apply" /\ pc' = "idle" /\ todo = <<>> /\ Logged(TxnCommit)
      /\ UNCHANGED <<handle, durability, fd, snapshot, manifest, segments, mem>>
  BY DEF Commit, EndCall, session
<1>2. Mode' = Mode /\ Base' = Base /\ TxnCommit \in Entry
  BY <1>1, ModeKept, SameFiles, EntryFacts
<1>3. /\ handle = "open" /\ Visible' = Pending
      /\ Pending = mem /\ Pending # NoFile /\ Pending' = NoFile
  BY <1>1, CommitMemory
<1>4. forfeited' = {} => Atomic!Lasting(Pending)
  <2>1. SUFFICES ASSUME forfeited' = {} PROVE Atomic!Lasting(Pending)
    OBVIOUS
  <2> QED BY <1>1, <1>2, <1>3, <2>1, LastingAppend DEF Atomic!Lasting
<1> QED
  BY <1>2, <1>3, <1>4, MapFacts, CoherenceNext
  DEF MapCorrect, Excused, Atomic!Commit, Atomic!Stay, Atomic!Unless

LEMMA CommitFailsMap ==
    ASSUME IInv, IInv', CommitFails
    PROVE  Atomic!Commit
<1>1. /\ pc = "apply" /\ pc' = "idle" /\ todo = <<>> /\ forfeited' # {}
      /\ UNCHANGED <<handle, durability, fd, mem>>
  BY DEF CommitFails, EndCall, session
<1>2. /\ Mode' = Mode /\ handle = "open"
      /\ Visible' = Pending /\ Pending # NoFile /\ Pending' = NoFile
  BY <1>1, ModeKept, CommitMemory
<1> QED
  BY <1>1, <1>2, MapFacts
  DEF MapCorrect, Excused, Atomic!Commit, Atomic!Stay, Atomic!Unless

-----------------------------------------------------------------------------
(* Checkpoints, and the end of a session. *)

LEMMA CheckpointMap ==
    ASSUME IInv, IInv', handle = "open", pc # "apply", pc' # "apply",
           UNCHANGED <<handle, durability, mem>>, fd = "none" <=> fd' = "none",
           forfeited = {} /\ forfeited' = {} =>
              \/ Atomic!Quiet
              \/ fd = "none" /\ Recovered' = mem /\ Restartable' = {mem}
    PROVE  Atomic!Work \/ Atomic!Save
<1>1. UNCHANGED <<Mode, Visible, Pending>>
  BY ModeKept DEF Visible, Pending
<1>2. MapCorrect
  BY MapFacts
<1>3. CASE forfeited = {} /\ forfeited' = {} => Atomic!Quiet
  BY <1>1, <1>3, WorkStep
<1>4. CASE fd = "none" /\ Recovered' = mem /\ Restartable' = {mem}
  BY <1>1, <1>2, <1>4, CoherenceNext
  DEF MapCorrect, Excused, Atomic!Save, Atomic!Stay, Atomic!Unless
<1> QED BY <1>3, <1>4

LEMMA NewBaseMap ==
    ASSUME IInv, IInv', pc # "apply", NewBase, UNCHANGED <<wal, stable>>, Base' = mem,
           forfeited' = {}
    PROVE  /\ Recovered' = mem /\ Restartable' = {mem}
           /\ fd # "none" => Atomic!Quiet
<1>1. /\ wal \in Logs /\ mem \in Stores /\ Synced /\ forfeited = {}
      /\ fd = "none" => wal = <<>>
  BY BaseType DEF IInv, TypeOK, NewBase
<1>2. Recover(mem, wal) = mem
  <2>1. CASE fd = "none"
    BY <1>1, <2>1, RecoverEmpty
  <2>2. CASE fd # "none"
    BY <1>1, <2>2, MemoryAsBase
  <2> QED BY <2>1, <2>2
<1>3. Recovered' = mem /\ Synced'
  BY <1>1, <1>2 DEF Recovered, Synced
<1>4. Restartable' = {mem}
  BY <1>3, RestartableNext DEF IInv, RestartableCorrect
<1>5. fd # "none" => Recovered = mem
  BY <1>1 DEF IInv, LogInv
<1> QED BY <1>3, <1>4, <1>5 DEF Atomic!Quiet

LEMMA PublishMap ==
    ASSUME IInv, IInv', NEW c \in Calls, Publish(c)
    PROVE  Atomic!Work \/ Atomic!Save
<1>1. /\ handle = "open" /\ pc = "idle" /\ pc' = "tidy" /\ mem # NoFile
      /\ UNCHANGED <<handle, durability, fd, mem, wal, stable>>
  BY NoFileAssumption DEF IInv, TypeOK, Publish, Idle, session
<1>2. CASE ~segmented /\ manifest # NoFile
  <2>1. Base' = Base
    BY <1>2 DEF Publish, Base
  <2>2. Atomic!Quiet
    BY <1>1, <2>1, RestartableKept DEF Atomic!Quiet
  <2>3. pc # "apply" /\ pc' # "apply"
    BY <1>1
  <2> QED BY <1>1, <2>2, <2>3, CheckpointMap
<1>3. CASE segmented \/ manifest = NoFile
  <2>1. NewBase /\ Base' = mem
    BY <1>1, <1>3 DEF Publish, Base
  <2>2. pc # "apply" /\ pc' # "apply"
    BY <1>1
  <2>3. forfeited' = {} => /\ Recovered' = mem /\ Restartable' = {mem}
                           /\ fd # "none" => Atomic!Quiet
    BY <1>1, <2>1, <2>2, NewBaseMap
  <2> QED BY <1>1, <2>2, <2>3, CheckpointMap
<1> QED BY <1>2, <1>3

LEMMA TidyMap ==
    ASSUME IInv, IInv', Tidy
    PROVE  Atomic!Work \/ Atomic!Save
<1>1. /\ handle = "open" /\ pc = "tidy" /\ pc' = "reset" /\ mem # NoFile
      /\ mem = IF segmented THEN manifest ELSE snapshot
      /\ UNCHANGED <<handle, durability, fd, mem, wal, stable>>
  BY NoFileAssumption DEF IInv, TypeOK, SessionInv, CheckpointInv, Tidy, session
<1>2. pc # "apply" /\ pc' # "apply"
  BY <1>1
<1>3. CASE forfeited' # {}
  BY <1>1, <1>2, <1>3, CheckpointMap
<1>4. CASE forfeited' = {}
  <2>1. Base' = mem /\ (Base = mem \/ NewBase)
    BY <1>1, <1>4 DEF Tidy, Base
  <2>2. CASE Base = mem
    <3>1. Atomic!Quiet
      BY <1>1, <2>1, <2>2, RestartableKept DEF Atomic!Quiet
    <3> QED BY <1>1, <1>2, <3>1, CheckpointMap
  <2>3. CASE NewBase
    <3>1. /\ Recovered' = mem /\ Restartable' = {mem}
          /\ fd # "none" => Atomic!Quiet
      BY <1>1, <1>2, <1>4, <2>1, <2>3, NewBaseMap
    <3> QED BY <1>1, <1>2, <3>1, CheckpointMap
  <2> QED BY <2>1, <2>2, <2>3
<1> QED BY <1>3, <1>4

\* With the log cut off, the base alone gives what base and log gave.
LEMMA TruncateMap ==
    ASSUME IInv, IInv', pc = "reset", fd # "none", wal' = <<>>, stable' = 0, Base' = Base,
           forfeited = {}
    PROVE  Atomic!Quiet
<1>1. Base = mem /\ Recovered = mem /\ mem \in Stores
  BY DEF IInv, CheckpointInv, LogInv, TypeOK
<1>2. Recovered' = Recovered
  BY <1>1, RecoverEmpty DEF Recovered
<1>3. Restartable' = {Recovered}
  BY <1>2, SequenceType, RestartableNext DEF IInv, Synced, RestartableCorrect
<1> QED BY <1>2, <1>3 DEF Atomic!Quiet

LEMMA ResetMap ==
    ASSUME IInv, IInv', Reset
    PROVE  Atomic!Work \/ Atomic!Leave
<1>1. handle = "open" /\ pc = "reset" /\ Base' = Base
  BY SameFiles DEF IInv, TypeOK, SessionInv, Reset
<1>2. forfeited = {} => Atomic!Quiet
  <2>1. CASE fd = "none"
    <3>1. UNCHANGED <<wal, stable>>
      BY <2>1 DEF Reset
    <3> QED BY <1>1, <3>1, RestartableKept DEF Atomic!Quiet
  <2>2. CASE fd # "none"
    <3>1. wal' = <<>> /\ stable' = 0
      BY <2>2 DEF Reset
    <3> QED BY <1>1, <2>2, <3>1, TruncateMap
  <2> QED BY <2>1, <2>2
<1>3. CASE GoDown
  BY <1>1, <1>2, <1>3, LeaveStep
<1>4. CASE ~GoDown
  <2>1. /\ pc' = "idle" /\ UNCHANGED <<handle, durability, mem>>
        /\ fd = "none" <=> fd' = "none"
    BY <1>4 DEF Reset
  <2>2. UNCHANGED <<Mode, Visible, Pending>>
    BY <1>1, <2>1, ModeKept DEF Visible, Pending
  <2> QED BY <1>1, <1>2, <2>2, WorkStep
<1> QED BY <1>3, <1>4

LEMMA ResetFailsMap ==
    ASSUME IInv, IInv', ResetFails
    PROVE  Atomic!Work
<1>1. /\ handle = "open" /\ pc = "reset" /\ pc' = "idle" /\ fd # "none" /\ fd' # "none"
      /\ UNCHANGED <<handle, durability, mem, forfeited>> /\ Base' = Base
      /\ UNCHANGED <<wal, stable>> \/ (wal' = <<>> /\ stable' = 0)
  BY SameFiles DEF IInv, TypeOK, SessionInv, ResetFails, promises
<1>2. UNCHANGED <<Mode, Visible, Pending>>
  BY <1>1, ModeKept DEF Visible, Pending
<1>3. forfeited = {} => Atomic!Quiet
  <2>1. CASE UNCHANGED <<wal, stable>>
    BY <1>1, <2>1, RestartableKept DEF Atomic!Quiet
  <2>2. CASE wal' = <<>> /\ stable' = 0
    BY <1>1, <2>2, TruncateMap
  <2> QED BY <1>1, <2>1, <2>2
<1> QED BY <1>1, <1>2, <1>3, WorkStep

LEMMA StopMap ==
    ASSUME IInv, IInv', Abandon \/ Crash
    PROVE  Atomic!Leave
<1>1. handle = "open" /\ GoDown /\ UNCHANGED <<wal, stable>> /\ Base' = Base
  BY SameFiles DEF Abandon, Crash, Idle, disk
<1>2. Atomic!Quiet
  BY <1>1, RestartableKept DEF Atomic!Quiet
<1> QED BY <1>1, <1>2, LeaveStep

\* A crash inside an append: the record is torn, or it is whole and the call has
\* had its effect on the disk.
LEMMA CrashInsideMap ==
    ASSUME IInv, IInv', NEW e \in Entry, NEW outcome, CrashInside(e, outcome),
           forfeited = {} =>
              Recover(Base, Append(wal, e)) \in {Recovered} \union Atomic!CallsInProgress
    PROVE  Atomic!CrashInCall
<1>1. /\ TypeOK /\ MapCorrect /\ fd = "live" /\ GoDown
      /\ Base' = Base /\ UNCHANGED <<stable, forfeited>>
  BY MapFacts, SameFiles DEF IInv, CrashInside, CanAppend
<1>2. wal \in Logs /\ Torn \in Entry /\ Torn.op = "torn"
  BY <1>1, BaseType, EntryFacts
<1>3. ASSUME forfeited = {}
      PROVE  /\ Recovered' \in {Recovered} \union Atomic!CallsInProgress
             /\ Restartable' = Restartable \union {Recovered'}
  <2>1. CASE wal' = Append(wal, Torn)
    <3>1. Recover(Base, Append(wal, Torn)) = Recovered
      BY <1>2, RecoverHidden DEF Recovered
    <3> QED BY <1>1, <1>2, <2>1, <3>1, RestartableAppend
  <2>2. CASE wal' = Append(wal, e)
    BY <1>1, <1>3, <2>2, RestartableAppend
  <2> QED BY <2>1, <2>2 DEF CrashInside
<1> QED
  BY <1>1, <1>3, DownMap, CoherenceNext
  DEF MapCorrect, Excused, Atomic!CrashInCall, Atomic!Unless

LEMMA CrashInAppendMap ==
    ASSUME IInv, IInv', CrashInAppend
    PROVE  Atomic!CrashInCall
<1>1. /\ wal \in Logs /\ MapCorrect
      /\ TxnBegin \in Entry /\ TxnBegin.op = "txn_begin"
      /\ TxnCommit \in Entry /\ TxnCommit.op = "txn_commit"
      /\ \A k \in Keys, c \in Contents : Put(k, c) \in Entry /\ IsPut(Put(k, c))
  BY BaseType, EntryFacts, MapFacts DEF IInv
<1>2. ASSUME CrashInside(TxnBegin, live)
      PROVE  Atomic!CrashInCall
  <2>1. Recover(Base, Append(wal, TxnBegin)) = Recovered
    BY <1>1, RecoverBegin DEF Recovered
  <2> QED BY <1>1, <1>2, <2>1, CrashInsideMap
<1>3. ASSUME Idle, NEW k \in Keys, NEW c \in Contents,
             CrashInside(Put(k, c), [live EXCEPT ![k] = c])
      PROVE  Atomic!CrashInCall
  <2>1. ASSUME forfeited = {}
        PROVE  Recover(Base, Append(wal, Put(k, c))) \in {Recovered} \union Atomic!CallsInProgress
    <3>1. CASE Clean(wal)
      <4>1. Visible = mem /\ Recovered = mem /\ Pending = NoFile
        BY <1>1, <1>3, <2>1 DEF IInv, LogInv, Idle, CrashInside, CanAppend, MapCorrect
      <4>2. Recover(Base, Append(wal, Put(k, c))) = [Recovered EXCEPT ![k] = c]
        BY <1>1, <3>1, RecoverPutClean DEF Recovered
      <4> DEFINE InProgress == {[mem EXCEPT ![kk] = cc] : kk \in Keys, cc \in Contents}
      <4>3. Atomic!CallsInProgress = InProgress
        BY <4>1 DEF Atomic!CallsInProgress
      <4>4. [mem EXCEPT ![k] = c] \in InProgress
        BY <1>3
      <4>5. [Recovered EXCEPT ![k] = c] = [mem EXCEPT ![k] = c]
        BY <4>1
      <4> HIDE DEF InProgress
      <4>6. [mem EXCEPT ![k] = c] \in Atomic!CallsInProgress
        BY <4>3, <4>4
      <4> QED BY <4>2, <4>5, <4>6
    <3>2. CASE ~Clean(wal)
      BY <1>1, <3>2, RecoverHidden, RecoverPutInTxn DEF Clean, Recovered
    <3> QED BY <3>1, <3>2
  <2> QED BY <1>1, <1>3, <2>1, CrashInsideMap
<1>4. ASSUME pc = "apply", todo = <<>>, CrashInside(TxnCommit, goal)
      PROVE  Atomic!CrashInCall
  <2>1. ASSUME forfeited = {}
        PROVE  Recover(Base, Append(wal, TxnCommit)) \in {Recovered} \union Atomic!CallsInProgress
    <3>1. CASE Intact(wal)
      <4>1. Recover(Base, Append(wal, TxnCommit)) = mem
        BY <1>1, <1>4, <2>1, <3>1, RecoverCommit DEF IInv, LogInv, CrashInside, CanAppend
      <4>2. Pending = mem /\ Pending # NoFile
        BY <1>1, <1>4, OutcomeNothing DEF IInv, TypeOK, MapCorrect
      <4> QED BY <4>1, <4>2 DEF Atomic!CallsInProgress
    <3>2. CASE ~Intact(wal)
      BY <1>1, <3>2, RecoverHidden DEF Recovered
    <3> QED BY <3>1, <3>2
  <2> QED BY <1>1, <1>4, <2>1, CrashInsideMap
<1>5. ASSUME pc = "apply", todo # <<>>, CrashInside(Put(Head(todo).key, Head(todo).val), live)
      PROVE  Atomic!CrashInCall
  <2> DEFINE k == Head(todo).key
             c == Head(todo).val
  <2>1. k \in Keys /\ c \in Contents /\ CrashInside(Put(k, c), live)
    BY <1>5, NextOperation
  <2> HIDE DEF k, c
  <2>2. Recover(Base, Append(wal, Put(k, c))) = Recovered
    BY <1>5, <2>1, PutInBatch DEF CrashInside, CanAppend, Recovered
  <2> QED BY <1>1, <2>1, <2>2, CrashInsideMap
<1> QED BY <1>2, <1>3, <1>4, <1>5 DEF CrashInAppend

LEMMA PowerLossMap ==
    ASSUME IInv, IInv', PowerLoss
    PROVE  Atomic!PowerLoss
<1>1. /\ TypeOK /\ GoDown /\ Base' = Base /\ forfeited \subseteq forfeited'
  BY SameFiles DEF IInv, PowerLoss
<1>2. /\ wal \in Logs /\ stable \in 0..Len(wal) /\ Len(wal) \in Nat
      /\ Torn \in Entry /\ Torn.op = "torn"
  BY <1>1, BaseType, EntryFacts, AppendFacts DEF TypeOK
<1>3. ASSUME forfeited' = {}
      PROVE  Recovered' \in Restartable /\ Restartable' = {Recovered'}
  <2>1. ASSUME NEW n \in stable..Len(wal),
               \/ wal' = SubSeq(wal, 1, n) /\ stable' = n
               \/ wal' = Append(SubSeq(wal, 1, n), Torn) /\ stable' = n + 1
        PROVE  Recovered' = Recover(Base, SubSeq(wal, 1, n)) /\ Synced'
    <3> DEFINE w == SubSeq(wal, 1, n)
    <3>1. w \in Logs /\ Len(w) = n
      BY <1>2, PrefixFacts
    <3>2. \/ wal' = w /\ stable' = n
          \/ wal' = Append(w, Torn) /\ stable' = n + 1
      BY <2>1
    <3> HIDE DEF w
    <3>3. /\ Len(Append(w, Torn)) = n + 1
          /\ Recover(Base, Append(w, Torn)) = Recover(Base, w)
      BY <1>2, <3>1, AppendFacts, RecoverHidden
    <3>4. Recovered' = Recover(Base, w) /\ Synced'
      BY <1>1, <3>1, <3>2, <3>3 DEF Recovered, Synced
    <3> QED BY <3>4 DEF w
  <2>2. ASSUME wal' = <<>>, stable' = 0, stable = 0
        PROVE  Recovered' = Recover(Base, SubSeq(wal, 1, 0)) /\ Synced'
    BY <1>1, <1>2, <2>2, PrefixFacts, SequenceType DEF Recovered, Synced
  <2>3. \/ \E n \in stable..Len(wal) :
              \/ wal' = SubSeq(wal, 1, n) /\ stable' = n
              \/ wal' = Append(SubSeq(wal, 1, n), Torn) /\ stable' = n + 1
        \/ wal' = <<>> /\ stable' = 0 /\ stable = 0
    BY <1>2, <1>3 DEF PowerLoss
  <2>4. 0 \in 0..Len(wal)
    BY <1>2
  <2>5. Recovered' \in Restartable /\ Synced'
    BY <2>1, <2>2, <2>3, <2>4 DEF Restartable
  <2> QED BY <2>5, RestartableNext DEF IInv, RestartableCorrect
<1> QED
  BY <1>1, <1>3, DownMap, CoherenceNext
  DEF Excused, Atomic!PowerLoss, Atomic!Unless

-----------------------------------------------------------------------------
(* The refinement. *)

LEMMA MapInit == Init => Atomic!Init
<1> SUFFICES ASSUME Init PROVE Atomic!Init
  OBVIOUS
<1>1. TypeOK /\ MapCorrect /\ Synced
  BY InvInit, MapFacts, SequenceType DEF IInv, Init, Synced
<1>2. Base = EmptyStore /\ Recovered = EmptyStore
  BY NoFileAssumption, ContentsFacts, RecoverEmpty DEF Init, Base, Recovered
<1>3. Restartable = {EmptyStore}
  BY <1>1, <1>2, RestartableFacts DEF RestartableCorrect
<1> QED BY <1>1, <1>2, <1>3, SameStores DEF Init, Mode, MapCorrect, Excused, Atomic!Init

LEMMA MapStep ==
    ASSUME IInv, IInv', [Next]_vars
    PROVE  [Atomic!Next]_Atomic!vars
<1>1. CASE UNCHANGED vars
  <2>1. Base' = Base
    BY <1>1, SameFiles DEF vars, disk
  <2>2. UNCHANGED <<Recovered, Restartable>>
    BY <1>1, <2>1, RestartableKept DEF vars, disk
  <2> QED
    BY <1>1, <2>2
    DEF vars, session, running, promises, Mode, Visible, Pending, Excused, Atomic!vars
<1>2. CASE Next
  BY <1>2, OpenMap, WriteMap, WriteFailsMap, BeginMap, BeginFailsMap, ApplyMap, ApplyFailsMap,
     CommitMap, CommitFailsMap, PublishMap, TidyMap, ResetMap, ResetFailsMap, StopMap,
     CrashInAppendMap, PowerLossMap
  DEF Next, Atomic!Next, Excused
<1> QED BY <1>1, <1>2

\* The engine implements AtomicStore, for any log, any batch, any sequence of
\* sessions and any fault: what a log, an undo log, two layouts of files and the
\* steps of a checkpoint do is, to a caller and to a restart, one call or one whole
\* batch at a time, all of it or nothing, unless a cause in Causes is outstanding.
THEOREM ImplementsAtomicStore == Spec => IsAtomicStore
<1>1. IInv /\ IInv' /\ [Next]_vars => [Atomic!Next]_Atomic!vars
  BY MapStep
<1> QED BY <1>1, MapInit, Invariant, PTL DEF Spec, IsAtomicStore, Atomic!Spec
=============================================================================
