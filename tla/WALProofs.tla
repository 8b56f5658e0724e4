----------------------------- MODULE WALProofs -----------------------------
(***************************************************************************)
(* Lemmas about what a recovery reads out of a log when one entry is       *)
(* appended to it, or when the base under it is replaced: EngineProofs and *)
(* ThreadsProofs rest on them.  From them, that the loops of WAL::replay   *)
(* and of open() compute that recovery for every log.                      *)
(***************************************************************************)
EXTENDS WALReplay, FiniteSetTheorems, WellFoundedInduction, TLAPS

Logs == Seq(Entry)

-----------------------------------------------------------------------------
(* Least and greatest elements. *)

LEMMA LeastNumber ==
    ASSUME NEW T, T \subseteq Nat, T # {}
    PROVE  \E x \in T : \A y \in T : x <= y
<1> DEFINE R == {ss \in Nat \X Nat : ss[1] < ss[2]}
<1>1. IsWellFoundedOn(R, Nat)
  BY NatLessThanWellFounded, Zenon DEF OpToRel
<1>2. PICK x \in T : \A y \in T : <<y, x>> \notin R
  <2> HIDE DEF R
  <2> QED BY <1>1, WFMin
<1>3. \A y \in T : ~(y < x)
  BY <1>2
<1> QED BY <1>3

LEMMA GreatestNumber ==
    ASSUME NEW n \in Nat, NEW T, T \subseteq 0..n, T # {}
    PROVE  \E x \in T : \A y \in T : y <= x
<1> DEFINE U == {i \in 0..n : n - i \in T}
<1>1. U \subseteq Nat /\ U # {}
  <2>1. PICK t \in T : TRUE
    OBVIOUS
  <2>2. n - t \in U
    BY <2>1
  <2> QED BY <2>2
<1>2. PICK u \in U : \A y \in U : u <= y
  <2> HIDE DEF U
  <2> QED BY <1>1, LeastNumber
<1>3. ASSUME NEW y \in T
      PROVE  y <= n - u
  <2>1. n - y \in U
    BY <1>3
  <2> QED BY <1>2, <2>1
<1> QED BY <1>2, <1>3

-----------------------------------------------------------------------------
(* Logs and entries. *)

LEMMA AppendFacts ==
    ASSUME NEW log \in Logs, NEW e \in Entry
    PROVE  /\ Append(log, e) \in Logs
           /\ Len(log) \in Nat
           /\ Len(Append(log, e)) = Len(log) + 1
           /\ DOMAIN log = 1..Len(log)
           /\ DOMAIN Append(log, e) = 1..(Len(log) + 1)
           /\ \A i \in 1..Len(log) : Append(log, e)[i] = log[i]
           /\ Append(log, e)[Len(log) + 1] = e
  BY DEF Logs

LEMMA EntryFacts ==
    /\ Torn \in Entry /\ TxnBegin \in Entry /\ TxnCommit \in Entry
    /\ \A k \in Keys, c \in Contents :
          /\ Put(k, c) \in Entry
          /\ IsPut(Put(k, c))
          /\ Put(k, c).op # "torn"
          /\ Put(k, c).key = k
          /\ Put(k, c).val = c
    /\ ~IsPut(Torn) /\ ~IsPut(TxnBegin) /\ ~IsPut(TxnCommit)
    /\ Torn.op = "torn" /\ TxnBegin.op = "txn_begin" /\ TxnCommit.op = "txn_commit"
  BY ValuesAssumption DEF Torn, TxnBegin, TxnCommit, Put, Insert, Erase, IsPut, Entry, Ops, Contents

-----------------------------------------------------------------------------
(* Which entries the scan reaches after one more entry. *)

LEMMA ReadableAppend ==
    ASSUME NEW log \in Logs, NEW e \in Entry, e.op # "torn", Intact(log)
    PROVE  /\ Readable(log) = 1..Len(log)
           /\ Readable(Append(log, e)) = 1..(Len(log) + 1)
           /\ Intact(Append(log, e))
  BY AppendFacts DEF Readable, Intact

LEMMA ReadableHidden ==
    ASSUME NEW log \in Logs, NEW e \in Entry, e.op = "torn" \/ ~Intact(log)
    PROVE  /\ Readable(Append(log, e)) = Readable(log)
           /\ ~Intact(Append(log, e))
<1> DEFINE w == Append(log, e)
<1>1. ~Intact(w)
  BY AppendFacts DEF Intact
<1>2. Readable(log) \subseteq Readable(w)
  BY AppendFacts DEF Readable
<1>3. ASSUME NEW i \in Readable(w) PROVE i \in Readable(log)
  <2>1. i \in 1..(Len(log) + 1) /\ \A j \in 1..i : w[j].op # "torn"
    BY AppendFacts DEF Readable
  <2>2. i # Len(log) + 1
    BY <2>1, AppendFacts DEF Intact
  <2> QED BY <2>1, <2>2, AppendFacts DEF Readable
<1> QED BY <1>1, <1>2, <1>3

-----------------------------------------------------------------------------
(* The window that an entry lies in does not change with what comes later. *)

LEMMA InTxnAppend ==
    ASSUME NEW log \in Logs, NEW e \in Entry, NEW n \in 0..Len(log)
    PROVE  InTxn(Append(log, e), n) <=> InTxn(log, n)
<1> DEFINE w == Append(log, e)
<1>1. \A i \in 1..n : w[i] = log[i]
  BY AppendFacts
<1>2. \A b \in 1..n : (b + 1)..n \subseteq 1..n
  BY AppendFacts
<1> QED BY <1>1, <1>2 DEF InTxn

LEMMA CommittedAppendOther ==
    ASSUME NEW log \in Logs, NEW e \in Entry, NEW i \in 1..Len(log),
           e.op # "txn_commit" \/ ~Intact(log)
    PROVE  Committed(Append(log, e), i) <=> Committed(log, i)
<1> DEFINE w == Append(log, e)
           n == Len(log)
<1>1. Readable(log) \subseteq 1..n
  BY AppendFacts DEF Readable
<1>2. ASSUME NEW c \in 1..n
      PROVE  /\ w[c] = log[c]
             /\ \A m \in (i + 1)..(c - 1) : w[m] = log[m]
  BY AppendFacts
<1>3. ASSUME NEW c \in Readable(w), w[c].op = "txn_commit"
      PROVE  c \in Readable(log)
  <2>1. CASE ~Intact(log)
    BY <1>3, <2>1, ReadableHidden
  <2>2. CASE Intact(log) /\ e.op = "torn"
    BY <1>3, <2>2, ReadableHidden
  <2>3. CASE Intact(log) /\ e.op # "torn"
    <3>1. c \in 1..(n + 1) /\ Readable(log) = 1..n
      BY <1>3, <2>3, ReadableAppend
    <3>2. c # n + 1
      BY <1>3, <2>3, AppendFacts
    <3> QED BY <3>1, <3>2, AppendFacts
  <2> QED BY <2>1, <2>2, <2>3
<1>4. Readable(log) \subseteq Readable(w)
  <2>1. CASE e.op = "torn" \/ ~Intact(log)
    BY <2>1, ReadableHidden
  <2>2. CASE e.op # "torn" /\ Intact(log)
    BY <2>2, ReadableAppend, AppendFacts
  <2> QED BY <2>1, <2>2
<1>5. ASSUME Committed(w, i) PROVE Committed(log, i)
  <2>1. PICK c \in Readable(w) : /\ c > i
                                 /\ w[c].op = "txn_commit"
                                 /\ \A m \in (i + 1)..(c - 1) : w[m].op # "txn_begin"
    BY <1>5 DEF Committed
  <2>2. c \in Readable(log)
    BY <2>1, <1>3
  <2> QED BY <1>1, <1>2, <2>1, <2>2 DEF Committed
<1>6. ASSUME Committed(log, i) PROVE Committed(w, i)
  <2>1. PICK c \in Readable(log) : /\ c > i
                                   /\ log[c].op = "txn_commit"
                                   /\ \A m \in (i + 1)..(c - 1) : log[m].op # "txn_begin"
    BY <1>6 DEF Committed
  <2> QED BY <1>1, <1>2, <1>4, <2>1 DEF Committed
<1> QED BY <1>5, <1>6

LEMMA CommittedAppendCommit ==
    ASSUME NEW log \in Logs, NEW e \in Entry, NEW i \in 1..Len(log),
           e.op = "txn_commit", Intact(log)
    PROVE  Committed(Append(log, e), i) <=>
              \/ Committed(log, i)
              \/ \A m \in (i + 1)..Len(log) : log[m].op # "txn_begin"
<1> DEFINE w == Append(log, e)
           n == Len(log)
<1>1. Readable(log) = 1..n /\ Readable(w) = 1..(n + 1)
  BY ReadableAppend
<1>2. n \in Nat /\ (\A m \in 1..n : w[m] = log[m]) /\ w[n + 1] = e
  BY AppendFacts
<1>3. ASSUME Committed(w, i), ~Committed(log, i)
      PROVE  \A m \in (i + 1)..n : log[m].op # "txn_begin"
  <2>1. PICK c \in 1..(n + 1) : /\ c > i
                                /\ w[c].op = "txn_commit"
                                /\ \A m \in (i + 1)..(c - 1) : w[m].op # "txn_begin"
    BY <1>1, <1>3 DEF Committed
  <2>2. c = n + 1
    <3>1. SUFFICES ASSUME c \in 1..n PROVE FALSE
      BY <1>2
    <3> QED BY <1>1, <1>2, <1>3, <2>1, <3>1 DEF Committed
  <2> QED BY <1>2, <2>1, <2>2
<1>4. ASSUME Committed(log, i) PROVE Committed(w, i)
  <2>1. PICK c \in 1..n : /\ c > i
                          /\ log[c].op = "txn_commit"
                          /\ \A m \in (i + 1)..(c - 1) : log[m].op # "txn_begin"
    BY <1>1, <1>4 DEF Committed
  <2> QED BY <1>1, <1>2, <2>1 DEF Committed
<1>5. ASSUME \A m \in (i + 1)..n : log[m].op # "txn_begin" PROVE Committed(w, i)
  <2>1. n + 1 \in Readable(w) /\ n + 1 > i /\ w[n + 1].op = "txn_commit"
    BY <1>1, <1>2
  <2>2. \A m \in (i + 1)..((n + 1) - 1) : w[m].op # "txn_begin"
    BY <1>2, <1>5
  <2> QED BY <2>1, <2>2 DEF Committed
<1> QED BY <1>3, <1>4, <1>5

-----------------------------------------------------------------------------
(* The entries applied after one more entry. *)

LEMMA AppliedHidden ==
    ASSUME NEW log \in Logs, NEW e \in Entry, e.op = "torn" \/ ~Intact(log)
    PROVE  Applied(Append(log, e)) = Applied(log)
<1>1. Readable(Append(log, e)) = Readable(log) /\ Readable(log) \subseteq 1..Len(log)
  BY ReadableHidden, AppendFacts DEF Readable
<1>2. ASSUME NEW i \in 1..Len(log)
      PROVE  /\ Append(log, e)[i] = log[i]
             /\ InTxn(Append(log, e), i) <=> InTxn(log, i)
             /\ Committed(Append(log, e), i) <=> Committed(log, i)
  <2>1. e.op # "txn_commit" \/ ~Intact(log)
    OBVIOUS
  <2> QED BY <2>1, AppendFacts, InTxnAppend, CommittedAppendOther
<1> QED BY <1>1, <1>2 DEF Applied

LEMMA AppliedPrefix ==
    ASSUME NEW log \in Logs, NEW e \in Entry, e.op \notin {"torn", "txn_commit"}, Intact(log)
    PROVE  Applied(Append(log, e)) =
             Applied(log) \union
             {i \in {Len(log) + 1} : IsPut(e) /\ ~InTxn(Append(log, e), Len(log) + 1)}
<1> DEFINE w == Append(log, e)
           n == Len(log)
<1>1. Readable(log) = 1..n /\ Readable(w) = 1..(n + 1) /\ n \in Nat
  BY ReadableAppend, AppendFacts
<1>2. ASSUME NEW i \in 1..n
      PROVE  i \in Applied(w) <=> i \in Applied(log)
  <2>1. w[i] = log[i] /\ (InTxn(w, i) <=> InTxn(log, i))
    BY AppendFacts, InTxnAppend
  <2>2. Committed(w, i) <=> Committed(log, i)
    BY CommittedAppendOther
  <2> QED BY <1>1, <2>1, <2>2 DEF Applied
<1>3. w[n + 1] = e /\ ~Committed(w, n + 1)
  BY <1>1, AppendFacts DEF Committed
<1>4. n + 1 \in Applied(w) <=> IsPut(e) /\ ~InTxn(w, n + 1)
  BY <1>1, <1>3 DEF Applied
<1>5. Applied(w) \subseteq 1..(n + 1) /\ Applied(log) \subseteq 1..n
  BY <1>1 DEF Applied
<1> QED BY <1>1, <1>2, <1>4, <1>5

LEMMA AppliedCommit ==
    ASSUME NEW log \in Logs, NEW e \in Entry, e.op = "txn_commit", Intact(log)
    PROVE  Applied(Append(log, e)) = AppliedIfCommitted(log)
<1> DEFINE w == Append(log, e)
           n == Len(log)
<1>1. Readable(log) = 1..n /\ Readable(w) = 1..(n + 1) /\ n \in Nat
  BY ReadableAppend, AppendFacts
<1>2. ASSUME NEW i \in 1..n
      PROVE  i \in Applied(w) <=> i \in AppliedIfCommitted(log)
  <2>1. w[i] = log[i] /\ (InTxn(w, i) <=> InTxn(log, i))
    BY AppendFacts, InTxnAppend
  <2> QED BY <1>1, <2>1, CommittedAppendCommit DEF Applied, AppliedIfCommitted
<1>3. n + 1 \notin Applied(w)
  <2>1. w[n + 1] = e
    BY AppendFacts
  <2> QED BY <2>1 DEF Applied, IsPut
<1>4. Applied(w) \subseteq 1..(n + 1) /\ AppliedIfCommitted(log) \subseteq 1..n
  BY <1>1 DEF Applied, AppliedIfCommitted
<1>5. n + 1 \notin AppliedIfCommitted(log)
  BY <1>1, <1>4
<1>6. \A i : i \in Applied(w) <=> i \in AppliedIfCommitted(log)
  BY <1>1, <1>2, <1>3, <1>4, <1>5
<1> QED BY <1>6 DEF Applied, AppliedIfCommitted

LEMMA IfCommittedPut ==
    ASSUME NEW log \in Logs, NEW e \in Entry, IsPut(e), Intact(log)
    PROVE  AppliedIfCommitted(Append(log, e)) = AppliedIfCommitted(log) \union {Len(log) + 1}
<1> DEFINE w == Append(log, e)
           n == Len(log)
<1>1. e.op \notin {"torn", "txn_begin", "txn_commit"}
  BY DEF IsPut
<1>2. Readable(log) = 1..n /\ Readable(w) = 1..(n + 1) /\ n \in Nat
  BY <1>1, ReadableAppend, AppendFacts
<1>3. Len(w) = n + 1 /\ w[n + 1] = e /\ \A m \in 1..n : w[m] = log[m]
  BY AppendFacts
<1>4. ASSUME NEW i \in 1..n
      PROVE  i \in AppliedIfCommitted(w) <=> i \in AppliedIfCommitted(log)
  <2>1. i \in Applied(w) <=> i \in Applied(log)
    BY <1>1, <1>2, AppliedPrefix
  <2>2. (\A m \in (i + 1)..(n + 1) : w[m].op # "txn_begin")
          <=> (\A m \in (i + 1)..n : log[m].op # "txn_begin")
    BY <1>1, <1>2, <1>3
  <2> QED BY <1>2, <1>3, <2>1, <2>2 DEF AppliedIfCommitted
<1>5. n + 1 \in AppliedIfCommitted(w)
  BY <1>2, <1>3 DEF AppliedIfCommitted
<1>6. AppliedIfCommitted(w) \subseteq 1..(n + 1) /\ AppliedIfCommitted(log) \subseteq 1..n
  BY <1>2 DEF Applied, AppliedIfCommitted
<1> QED BY <1>2, <1>4, <1>5, <1>6

LEMMA IfCommittedBegin ==
    ASSUME NEW log \in Logs, NEW e \in Entry, e.op = "txn_begin", Intact(log)
    PROVE  AppliedIfCommitted(Append(log, e)) = Applied(log)
<1> DEFINE w == Append(log, e)
           n == Len(log)
<1>1. Readable(w) = 1..(n + 1) /\ n \in Nat /\ Len(w) = n + 1 /\ w[n + 1] = e
  BY ReadableAppend, AppendFacts
<1>2. Applied(w) = Applied(log)
  <2>1. e.op \notin {"torn", "txn_commit"} /\ ~IsPut(e)
    BY DEF IsPut
  <2> QED BY <2>1, AppliedPrefix
<1>3. ASSUME NEW i \in Readable(w), IsPut(w[i]),
             \A m \in (i + 1)..Len(w) : w[m].op # "txn_begin"
      PROVE  FALSE
  <2>1. i # n + 1
    BY <1>1, <1>3 DEF IsPut
  <2> QED BY <1>1, <1>3, <2>1
<1> QED BY <1>2, <1>3 DEF AppliedIfCommitted

-----------------------------------------------------------------------------
(* The stores that result. *)

LEMMA AppliedSets ==
    ASSUME NEW log \in Logs
    PROVE  Applied(log) \subseteq 1..Len(log) /\ AppliedIfCommitted(log) \subseteq 1..Len(log)
  BY DEF Applied, AppliedIfCommitted, Readable, Logs

\* The entries of S decide the contents of a key, whatever follows them.
LEMMA LastOnSame ==
    ASSUME NEW base, NEW log \in Logs, NEW e \in Entry, NEW S \in SUBSET (1..Len(log)),
           NEW k \in Keys
    PROVE  LastOn(base, Append(log, e), S, k) = LastOn(base, log, S, k)
<1> DEFINE w == Append(log, e)
           A == {i \in S : w[i].key = k /\ \A j \in S : w[j].key = k => j <= i}
           B == {i \in S : log[i].key = k /\ \A j \in S : log[j].key = k => j <= i}
<1>1. \A i \in S : w[i] = log[i]
  BY AppendFacts
<1>2. A = B
  BY <1>1
<1>3. (CHOOSE i \in A : TRUE) = (CHOOSE i \in B : TRUE)
  BY <1>2
<1>4. CASE A = {}
  BY <1>2, <1>4 DEF LastOn
<1>5. CASE A # {}
  <2>1. (CHOOSE i \in B : TRUE) \in S
    BY <1>2, <1>5
  <2>2. w[CHOOSE i \in A : TRUE].val = log[CHOOSE i \in B : TRUE].val
    BY <1>1, <1>3, <2>1
  <2>3. LastOn(base, w, S, k) = w[CHOOSE i \in A : TRUE].val
    BY <1>5 DEF LastOn
  <2>4. LastOn(base, log, S, k) = log[CHOOSE i \in B : TRUE].val
    BY <1>2, <1>5 DEF LastOn
  <2> QED BY <2>2, <2>3, <2>4
<1> QED BY <1>4, <1>5

\* An entry that follows all of S decides the contents of its own key.
LEMMA LastOnAppend ==
    ASSUME NEW base, NEW log \in Logs, NEW e \in Entry, NEW S \in SUBSET (1..Len(log)),
           NEW k \in Keys
    PROVE  LastOn(base, Append(log, e), S \union {Len(log) + 1}, k) =
             IF e.key = k THEN e.val ELSE LastOn(base, log, S, k)
<1> DEFINE w == Append(log, e)
           n == Len(log)
           T == S \union {n + 1}
           A == {i \in T : w[i].key = k /\ \A j \in T : w[j].key = k => j <= i}
           B == {i \in S : w[i].key = k /\ \A j \in S : w[j].key = k => j <= i}
<1>1. n \in Nat /\ w[n + 1] = e /\ S \subseteq 1..n
  BY AppendFacts
<1>2. CASE e.key = k
  <2>1. A = {n + 1}
    <3>1. \A j \in T : j <= n + 1
      BY <1>1
    <3>2. n + 1 \in A
      BY <1>1, <1>2, <3>1
    <3>3. ASSUME NEW i \in A PROVE i = n + 1
      <4>1. i \in T /\ n + 1 <= i
        BY <1>1, <1>2, <3>3
      <4> QED BY <1>1, <3>1, <4>1
    <3> QED BY <3>2, <3>3
  <2>2. (CHOOSE i \in A : TRUE) = n + 1
    BY <2>1
  <2> QED BY <1>1, <1>2, <2>1, <2>2 DEF LastOn
<1>3. CASE e.key # k
  <2>1. A = B
    BY <1>1, <1>3
  <2>2. (CHOOSE i \in A : TRUE) = (CHOOSE i \in B : TRUE)
    BY <2>1
  <2>3. LastOn(base, w, T, k) = LastOn(base, w, S, k)
    BY <2>1, <2>2 DEF LastOn
  <2> QED BY <1>3, <2>3, LastOnSame
<1> QED BY <1>2, <1>3

-----------------------------------------------------------------------------
(* The lemmas that the other proof modules cite. *)

LEMMA RecoverUnfolds ==
    ASSUME NEW base, NEW log
    PROVE  Recover(base, log) = [k \in Keys |-> LastOn(base, log, Applied(log), k)]
<1>1. Applied(log) \in SUBSET DOMAIN log
  BY DEF Applied, Readable
<1> QED BY <1>1 DEF Recover

\* An entry behind a torn record, or a torn record itself, changes nothing.
LEMMA RecoverHidden ==
    ASSUME NEW base, NEW log \in Logs, NEW e \in Entry, e.op = "torn" \/ ~Intact(log)
    PROVE  Recover(base, Append(log, e)) = Recover(base, log)
  BY AppliedHidden, AppliedSets, LastOnSame, RecoverUnfolds

\* A begin marker changes nothing, whatever it follows.
LEMMA RecoverBegin ==
    ASSUME NEW base, NEW log \in Logs, NEW e \in Entry, e.op = "txn_begin"
    PROVE  Recover(base, Append(log, e)) = Recover(base, log)
<1>1. CASE ~Intact(log)
  BY <1>1, RecoverHidden
<1>2. CASE Intact(log)
  <2>1. e.op \notin {"torn", "txn_commit"} /\ ~IsPut(e)
    BY DEF IsPut
  <2>2. Applied(Append(log, e)) = Applied(log)
    BY <1>2, <2>1, AppliedPrefix
  <2> QED BY <2>2, AppliedSets, LastOnSame, RecoverUnfolds
<1> QED BY <1>1, <1>2

\* An entry inside an open window waits for the commit marker.
LEMMA RecoverPutInTxn ==
    ASSUME NEW base, NEW log \in Logs, NEW e \in Entry, IsPut(e), InTxn(log, Len(log))
    PROVE  Recover(base, Append(log, e)) = Recover(base, log)
<1> DEFINE w == Append(log, e)
           n == Len(log)
<1>1. CASE ~Intact(log)
  BY <1>1, RecoverHidden
<1>2. CASE Intact(log)
  <2>1. n \in Nat /\ w[n + 1] = e /\ \A m \in 1..n : w[m] = log[m]
    BY AppendFacts
  <2>2. InTxn(w, n + 1)
    BY <2>1 DEF InTxn, IsPut
  <2>3. Applied(w) = Applied(log)
    <3>1. e.op \notin {"torn", "txn_commit"}
      BY DEF IsPut
    <3>2. Applied(w) = Applied(log) \union {i \in {n + 1} : IsPut(e) /\ ~InTxn(w, n + 1)}
      BY <1>2, <3>1, AppliedPrefix
    <3> QED BY <2>2, <3>2
  <2> QED BY <2>3, AppliedSets, LastOnSame, RecoverUnfolds
<1> QED BY <1>1, <1>2

\* An entry appended to a clean log counts at once, and only for its key.
LEMMA RecoverPutClean ==
    ASSUME NEW base, NEW log \in Logs, NEW k \in Keys, NEW c \in Contents, Clean(log)
    PROVE  Recover(base, Append(log, Put(k, c))) = [Recover(base, log) EXCEPT ![k] = c]
<1> DEFINE e == Put(k, c)
           w == Append(log, e)
           n == Len(log)
<1>1. e \in Entry /\ e.key = k /\ e.val = c /\ IsPut(e)
  BY EntryFacts
<1>2. n \in Nat /\ w[n + 1] = e /\ \A m \in 1..n : w[m] = log[m]
  BY <1>1, AppendFacts
<1>3. ~InTxn(w, n + 1)
  BY <1>1, <1>2 DEF InTxn, Clean, IsPut
<1>4. Applied(w) = Applied(log) \union {n + 1}
  BY <1>1, <1>3, AppliedPrefix DEF Clean, IsPut
<1>5. ASSUME NEW x \in Keys
      PROVE  LastOn(base, w, Applied(w), x) =
               IF k = x THEN c ELSE LastOn(base, log, Applied(log), x)
  <2> DEFINE S == Applied(log)
  <2>1. S \in SUBSET (1..n) /\ e \in Entry
    BY <1>1, AppliedSets
  <2> HIDE DEF S, e
  <2>2. LastOn(base, Append(log, e), S \union {Len(log) + 1}, x) =
          IF e.key = x THEN e.val ELSE LastOn(base, log, S, x)
    BY <2>1, LastOnAppend
  <2> QED BY <1>1, <1>4, <2>2 DEF S
<1> QED BY <1>5, RecoverUnfolds

\* A commit marker applies the window it closes.
LEMMA RecoverCommit ==
    ASSUME NEW base, NEW log \in Logs, NEW e \in Entry, e.op = "txn_commit", Intact(log)
    PROVE  Recover(base, Append(log, e)) = RecoverIfCommitted(base, log)
  BY AppliedCommit, AppliedSets, LastOnSame, RecoverUnfolds DEF RecoverIfCommitted

LEMMA IfCommittedAfterBegin ==
    ASSUME NEW base, NEW log \in Logs, NEW e \in Entry, e.op = "txn_begin", Intact(log)
    PROVE  RecoverIfCommitted(base, Append(log, e)) = Recover(base, log)
  BY IfCommittedBegin, AppliedSets, LastOnSame, RecoverUnfolds DEF RecoverIfCommitted

LEMMA IfCommittedAfterPut ==
    ASSUME NEW base, NEW log \in Logs, NEW k \in Keys, NEW c \in Contents, Intact(log)
    PROVE  RecoverIfCommitted(base, Append(log, Put(k, c))) =
             [RecoverIfCommitted(base, log) EXCEPT ![k] = c]
<1> DEFINE e == Put(k, c)
           w == Append(log, e)
<1>1. e \in Entry /\ e.key = k /\ e.val = c /\ IsPut(e)
  BY EntryFacts
<1>2. AppliedIfCommitted(w) = AppliedIfCommitted(log) \union {Len(log) + 1}
  BY <1>1, IfCommittedPut
<1>3. ASSUME NEW x \in Keys
      PROVE  LastOn(base, w, AppliedIfCommitted(w), x) =
               IF k = x THEN c ELSE LastOn(base, log, AppliedIfCommitted(log), x)
  <2> DEFINE S == AppliedIfCommitted(log)
  <2>1. S \in SUBSET (1..Len(log)) /\ e \in Entry
    BY <1>1, AppliedSets
  <2> HIDE DEF S, e
  <2>2. LastOn(base, Append(log, e), S \union {Len(log) + 1}, x) =
          IF e.key = x THEN e.val ELSE LastOn(base, log, S, x)
    BY <2>1, LastOnAppend
  <2> QED BY <1>1, <1>2, <2>2 DEF S
<1> QED BY <1>3 DEF RecoverIfCommitted

\* Replaying the log over what it has already produced changes nothing: a
\* crash between the publication of a base and the truncation is harmless.
LEMMA RecoverRebase ==
    ASSUME NEW base, NEW log \in Logs
    PROVE  Recover(Recover(base, log), log) = Recover(base, log)
  BY RecoverUnfolds DEF LastOn

LEMMA RecoverEmpty ==
    ASSUME NEW base \in Stores
    PROVE  Recover(base, <<>>) = base
<1>1. Applied(<<>>) = {}
  BY DEF Applied, Readable
<1> QED BY <1>1, RecoverUnfolds DEF LastOn, Stores

LEMMA RecoverType ==
    ASSUME NEW base \in Stores, NEW log \in Logs
    PROVE  Recover(base, log) \in Stores
<1>1. ASSUME NEW k \in Keys PROVE LastOn(base, log, Applied(log), k) \in Contents
  <2>1. ASSUME NEW i \in Applied(log) PROVE log[i].val \in Contents
    <3>1. log[i] \in Entry
      BY AppliedSets DEF Logs
    <3> QED BY <3>1 DEF Entry
  <2>2. base[k] \in Contents
    BY DEF Stores
  <2> QED BY <2>1, <2>2 DEF LastOn
<1> QED BY <1>1, RecoverUnfolds DEF Stores

-----------------------------------------------------------------------------
(* The loops of the code are folds, from the last entry down.  The         *)
(* function that a fold defines exists on every finite set of positions,   *)
(* or there would be a least one without it, and any two agree; so one     *)
(* more entry is one more turn.  "frame" is the loop of WAL::replay, and   *)
(* any other kind the loop of open().                                      *)

Turn(kind, st, e) == IF kind = "frame" THEN FrameStep(st, e) ELSE PlayEntry(st, e)
After(g, kind, a, l, s) == IF s = {} THEN a ELSE Turn(kind, g[s \ {Max(s)}], l[Max(s)])
Folds(g, kind, a, l, S) == g = [s \in SUBSET S |-> After(g, kind, a, l, s)]
FoldOn(kind, a, l, S) == CHOOSE g : Folds(g, kind, a, l, S)
FoldOf(kind, a, l) == FoldOn(kind, a, l, DOMAIN l)[DOMAIN l]

LEMMA LeastSet ==
    ASSUME NEW P, IsFiniteSet(P), NEW B, \A S \in B : S \subseteq P, B # {}
    PROVE  \E S \in B : \A T \in B : T \subseteq S => T = S
<1>1. IsWellFoundedOn(StrictSubsetOrdering(P), SUBSET P)
  BY FS_StrictSubsetOrderingWellFounded, FS_FiniteSubsetsOfFinite
<1>2. PICK S \in B : \A T \in B : ~(<<T, S>> \in StrictSubsetOrdering(P))
  BY <1>1, WFMin
<1> QED BY <1>2 DEF StrictSubsetOrdering

LEMMA MaxFacts ==
    ASSUME NEW n \in Nat, NEW s \in SUBSET (1..n), s # {}
    PROVE  Max(s) \in s /\ \A i \in s : i <= Max(s)
<1>1. PICK x \in s : \A y \in s : y <= x
  <2>1. s \subseteq 0..n
    OBVIOUS
  <2> QED BY <2>1, GreatestNumber
<1>2. \E i \in s : \A y \in s : i >= y
  BY <1>1
<1> QED BY <1>2 DEF Max

LEMMA FoldAt ==
    ASSUME NEW g, NEW kind, NEW a, NEW l, NEW S, Folds(g, kind, a, l, S), NEW s \in SUBSET S
    PROVE  g[s] = After(g, kind, a, l, s)
BY DEF Folds

\* Two folds agree on the positions at which they see the same entries.
Part(T, S, n) == n \in Nat /\ S \subseteq 1..n /\ T \subseteq S
SameEntries(l, m, T) == \A i \in T : l[i] = m[i]
SameFolds(g, h, T) == \A s \in SUBSET T : g[s] = h[s]

LEMMA FoldsAgree ==
    ASSUME NEW n, NEW S, NEW T, Part(T, S, n),
           NEW kind, NEW a, NEW l, NEW m, SameEntries(l, m, T),
           NEW g, NEW h, Folds(g, kind, a, l, S), Folds(h, kind, a, m, T)
    PROVE  SameFolds(g, h, T)
<1> USE DEF Part, SameEntries, SameFolds
<1> DEFINE B == {s \in SUBSET T : g[s] # h[s]}
<1>1. SUFFICES ASSUME B # {} PROVE FALSE
  OBVIOUS
<1>2. PICK s \in B : \A r \in B : r \subseteq s => r = s
  <2>1. \A s \in B : s \subseteq 1..n
    OBVIOUS
  <2>2. IsFiniteSet(1..n)
    BY FS_Interval
  <2> HIDE DEF B
  <2> QED BY <1>1, <2>1, <2>2, LeastSet
<1>3. g[s] = After(g, kind, a, l, s) /\ h[s] = After(h, kind, a, m, s)
  <2>1. s \in SUBSET T
    BY <1>2
  <2>2. T \subseteq S
    BY DEF Part
  <2>3. s \in SUBSET S
    BY ONLY <2>1, <2>2
  <2>4. g[s] = After(g, kind, a, l, s)
    BY <2>3, FoldAt
  <2>5. h[s] = After(h, kind, a, m, s)
    BY <2>1, FoldAt
  <2> QED BY <2>4, <2>5
<1>4. CASE s = {}
  BY <1>2, <1>3, <1>4 DEF After
<1>5. CASE s # {}
  <2>1. Max(s) \in s
    BY <1>5, MaxFacts
  <2>2. s \ {Max(s)} \notin B /\ s \ {Max(s)} \in SUBSET T /\ l[Max(s)] = m[Max(s)]
    BY <1>2, <2>1
  <2>3. g[s \ {Max(s)}] = h[s \ {Max(s)}]
    BY <2>2
  <2> QED BY <1>2, <1>3, <1>5, <2>2, <2>3 DEF After
<1> QED BY <1>4, <1>5

LEMMA FoldsExist ==
    ASSUME NEW n \in Nat, NEW S \in SUBSET (1..n), NEW kind, NEW a, NEW l
    PROVE  Folds(FoldOn(kind, a, l, S), kind, a, l, S)
<1> DEFINE F(T) == FoldOn(kind, a, l, T)
<1> DEFINE B == {T \in SUBSET S : ~Folds(F(T), kind, a, l, T)}
<1>1. SUFFICES ASSUME B # {} PROVE FALSE
  OBVIOUS
<1>2. PICK T \in B : \A r \in B : r \subseteq T => r = T
  <2>1. \A T \in B : T \subseteq 1..n
    OBVIOUS
  <2>2. IsFiniteSet(1..n)
    BY FS_Interval
  <2> HIDE DEF B
  <2> QED BY <1>1, <2>1, <2>2, LeastSet
<1>3. \A r \in SUBSET T : r # T => Folds(F(r), kind, a, l, r)
  BY <1>2
<1> HIDE DEF F
<1> DEFINE Whole(r) == F(r)[r]
<1> DEFINE Turned(s) == IF s = {} THEN a ELSE Turn(kind, Whole(s \ {Max(s)}), l[Max(s)])
<1> DEFINE g == [s \in SUBSET T |-> Turned(s)]
<1>m. \A s \in SUBSET T : s # {} => Max(s) \in s
  BY <1>2, MaxFacts
<1>4. ASSUME NEW r \in SUBSET T, r # T
      PROVE  g[r] = Whole(r)
  <2>1. Whole(r) = After(F(r), kind, a, l, r)
    BY <1>3, <1>4, FoldAt
  <2>2. g[r] = Turned(r)
    BY <1>4
  <2>3. CASE r = {}
    BY <2>1, <2>2, <2>3 DEF After
  <2>4. CASE r # {}
    <3> DEFINE q == r \ {Max(r)}
    <3>1. q \in SUBSET r /\ q # T /\ q \in SUBSET T
      BY <1>4, <1>m, <2>4
    <3>2. Folds(F(r), kind, a, l, r) /\ Folds(F(q), kind, a, l, q) /\ r \in SUBSET (1..n)
      BY <1>2, <1>3, <1>4, <3>1
    <3>3. F(r)[q] = F(q)[q]
      <4> HIDE DEF q
      <4>1. Part(q, r, n) /\ SameEntries(l, l, q)
        BY <3>1, <3>2 DEF Part, SameEntries
      <4>2. SameFolds(F(r), F(q), q)
        BY <3>2, <4>1, FoldsAgree
      <4> QED BY <4>2 DEF SameFolds
    <3>4. After(F(r), kind, a, l, r) = Turn(kind, F(r)[q], l[Max(r)])
      BY <2>4 DEF After
    <3>5. Turned(r) = Turn(kind, F(q)[q], l[Max(r)])
      BY <2>4
    <3> QED BY <2>1, <2>2, <3>3, <3>4, <3>5
  <2> QED BY <2>3, <2>4
<1>5. ASSUME NEW s \in SUBSET T
      PROVE  Turned(s) = After(g, kind, a, l, s)
  <2>1. CASE s = {}
    BY <2>1 DEF After
  <2>2. CASE s # {}
    <3>1. s \ {Max(s)} \in SUBSET T /\ s \ {Max(s)} # T
      BY <1>m, <2>2
    <3>2. g[s \ {Max(s)}] = Whole(s \ {Max(s)})
      BY <1>4, <3>1
    <3> HIDE DEF g, Whole
    <3> QED BY <2>2, <3>2 DEF After
  <2> QED BY <2>1, <2>2
<1>6. g = [s \in SUBSET T |-> After(g, kind, a, l, s)]
  <2> HIDE DEF Turned
  <2> QED BY <1>5
<1>7. Folds(F(T), kind, a, l, T)
  <2> HIDE DEF g
  <2>1. Folds(g, kind, a, l, T)
    BY <1>6 DEF Folds
  <2> QED BY <2>1 DEF F, FoldOn
<1> QED BY <1>2, <1>7 DEF F

LEMMA FoldNone ==
    ASSUME NEW kind, NEW a
    PROVE  FoldOf(kind, a, <<>>) = a
<1>1. DOMAIN <<>> = {} /\ {} \in SUBSET (1..0)
  OBVIOUS
<1>2. Folds(FoldOn(kind, a, <<>>, {}), kind, a, <<>>, {})
  BY <1>1, FoldsExist
<1> QED BY <1>1, <1>2, FoldAt DEF FoldOf, After

\* One more entry is one more turn of the loop.
LEMMA FoldMore ==
    ASSUME NEW kind, NEW a, NEW X, NEW l \in Seq(X), NEW e \in X
    PROVE  FoldOf(kind, a, Append(l, e)) = Turn(kind, FoldOf(kind, a, l), e)
<1> DEFINE w == Append(l, e)
<1> DEFINE n == Len(l)
<1> DEFINE S == 1..(n + 1)
<1>1. /\ n \in Nat /\ DOMAIN l = 1..n /\ DOMAIN w = S /\ w[n + 1] = e
      /\ \A i \in 1..n : w[i] = l[i]
  OBVIOUS
<1> HIDE DEF n, w
<1>2. S \in SUBSET (1..(n + 1)) /\ n + 1 \in Nat /\ S # {} /\ S \ {n + 1} = 1..n /\ 1..n \in SUBSET S
  BY <1>1
<1>3. Max(S) = n + 1
  <2>1. Max(S) \in S /\ \A i \in S : i <= Max(S)
    BY <1>2, MaxFacts
  <2> QED BY <1>1, <2>1
<1> HIDE DEF S
<1> DEFINE g == FoldOn(kind, a, w, S)
<1> DEFINE h == FoldOn(kind, a, l, 1..n)
<1>4. Folds(g, kind, a, w, S)
  BY <1>2, FoldsExist
<1>5. Folds(h, kind, a, l, 1..n)
  BY <1>1, FoldsExist
<1> HIDE DEF g, h
<1>6. g[1..n] = h[1..n]
  <2> DEFINE T == 1..n
  <2>1. Part(T, S, n + 1) /\ SameEntries(w, l, T)
    BY <1>1, <1>2 DEF Part, SameEntries
  <2>2. Folds(h, kind, a, l, T)
    BY <1>5
  <2> HIDE DEF T
  <2>3. SameFolds(g, h, T)
    BY <1>4, <2>1, <2>2, FoldsAgree
  <2> QED BY <2>3 DEF T, SameFolds
<1>7. g[S] = Turn(kind, g[1..n], e)
  <2>1. g[S] = After(g, kind, a, w, S)
    BY <1>4, FoldAt
  <2>2. After(g, kind, a, w, S) = Turn(kind, g[S \ {Max(S)}], w[Max(S)])
    BY <1>2 DEF After
  <2> QED BY <1>1, <1>2, <1>3, <2>1, <2>2
<1> QED BY <1>1, <1>6, <1>7 DEF FoldOf, g, h, w

-----------------------------------------------------------------------------
(* The framing loop and the loop of open(), entry by entry. *)

Start == [in_txn |-> FALSE, pending |-> <<>>, applied |-> <<>>]
Framed(l) == FoldLeft(FrameStep, Start, l)

LEMMA FramedIsFold == ASSUME NEW l PROVE Framed(l) = FoldOf("frame", Start, l)
BY DEF Framed, FoldLeft, MapThenFoldSet, FoldOf, FoldOn, Folds, After, Turn

LEMMA PlayIsFold == ASSUME NEW store, NEW es PROVE Play(store, es) = FoldOf("play", store, es)
BY DEF Play, FoldLeft, MapThenFoldSet, FoldOf, FoldOn, Folds, After, Turn

LEMMA FramedNone == Framed(<<>>) = Start
BY FramedIsFold, FoldNone

LEMMA FramedMore ==
    ASSUME NEW X, NEW l \in Seq(X), NEW e \in X
    PROVE  Framed(Append(l, e)) = FrameStep(Framed(l), e)
<1>1. FoldOf("frame", Start, Append(l, e)) = Turn("frame", FoldOf("frame", Start, l), e)
  BY FoldMore
<1> QED BY <1>1, FramedIsFold DEF Turn

LEMMA PlayNone == ASSUME NEW store PROVE Play(store, <<>>) = store
BY PlayIsFold, FoldNone

LEMMA PlayMore ==
    ASSUME NEW store, NEW X, NEW es \in Seq(X), NEW e \in X
    PROVE  Play(store, Append(es, e)) = PlayEntry(Play(store, es), e)
<1>1. FoldOf("play", store, Append(es, e)) = Turn("play", FoldOf("play", store, es), e)
  BY FoldMore
<1> QED BY <1>1, PlayIsFold DEF Turn

\* A set of sequences that has the empty one and is closed under Append has all.
LEMMA AllSequences ==
    ASSUME NEW X, NEW G, <<>> \in G,
           \A l \in Seq(X), e \in X : l \in G => Append(l, e) \in G
    PROVE  \A l \in Seq(X) : l \in G
<1> DEFINE T == {n \in Nat : \E l \in Seq(X) : Len(l) = n /\ l \notin G}
<1>1. SUFFICES ASSUME T # {} PROVE FALSE
  <2>1. \A l \in Seq(X) : Len(l) \in Nat
    OBVIOUS
  <2> QED BY <2>1
<1>2. PICK n \in T : \A k \in T : n <= k
  <2> HIDE DEF T
  <2>1. T \subseteq Nat
    BY DEF T
  <2> QED BY <1>1, <2>1, LeastNumber
<1>3. PICK l \in Seq(X) : Len(l) = n /\ l \notin G
  OBVIOUS
<1>4. CASE n = 0
  <2>1. l = <<>>
    BY <1>3, <1>4
  <2> QED BY <1>3, <2>1
<1>5. CASE n # 0
  <2> DEFINE k == [i \in 1..(n - 1) |-> l[i]]
  <2>1. n \in Nat /\ n - 1 \in Nat /\ DOMAIN l = 1..n /\ \A i \in 1..n : l[i] \in X
    BY <1>3, <1>5
  <2>2. k \in Seq(X) /\ Len(k) = n - 1
    <3>1. k \in [1..(n - 1) -> X]
      BY <2>1
    <3> QED BY <2>1, <3>1
  <2>3. l = Append(k, l[n])
    <3> DEFINE w == Append(k, l[n])
    <3>1. w \in Seq(X) /\ Len(w) = n /\ DOMAIN w = 1..n
      BY <2>1, <2>2, <1>5
    <3>2. \A i \in 1..n : w[i] = l[i]
      BY <2>1, <2>2
    <3> HIDE DEF w
    <3> QED BY <1>3, <2>1, <3>1, <3>2 DEF w
  <2>4. n - 1 \notin T /\ l[n] \in X
    BY <1>2, <1>5, <2>1
  <2>5. k \in G
    BY <2>1, <2>2, <2>4
  <2> HIDE DEF k
  <2> QED BY <1>3, <2>2, <2>3, <2>4, <2>5
<1> QED BY <1>4, <1>5

\* The entries that WAL's appends write are the ones the lemmas above are about.
LEMMA EntriesAreEntries ==
    ASSUME NEW e \in Entries
    PROVE  /\ e \in Entry
           /\ \/ e.op = "txn_begin" \/ e.op = "txn_commit" \/ e.op = "torn"
              \/ \E k \in Keys, c \in Contents : e = Put(k, c) /\ IsPut(e)
           /\ IsPut(e) => e.op \notin {"torn", "txn_begin", "txn_commit"}
<1>1. ASSUME NEW k \in Keys, NEW v \in Values
      PROVE  Insert(k, v) = Put(k, v) /\ v \in Contents
  BY ValuesAssumption DEF Put, Contents
<1>2. ASSUME NEW k \in Keys
      PROVE  Erase(k) = Put(k, NoRecord) /\ NoRecord \in Contents
  BY DEF Put, Contents
<1>3. \A k \in Keys, c \in Contents : Put(k, c) \in Entry /\ IsPut(Put(k, c))
  BY EntryFacts
<1>4. CASE \E k \in Keys, c \in Contents : e = Put(k, c)
  BY <1>3, <1>4 DEF IsPut
<1>5. CASE e \in {TxnBegin, TxnCommit, Torn}
  BY <1>5, EntryFacts DEF IsPut
<1> QED BY <1>1, <1>2, <1>4, <1>5 DEF Entries

States(X) == [in_txn : BOOLEAN, pending : Seq(X), applied : Seq(X)]

\* A begin marker and a commit marker, for a loop in whatever state.
LEMMA FrameOpens ==
    ASSUME NEW st, NEW e, e.op = "txn_begin" PROVE FrameStep(st, e) = Opened(st)
BY DEF FrameStep

LEMMA FrameCloses ==
    ASSUME NEW st, NEW e, e.op = "txn_commit" PROVE FrameStep(st, e) = Closed(st)
BY DEF FrameStep

\* What one turn of the framing loop does to each of its locals.
TurnOf(st, e, r) ==
    /\ e.op = "txn_begin" => r.in_txn /\ r.pending = <<>> /\ r.applied = st.applied
    /\ e.op = "txn_commit" =>
          ~r.in_txn /\ r.pending = <<>> /\ r.applied = st.applied \o st.pending
    /\ e.op \notin {"txn_begin", "txn_commit"} /\ st.in_txn =>
          r.in_txn /\ r.pending = Append(st.pending, e) /\ r.applied = st.applied
    /\ e.op \notin {"txn_begin", "txn_commit"} /\ ~st.in_txn =>
          ~r.in_txn /\ r.pending = st.pending /\ r.applied = Append(st.applied, e)

LEMMA FrameCases ==
    ASSUME NEW X, NEW st \in States(X), NEW e \in X
    PROVE  FrameStep(st, e) \in States(X) /\ TurnOf(st, e, FrameStep(st, e))
<1> DEFINE r == FrameStep(st, e)
<1> DEFINE yes == TRUE
<1> DEFINE none == <<>>
<1>0. /\ none \in Seq(X) /\ st.pending \in Seq(X) /\ st.applied \in Seq(X)
      /\ st.applied \o st.pending \in Seq(X)
      /\ Append(st.pending, e) \in Seq(X) /\ Append(st.applied, e) \in Seq(X)
  BY DEF States
<1>1. CASE e.op = "txn_begin"
  <2>0. r = [st EXCEPT !.in_txn = yes, !.pending = none]
    <3>1. r = Opened(st)
      BY <1>1, FrameOpens
    <3> HIDE DEF r
    <3> QED BY <3>1, Zenon DEF Opened
  <2>1. r = [[st EXCEPT !.in_txn = yes] EXCEPT !.pending = none]
    <3> HIDE DEF r, yes, none
    <3> QED BY <2>0 DEF States
  <2>2. r \in States(X) /\ r.in_txn = yes /\ r.pending = none /\ r.applied = st.applied
    <3>1. yes \in BOOLEAN
      OBVIOUS
    <3> HIDE DEF r, yes, none
    <3> QED BY <1>0, <2>1, <3>1 DEF States
  <2> QED BY <1>1, <2>2 DEF TurnOf
<1>2. CASE e.op = "txn_commit"
  <2> DEFINE no == FALSE
  <2>1. r = [in_txn |-> no, pending |-> none, applied |-> st.applied \o st.pending]
    <3>1. r = Closed(st)
      BY <1>2, FrameCloses
    <3> HIDE DEF r
    <3> QED BY <3>1, Zenon DEF Closed
  <2>2. r \in States(X) /\ r.in_txn = no /\ r.pending = none /\ r.applied = st.applied \o st.pending
    <3>1. no \in BOOLEAN
      OBVIOUS
    <3> HIDE DEF r, no, none
    <3> QED BY <1>0, <2>1, <3>1 DEF States
  <2> QED BY <1>2, <2>2 DEF TurnOf
<1>3. CASE e.op \notin {"txn_begin", "txn_commit"} /\ st.in_txn
  <2>1. r = [st EXCEPT !.pending = Append(@, e)]
    BY <1>3 DEF FrameStep
  <2>2. r \in States(X) /\ r.in_txn = st.in_txn /\ r.pending = Append(st.pending, e) /\ r.applied = st.applied
    <3> HIDE DEF r
    <3> QED BY <1>0, <2>1 DEF States
  <2> QED BY <1>3, <2>2 DEF TurnOf
<1>4. CASE e.op \notin {"txn_begin", "txn_commit"} /\ ~st.in_txn
  <2>1. r = [st EXCEPT !.applied = Append(@, e)]
    BY <1>4 DEF FrameStep
  <2>2. r \in States(X) /\ r.in_txn = st.in_txn /\ r.pending = st.pending /\ r.applied = Append(st.applied, e)
    <3> HIDE DEF r
    <3> QED BY <1>0, <2>1 DEF States
  <2> QED BY <1>4, <2>2 DEF TurnOf
<1> QED BY <1>1, <1>2, <1>3, <1>4

LEMMA FrameGrows ==
    ASSUME NEW X, NEW st \in States(X), NEW e \in X
    PROVE  \/ FrameStep(st, e).applied = st.applied
           \/ FrameStep(st, e).applied = st.applied \o st.pending
           \/ FrameStep(st, e).applied = Append(st.applied, e)
<1>1. TurnOf(st, e, FrameStep(st, e)) /\ st.in_txn \in BOOLEAN
  BY FrameCases DEF States
<1> QED BY <1>1 DEF TurnOf

LEMMA StartFacts ==
    ASSUME NEW X
    PROVE  Start \in States(X) /\ ~Start.in_txn /\ Start.pending = <<>> /\ Start.applied = <<>>
<1> DEFINE no == FALSE
<1>1. Start = [in_txn |-> no, pending |-> <<>>, applied |-> <<>>]
  BY DEF Start
<1>2. no \in BOOLEAN /\ <<>> \in Seq(X)
  OBVIOUS
<1>3. Start \in States(X) /\ Start.in_txn = no /\ Start.pending = <<>> /\ Start.applied = <<>>
  <2> HIDE DEF no
  <2> QED BY <1>1, <1>2 DEF States
<1> QED BY <1>3

\* The loop is inside a window when the log is.
LEMMA InTxnMore ==
    ASSUME NEW l \in Logs, NEW e \in Entry
    PROVE  LET w == Append(l, e) IN
           /\ e.op = "txn_begin" => InTxn(w, Len(w))
           /\ e.op = "txn_commit" => ~InTxn(w, Len(w))
           /\ e.op \notin {"txn_begin", "txn_commit"} => (InTxn(w, Len(w)) <=> InTxn(l, Len(l)))
<1> DEFINE w == Append(l, e)
<1> DEFINE n == Len(l)
<1>1. n \in Nat /\ Len(w) = n + 1 /\ w[n + 1] = e /\ \A i \in 1..n : w[i] = l[i]
  BY AppendFacts
<1>2. InTxn(w, n) <=> InTxn(l, n)
  BY <1>1, InTxnAppend
<1> HIDE DEF w, n
<1>3. e.op = "txn_begin" => InTxn(w, n + 1)
  BY <1>1 DEF InTxn
<1>4. e.op = "txn_commit" => ~InTxn(w, n + 1)
  BY <1>1 DEF InTxn
<1>5. e.op \notin {"txn_begin", "txn_commit"} => (InTxn(w, n + 1) <=> InTxn(w, n))
  BY <1>1 DEF InTxn
<1> QED BY <1>1, <1>2, <1>3, <1>4, <1>5 DEF w, n

\* What would be recovered if a commit marker came next, behind one.
LEMMA IfCommittedAfterCommit ==
    ASSUME NEW log \in Logs, NEW e \in Entry, e.op = "txn_commit", Intact(log)
    PROVE  AppliedIfCommitted(Append(log, e)) = Applied(Append(log, e))
<1> DEFINE w == Append(log, e)
<1> DEFINE n == Len(log)
<1>1. /\ n \in Nat /\ Len(w) = n + 1 /\ w[n + 1] = e /\ Readable(w) = 1..(n + 1)
  BY AppendFacts, ReadableAppend
<1> HIDE DEF w, n
<1>2. ASSUME NEW i \in Readable(w), IsPut(w[i]), \A m \in (i + 1)..Len(w) : w[m].op # "txn_begin"
      PROVE  i \in Applied(w)
  <2>1. i # n + 1
    BY <1>1, <1>2 DEF IsPut
  <2>2. n + 1 \in Readable(w) /\ n + 1 > i /\ w[n + 1].op = "txn_commit"
        /\ \A m \in (i + 1)..((n + 1) - 1) : w[m].op # "txn_begin"
    BY <1>1, <1>2, <2>1
  <2>3. Committed(w, i)
    BY <2>2 DEF Committed
  <2> QED BY <1>2, <2>3 DEF Applied
<1>3. AppliedIfCommitted(w) = Applied(w)
  BY <1>2 DEF AppliedIfCommitted
<1> QED BY <1>3 DEF w

LEMMA ConcatNone == ASSUME NEW X, NEW s \in Seq(X) PROVE s \o <<>> = s
OBVIOUS

LEMMA ConcatAppend ==
    ASSUME NEW X, NEW s \in Seq(X), NEW t \in Seq(X), NEW e \in X
    PROVE  s \o Append(t, e) = Append(s \o t, e)
<1> DEFINE a == s \o Append(t, e)
<1> DEFINE b == Append(s \o t, e)
<1>1. /\ a \in Seq(X) /\ b \in Seq(X) /\ Len(a) = Len(s) + Len(t) + 1 /\ Len(b) = Len(a)
      /\ Len(s) \in Nat /\ Len(t) \in Nat
  OBVIOUS
<1>2. ASSUME NEW i \in 1..Len(a)
      PROVE  a[i] = b[i]
  <2>1. CASE i <= Len(s)
    BY <1>1, <2>1
  <2>2. CASE i > Len(s) /\ i <= Len(s) + Len(t)
    BY <1>1, <2>2
  <2>3. CASE i = Len(s) + Len(t) + 1
    BY <1>1, <2>3
  <2> QED BY <1>1, <2>1, <2>2, <2>3
<1> HIDE DEF a, b
<1>3. a = b
  BY <1>1, <1>2
<1> QED BY <1>3 DEF a, b

\* The log as the code sees it: what the loop has applied is what the closed form
\* says, and what it holds back is what a commit marker would bring.
FramedIs(base, l) ==
    LET st == Framed(l) IN
    /\ st \in States(Entries) /\ (st.in_txn <=> InTxn(l, Len(l)))
    /\ ~st.in_txn => st.pending = <<>>
    /\ Play(base, st.applied) = Recover(base, l)
    /\ Play(base, st.applied \o st.pending) = RecoverIfCommitted(base, l)

LEMMA FramedIsMore ==
    ASSUME NEW base \in Stores, NEW l \in Seq(Entries), NEW e \in Entries,
           Intact(l), e.op # "torn", FramedIs(base, l)
    PROVE  FramedIs(base, Append(l, e))
<1> DEFINE st == Framed(l)
<1> DEFINE w == Append(l, e)
<1> DEFINE r == Framed(w)
<1>1. l \in Logs /\ e \in Entry
  BY EntriesAreEntries DEF Logs
<1>2. r = FrameStep(st, e)
  BY FramedMore
<1>3. /\ st \in States(Entries) /\ (st.in_txn <=> InTxn(l, Len(l)))
      /\ ~st.in_txn => st.pending = <<>>
      /\ Play(base, st.applied) = Recover(base, l)
      /\ Play(base, st.applied \o st.pending) = RecoverIfCommitted(base, l)
      /\ st.applied \in Seq(Entries) /\ st.pending \in Seq(Entries)
  BY DEF FramedIs, States
<1> HIDE DEF r, st
<1>4. r \in States(Entries) /\ TurnOf(st, e, r)
  BY <1>2, <1>3, FrameCases
<1>5. CASE e.op = "txn_begin"
  <2>1. r.in_txn /\ r.pending = <<>> /\ r.applied = st.applied
    BY <1>4, <1>5 DEF TurnOf
  <2>2. InTxn(w, Len(w))
    BY <1>1, <1>5, InTxnMore
  <2>3. Recover(base, w) = Recover(base, l) /\ RecoverIfCommitted(base, w) = Recover(base, l)
    BY <1>1, <1>5, RecoverBegin, IfCommittedAfterBegin
  <2>4. r.applied \o r.pending = st.applied
    BY <1>3, <2>1
  <2> QED BY <1>3, <1>4, <2>1, <2>2, <2>3, <2>4 DEF FramedIs, r
<1>6. CASE e.op = "txn_commit"
  <2>1. ~r.in_txn /\ r.pending = <<>> /\ r.applied = st.applied \o st.pending
    BY <1>4, <1>6 DEF TurnOf
  <2>2. ~InTxn(w, Len(w))
    BY <1>1, <1>6, InTxnMore
  <2>3. Recover(base, w) = RecoverIfCommitted(base, l) /\ RecoverIfCommitted(base, w) = Recover(base, w)
    <3>1. AppliedIfCommitted(w) = Applied(w)
      BY <1>1, <1>6, IfCommittedAfterCommit
    <3> QED BY <1>1, <1>6, <3>1, RecoverCommit, RecoverUnfolds DEF RecoverIfCommitted
  <2>4. r.applied \o r.pending = r.applied
    BY <1>3, <2>1
  <2> QED BY <1>3, <1>4, <2>1, <2>2, <2>3, <2>4 DEF FramedIs, r
<1>7. CASE e.op \notin {"txn_begin", "txn_commit"}
  <2>1. PICK k \in Keys, c \in Contents : e = Put(k, c)
    BY <1>7, EntriesAreEntries
  <2>2. IsPut(e) /\ e.key = k /\ e.val = c
    BY <2>1, EntryFacts
  <2>3. InTxn(w, Len(w)) <=> InTxn(l, Len(l))
    BY <1>1, <1>7, InTxnMore
  <2>4. RecoverIfCommitted(base, w) = [RecoverIfCommitted(base, l) EXCEPT ![k] = c]
    BY <1>1, <2>1, IfCommittedAfterPut
  <2>5. \A es \in Seq(Entries) : Play(base, Append(es, e)) = [Play(base, es) EXCEPT ![k] = c]
    BY <2>2, PlayMore DEF PlayEntry
  <2>6. CASE st.in_txn
    <3>1. r.in_txn /\ r.pending = Append(st.pending, e) /\ r.applied = st.applied
      BY <1>4, <1>7, <2>6 DEF TurnOf
    <3>2. Recover(base, w) = Recover(base, l)
      BY <1>1, <1>3, <2>2, <2>6, RecoverPutInTxn
    <3>3. r.applied \o r.pending = Append(st.applied \o st.pending, e)
      <4>1. \A s, t \in Seq(Entries) : s \o Append(t, e) = Append(s \o t, e)
        BY ConcatAppend
      <4>2. st.applied \in Seq(Entries) /\ st.pending \in Seq(Entries)
        BY <1>3
      <4>3. st.applied \o Append(st.pending, e) = Append(st.applied \o st.pending, e)
        BY ONLY <4>1, <4>2
      <4> QED BY ONLY <3>1, <4>3
    <3>4. st.applied \o st.pending \in Seq(Entries)
      BY <1>3
    <3>5. Play(base, r.applied \o r.pending) = RecoverIfCommitted(base, w)
      BY <1>3, <2>4, <2>5, <3>3, <3>4
    <3> QED BY <1>3, <1>4, <2>3, <2>6, <3>1, <3>2, <3>5 DEF FramedIs, r
  <2>7. CASE ~st.in_txn
    <3>1. ~r.in_txn /\ r.pending = st.pending /\ r.applied = Append(st.applied, e)
      BY <1>4, <1>7, <2>7 DEF TurnOf
    <3>2. Clean(l)
      BY <1>3, <2>7 DEF Clean
    <3>3. Recover(base, w) = [Recover(base, l) EXCEPT ![k] = c]
      BY <1>1, <2>1, <3>2, RecoverPutClean
    <3>4. Play(base, r.applied) = Recover(base, w)
      BY <1>3, <2>5, <3>1, <3>3
    <3>5. st.applied \o st.pending = st.applied /\ r.applied \o r.pending = r.applied
      <4>1. r.applied \in Seq(Entries)
        BY <1>4 DEF States
      <4> QED BY <1>3, <2>7, <3>1, <4>1, ConcatNone
    <3>6. RecoverIfCommitted(base, w) = Recover(base, w)
      BY <1>3, <2>4, <3>3, <3>5
    <3> QED BY <1>3, <1>4, <2>3, <2>7, <3>1, <3>4, <3>5, <3>6 DEF FramedIs, r
  <2> QED BY <2>6, <2>7
<1> QED BY <1>5, <1>6, <1>7

-----------------------------------------------------------------------------
(* The scan in front of the loop: it ends at the first torn record.        *)

LEMMA PrefixIntact ==
    ASSUME NEW X, NEW l \in Seq(X), Intact(l) PROVE ValidPrefix(l) = l
<1>1. {i \in 1..Len(l) : l[i].op = "torn"} = {}
  BY DEF Intact
<1> QED BY <1>1 DEF ValidPrefix, SelectInSeq

LEMMA TornFirst ==
    ASSUME NEW X, NEW l \in Seq(X), NEW p \in 1..Len(l), l[p].op = "torn",
           \A i \in 1..(p - 1) : l[i].op # "torn"
    PROVE  ValidPrefix(l) = SubSeq(l, 1, p - 1)
<1> DEFINE I == {i \in 1..Len(l) : l[i].op = "torn"}
<1>1. p \in I /\ \A i \in I : p <= i
  OBVIOUS
<1>2. \A x \in I : (\A y \in I : x <= y) => x = p
  <2> SUFFICES ASSUME NEW x \in I, \A y \in I : x <= y PROVE x = p
    OBVIOUS
  <2>1. x <= p /\ p <= x
    BY <1>1
  <2> QED BY <2>1
<1>3. Min(I) = p
  <2> HIDE DEF I
  <2> QED BY <1>1, <1>2 DEF Min
<1>4. SelectInSeq(l, LAMBDA e : e.op = "torn") = p
  BY <1>1, <1>3 DEF SelectInSeq
<1> QED BY <1>4 DEF ValidPrefix

LEMMA PrefixTorn ==
    ASSUME NEW X, NEW l \in Seq(X), NEW e \in X, Intact(l), e.op = "torn"
    PROVE  ValidPrefix(Append(l, e)) = l
<1> DEFINE w == Append(l, e)
<1> DEFINE n == Len(l)
<1>1. /\ n \in Nat /\ w \in Seq(X) /\ Len(w) = n + 1 /\ w[n + 1] = e
      /\ \A i \in 1..n : w[i] = l[i]
  OBVIOUS
<1>2. \A i \in 1..n : l[i].op # "torn"
  BY DEF Intact
<1>3. SubSeq(w, 1, n) = l
  OBVIOUS
<1> HIDE DEF w, n
<1>4. ValidPrefix(w) = SubSeq(w, 1, (n + 1) - 1)
  <2>1. /\ n + 1 \in 1..Len(w) /\ w[n + 1].op = "torn"
        /\ \A i \in 1..((n + 1) - 1) : w[i].op # "torn"
    BY <1>1, <1>2
  <2> QED BY <1>1, <2>1, TornFirst
<1> QED BY <1>1, <1>3, <1>4 DEF w

LEMMA PrefixHidden ==
    ASSUME NEW X, NEW l \in Seq(X), NEW e \in X, ~Intact(l)
    PROVE  ValidPrefix(Append(l, e)) = ValidPrefix(l)
<1> DEFINE w == Append(l, e)
<1> DEFINE n == Len(l)
<1> DEFINE I == {i \in 1..n : l[i].op = "torn"}
<1>1. /\ n \in Nat /\ w \in Seq(X) /\ Len(w) = n + 1
      /\ \A i \in 1..n : w[i] = l[i]
  OBVIOUS
<1>2. I # {}
  BY DEF Intact
<1>3. PICK p \in I : \A i \in I : p <= i
  <2>1. I \subseteq Nat
    OBVIOUS
  <2> HIDE DEF I
  <2> QED BY <1>2, <2>1, LeastNumber
<1>4. p \in 1..n /\ l[p].op = "torn" /\ \A i \in 1..(p - 1) : l[i].op # "torn"
  BY <1>1, <1>3
<1>5. ValidPrefix(l) = SubSeq(l, 1, p - 1)
  BY <1>4, TornFirst
<1>6. SubSeq(w, 1, p - 1) = SubSeq(l, 1, p - 1)
  BY <1>1, <1>4
<1> HIDE DEF w, n
<1>7. ValidPrefix(w) = SubSeq(w, 1, p - 1)
  <2>1. p \in 1..Len(w) /\ w[p].op = "torn" /\ \A i \in 1..(p - 1) : w[i].op # "torn"
    BY <1>1, <1>4
  <2> QED BY <1>1, <2>1, TornFirst
<1> QED BY <1>5, <1>6, <1>7 DEF w

\* What the recovery of a log rests on: the part of it in front of the damage.
ReadsAs(base, l) ==
    LET p == ValidPrefix(l) IN
    /\ p \in Seq(Entries) /\ FramedIs(base, p)
    /\ Recover(base, l) = Recover(base, p)
    /\ Intact(l) => p = l

LEMMA EveryLogReads ==
    ASSUME NEW base \in Stores, NEW log \in Seq(Entries) PROVE ReadsAs(base, log)
<1> DEFINE G == {l \in Seq(Entries) : ReadsAs(base, l)}
<1>1. <<>> \in G
  <2>1. <<>> \in Seq(Entries) /\ Intact(<<>>)
    BY DEF Intact
  <2>2. ValidPrefix(<<>>) = <<>>
    BY <2>1, PrefixIntact
  <2>3. Recover(base, <<>>) = base /\ RecoverIfCommitted(base, <<>>) = base
    <3>1. AppliedIfCommitted(<<>>) = Applied(<<>>)
      BY DEF AppliedIfCommitted, Applied, Readable
    <3> QED BY <3>1, RecoverEmpty, RecoverUnfolds DEF RecoverIfCommitted
  <2>4. ~InTxn(<<>>, Len(<<>>))
    BY DEF InTxn
  <2>5. FramedIs(base, <<>>)
    <3>1. <<>> \o <<>> = <<>>
      OBVIOUS
    <3> QED BY <2>3, <2>4, <3>1, FramedNone, StartFacts, PlayNone DEF FramedIs
  <2> QED BY <2>1, <2>2, <2>5 DEF ReadsAs
<1>2. ASSUME NEW l \in Seq(Entries), NEW e \in Entries, l \in G
      PROVE  Append(l, e) \in G
  <2> DEFINE w == Append(l, e)
  <2>1. l \in Logs /\ e \in Entry /\ w \in Seq(Entries) /\ ReadsAs(base, l)
    BY <1>2, EntriesAreEntries DEF Logs
  <2>2. CASE ~Intact(l)
    <3>1. ValidPrefix(w) = ValidPrefix(l) /\ Recover(base, w) = Recover(base, l) /\ ~Intact(w)
      BY <2>1, <2>2, PrefixHidden, RecoverHidden, ReadableHidden
    <3> QED BY <2>1, <3>1 DEF ReadsAs
  <2>3. CASE Intact(l) /\ e.op = "torn"
    <3>1. ValidPrefix(w) = l /\ Recover(base, w) = Recover(base, l) /\ ~Intact(w)
      BY <2>1, <2>3, PrefixTorn, RecoverHidden, ReadableHidden
    <3> QED BY <2>1, <2>3, <3>1 DEF ReadsAs
  <2>4. CASE Intact(l) /\ e.op # "torn"
    <3>1. Intact(w) /\ ValidPrefix(w) = w
      BY <2>1, <2>4, ReadableAppend, PrefixIntact
    <3>2. FramedIs(base, l)
      BY <2>1, <2>4 DEF ReadsAs
    <3>3. FramedIs(base, w)
      BY <2>4, <3>2, FramedIsMore
    <3> QED BY <2>1, <3>1, <3>3 DEF ReadsAs
  <2> QED BY <2>2, <2>3, <2>4
<1>3. \A l \in Seq(Entries) : l \in G
  <2> HIDE DEF G
  <2> QED BY <1>1, <1>2, AllSequences
<1> QED BY <1>3

\* Every log the appends can write, over every loaded state.
WrittenInv == loaded \in Stores /\ written \in Seq(Entries)

LEMMA LogsAreWritten == ReplaySpec => []WrittenInv
<1>1. ReplayInit => WrittenInv
  BY DEF ReplayInit, WrittenInv
<1>2. WrittenInv /\ [ReplayNext]_replayVars => WrittenInv'
  BY DEF WrittenInv, ReplayNext, AppendAny, replayVars
<1> QED BY <1>1, <1>2, PTL DEF ReplaySpec

\* The loop of WAL::replay and the loop of open(), run one after the other, build the
\* store that every other module takes a recovery to be, whatever the log says.
THEOREM LoopsComputeRecover == ReplaySpec => []ReplayIsRecover
<1>1. WrittenInv => ReplayIsRecover
  <2> SUFFICES ASSUME WrittenInv PROVE ReplayIsRecover
    OBVIOUS
  <2>1. ReadsAs(loaded, written)
    BY EveryLogReads DEF WrittenInv
  <2>2. Play(loaded, Framed(ValidPrefix(written)).applied) = Recover(loaded, written)
    BY <2>1 DEF ReadsAs, FramedIs
  <2> QED BY <2>2 DEF ReplayIsRecover, Replay, Framed, Start
<1> QED BY <1>1, LogsAreWritten, PTL

-----------------------------------------------------------------------------
(* What a growing log does to what was applied.                            *)

LEMMA SamePrefix == ASSUME NEW X, NEW s \in Seq(X) PROVE IsPrefix(s, s)
BY DEF IsPrefix

LEMMA ConcatPrefix ==
    ASSUME NEW X, NEW s \in Seq(X), NEW t \in Seq(X) PROVE IsPrefix(s, s \o t)
<1> DEFINE w == s \o t
<1>1. w \in Seq(X) /\ Len(s) \in Nat /\ Len(s) <= Len(w) /\ \A i \in 1..Len(s) : w[i] = s[i]
  OBVIOUS
<1> HIDE DEF w
<1>2. SubSeq(w, 1, Len(s)) = SubSeq(s, 1, Len(s))
  BY <1>1
<1> QED BY <1>1, <1>2 DEF IsPrefix, w

LEMMA AppendPrefix ==
    ASSUME NEW X, NEW s \in Seq(X), NEW e \in X PROVE IsPrefix(s, Append(s, e))
<1> DEFINE w == Append(s, e)
<1>1. w \in Seq(X) /\ Len(s) \in Nat /\ Len(s) <= Len(w) /\ \A i \in 1..Len(s) : w[i] = s[i]
  OBVIOUS
<1> HIDE DEF w
<1>2. SubSeq(w, 1, Len(s)) = SubSeq(s, 1, Len(s))
  BY <1>1
<1> QED BY <1>1, <1>2 DEF IsPrefix, w

\* A replay of a longer log starts with everything a replay of the log applied.
LEMMA ReplayGrows ==
    ASSUME NEW base \in Stores, NEW l \in Seq(Entries), NEW e \in Entries
    PROVE  IsPrefix(Replay(l), Replay(Append(l, e)))
<1> DEFINE w == Append(l, e)
<1> DEFINE st == Framed(ValidPrefix(l))
<1>1. Replay(l) = st.applied /\ Replay(w) = Framed(ValidPrefix(w)).applied
  BY DEF Replay, Framed, Start
<1>2. l \in Logs /\ e \in Entry /\ w \in Seq(Entries) /\ ReadsAs(base, l)
  BY EntriesAreEntries, EveryLogReads DEF Logs
<1>3. st \in States(Entries) /\ st.applied \in Seq(Entries) /\ st.pending \in Seq(Entries)
  BY <1>2 DEF ReadsAs, FramedIs, States
<1>4. CASE ~Intact(l) \/ e.op = "torn"
  <2>1. ValidPrefix(w) = ValidPrefix(l)
    BY <1>2, <1>4, PrefixHidden, PrefixTorn DEF ReadsAs
  <2> QED BY <1>1, <1>3, <2>1, SamePrefix
<1>5. CASE Intact(l) /\ e.op # "torn"
  <2>1. ValidPrefix(w) = w /\ ValidPrefix(l) = l
    BY <1>2, <1>5, ReadableAppend, PrefixIntact
  <2>2. Framed(w) = FrameStep(st, e)
    BY <2>1, FramedMore
  <2> HIDE DEF st, w
  <2>3. \/ FrameStep(st, e).applied = st.applied
        \/ FrameStep(st, e).applied = st.applied \o st.pending
        \/ FrameStep(st, e).applied = Append(st.applied, e)
    BY <1>3, FrameGrows
  <2>4. \A s, t \in Seq(Entries) : IsPrefix(s, s) /\ IsPrefix(s, s \o t) /\ IsPrefix(s, Append(s, e))
    BY SamePrefix, ConcatPrefix, AppendPrefix
  <2> QED BY <1>1, <1>3, <2>1, <2>2, <2>3, <2>4 DEF st, w
<1> QED BY <1>4, <1>5

\* A log that grows takes nothing back: what a recovery applied stays applied, in its
\* order, whatever marker, damage or batch follows.
THEOREM ReplayTakesNothingBack == ReplaySpec => ReplayMonotone
<1>1. WrittenInv /\ [ReplayNext]_replayVars => [IsPrefix(Replay(written), Replay(written'))]_replayVars
  <2> SUFFICES ASSUME WrittenInv, AppendAny
               PROVE  IsPrefix(Replay(written), Replay(written'))
    BY DEF ReplayNext
  <2>1. PICK e \in Entries : written' = Append(written, e)
    BY DEF AppendAny
  <2> QED BY <2>1, ReplayGrows DEF WrittenInv
<1> QED BY <1>1, LogsAreWritten, PTL DEF ReplaySpec, ReplayMonotone

-----------------------------------------------------------------------------
(* Which entries survive.  The log is tagged: the value of every entry is  *)
(* its own position, so that the loop's output says which entries it has   *)
(* let through.                                                            *)

Tags == [op : Ops, key : Keys \union {NoKey}, val : Nat]
TagOf(e, i) == [e EXCEPT !.val = i]
Tagged(l) == [i \in DOMAIN l |-> TagOf(l[i], i)]
Vals(s) == {s[j].val : j \in DOMAIN s}

LEMMA TagFacts ==
    ASSUME NEW e \in Entry, NEW i \in Nat
    PROVE  TagOf(e, i) \in Tags /\ TagOf(e, i).op = e.op /\ TagOf(e, i).val = i
BY DEF TagOf, Tags, Entry

LEMMA TaggedFacts ==
    ASSUME NEW l \in Logs
    PROVE  /\ Tagged(l) \in Seq(Tags) /\ Len(Tagged(l)) = Len(l)
           /\ Intact(Tagged(l)) <=> Intact(l)
<1>1. DOMAIN l = 1..Len(l) /\ Len(l) \in Nat /\ \A i \in 1..Len(l) : l[i] \in Entry
  BY DEF Logs
<1>2. \A i \in 1..Len(l) : TagOf(l[i], i) \in Tags /\ TagOf(l[i], i).op = l[i].op
  BY <1>1, TagFacts
<1>3. Tagged(l) \in [1..Len(l) -> Tags] /\ \A i \in 1..Len(l) : Tagged(l)[i] = TagOf(l[i], i)
  BY <1>1, <1>2 DEF Tagged
<1>4. Tagged(l) \in Seq(Tags) /\ Len(Tagged(l)) = Len(l)
  BY <1>1, <1>3
<1>5. Intact(Tagged(l)) <=> Intact(l)
  BY <1>1, <1>2, <1>3 DEF Intact
<1> QED BY <1>4, <1>5

LEMMA TaggedMore ==
    ASSUME NEW l \in Logs, NEW e \in Entry
    PROVE  Tagged(Append(l, e)) = Append(Tagged(l), TagOf(e, Len(l) + 1))
<1> DEFINE w == Append(l, e)
<1> DEFINE n == Len(l)
<1> DEFINE a == Tagged(w)
<1> DEFINE b == Append(Tagged(l), TagOf(e, n + 1))
<1>1. /\ w \in Logs /\ n \in Nat /\ Len(w) = n + 1 /\ DOMAIN w = 1..(n + 1) /\ DOMAIN l = 1..n
      /\ w[n + 1] = e /\ \A i \in 1..n : w[i] = l[i]
  BY AppendFacts
<1>2. Tagged(l) \in Seq(Tags) /\ Len(Tagged(l)) = n /\ TagOf(e, n + 1) \in Tags
  BY <1>1, TaggedFacts, TagFacts
<1>3. /\ b \in Seq(Tags) /\ Len(b) = n + 1 /\ b[n + 1] = TagOf(e, n + 1)
      /\ \A i \in 1..n : b[i] = Tagged(l)[i]
  BY <1>1, <1>2
<1>4. \A i \in 1..n : Tagged(l)[i] = TagOf(l[i], i)
  BY <1>1 DEF Tagged
<1>5. \A i \in 1..(n + 1) : a[i] = TagOf(w[i], i)
  BY <1>1 DEF Tagged
<1>6. a \in Seq(Tags) /\ Len(a) = n + 1
  BY <1>1, TaggedFacts
<1> HIDE DEF a, b, w, n
<1>7. \A i \in 1..(n + 1) : a[i] = b[i]
  BY <1>1, <1>3, <1>4, <1>5
<1>8. a = b
  BY <1>1, <1>3, <1>6, <1>7
<1> QED BY <1>8 DEF a, b, w, n

LEMMA ValsMore ==
    ASSUME NEW s \in Seq(Tags), NEW e \in Tags
    PROVE  Vals(Append(s, e)) = Vals(s) \union {e.val}
<1> DEFINE w == Append(s, e)
<1> DEFINE n == Len(s)
<1>1. /\ n \in Nat /\ DOMAIN w = 1..(n + 1) /\ DOMAIN s = 1..n
      /\ w[n + 1] = e /\ \A i \in 1..n : w[i] = s[i]
  OBVIOUS
<1>2. 1..(n + 1) = 1..n \union {n + 1}
  BY <1>1
<1> HIDE DEF w, n
<1> QED BY <1>1, <1>2 DEF Vals, w

LEMMA ValsNone == Vals(<<>>) = {}
BY DEF Vals

\* The loop over the tagged log: the entries it has let through are the ones the
\* closed form counts, the ones it holds back those that a commit marker would add.
FramedTags(l) ==
    LET st == Framed(Tagged(l)) IN
    /\ st \in States(Tags) /\ (st.in_txn <=> InTxn(l, Len(l)))
    /\ ~st.in_txn => st.pending = <<>>
    /\ Vals(st.applied) = Applied(l)
    /\ Vals(st.applied \o st.pending) = AppliedIfCommitted(l)

LEMMA FramedTagsMore ==
    ASSUME NEW l \in Seq(Entries), NEW e \in Entries, Intact(l), e.op # "torn", FramedTags(l)
    PROVE  FramedTags(Append(l, e))
<1> DEFINE st == Framed(Tagged(l))
<1> DEFINE w == Append(l, e)
<1> DEFINE n == Len(l)
<1> DEFINE t == TagOf(e, n + 1)
<1> DEFINE r == Framed(Tagged(w))
<1>1. l \in Logs /\ e \in Entry /\ n \in Nat
  BY EntriesAreEntries DEF Logs
<1>0. t \in Tags /\ t.op = e.op /\ t.val = n + 1
  BY <1>1, TagFacts
<1>2. r = FrameStep(st, t)
  <2>1. Tagged(w) = Append(Tagged(l), t) /\ Tagged(l) \in Seq(Tags)
    BY <1>1, TaggedMore, TaggedFacts
  <2> HIDE DEF t
  <2>2. Framed(Append(Tagged(l), t)) = FrameStep(Framed(Tagged(l)), t)
    BY <1>0, <2>1, FramedMore
  <2> QED BY <2>1, <2>2
<1>3. /\ st \in States(Tags) /\ (st.in_txn <=> InTxn(l, n))
      /\ ~st.in_txn => st.pending = <<>>
      /\ Vals(st.applied) = Applied(l)
      /\ Vals(st.applied \o st.pending) = AppliedIfCommitted(l)
      /\ st.applied \in Seq(Tags) /\ st.pending \in Seq(Tags)
  BY DEF FramedTags, States
<1> HIDE DEF r, st, t
<1>4. r \in States(Tags) /\ TurnOf(st, t, r)
  BY <1>0, <1>2, <1>3, FrameCases
<1>5. CASE e.op = "txn_begin"
  <2>1. r.in_txn /\ r.pending = <<>> /\ r.applied = st.applied
    BY <1>0, <1>4, <1>5 DEF TurnOf
  <2>2. InTxn(w, Len(w))
    BY <1>1, <1>5, InTxnMore
  <2>3. Applied(w) = Applied(l) /\ AppliedIfCommitted(w) = Applied(l)
    <3>1. ~IsPut(e) /\ e.op \notin {"torn", "txn_commit"}
      BY <1>5 DEF IsPut
    <3>2. Applied(w) = Applied(l) \union {i \in {n + 1} : IsPut(e) /\ ~InTxn(w, n + 1)}
      BY <1>1, <3>1, AppliedPrefix
    <3>3. AppliedIfCommitted(w) = Applied(l)
      BY <1>1, <1>5, IfCommittedBegin
    <3> QED BY <3>1, <3>2, <3>3
  <2>4. r.applied \o r.pending = st.applied
    BY <1>3, <2>1
  <2> QED BY <1>3, <1>4, <2>1, <2>2, <2>3, <2>4 DEF FramedTags, r
<1>6. CASE e.op = "txn_commit"
  <2>1. ~r.in_txn /\ r.pending = <<>> /\ r.applied = st.applied \o st.pending
    BY <1>0, <1>4, <1>6 DEF TurnOf
  <2>2. ~InTxn(w, Len(w))
    BY <1>1, <1>6, InTxnMore
  <2>3. Applied(w) = AppliedIfCommitted(l) /\ AppliedIfCommitted(w) = Applied(w)
    BY <1>1, <1>6, AppliedCommit, IfCommittedAfterCommit
  <2>4. r.applied \o r.pending = r.applied
    BY <1>3, <2>1
  <2> QED BY <1>3, <1>4, <2>1, <2>2, <2>3, <2>4 DEF FramedTags, r
<1>7. CASE e.op \notin {"txn_begin", "txn_commit"}
  <2>1. IsPut(e)
    BY <1>7, EntriesAreEntries
  <2>2. /\ InTxn(w, Len(w)) <=> InTxn(l, n)
        /\ Len(w) = n + 1
    BY <1>1, <1>7, InTxnMore, AppendFacts
  <2>3. AppliedIfCommitted(w) = AppliedIfCommitted(l) \union {n + 1}
    BY <1>1, <2>1, IfCommittedPut
  <2>4. Applied(w) = Applied(l) \union {i \in {n + 1} : IsPut(e) /\ ~InTxn(w, n + 1)}
    BY <1>1, <1>7, AppliedPrefix
  <2>5. \A s \in Seq(Tags) : Vals(Append(s, t)) = Vals(s) \union {n + 1}
    BY <1>0, ValsMore
  <2>6. CASE st.in_txn
    <3>1. r.in_txn /\ r.pending = Append(st.pending, t) /\ r.applied = st.applied
      BY <1>0, <1>4, <1>7, <2>6 DEF TurnOf
    <3>2. Applied(w) = Applied(l)
      BY <1>3, <2>2, <2>4, <2>6
    <3>3. r.applied \o r.pending = Append(st.applied \o st.pending, t)
      <4>1. \A s, u \in Seq(Tags) : s \o Append(u, t) = Append(s \o u, t)
        BY <1>0, ConcatAppend
      <4>2. st.applied \in Seq(Tags) /\ st.pending \in Seq(Tags)
        BY <1>3
      <4>3. st.applied \o Append(st.pending, t) = Append(st.applied \o st.pending, t)
        BY ONLY <4>1, <4>2
      <4> QED BY ONLY <3>1, <4>3
    <3>4. st.applied \o st.pending \in Seq(Tags)
      BY <1>3
    <3>5. Vals(r.applied \o r.pending) = AppliedIfCommitted(w)
      BY <1>3, <2>3, <2>5, <3>3, <3>4
    <3> QED BY <1>3, <1>4, <2>2, <2>6, <3>1, <3>2, <3>5 DEF FramedTags, r
  <2>7. CASE ~st.in_txn
    <3>1. ~r.in_txn /\ r.pending = st.pending /\ r.applied = Append(st.applied, t)
      BY <1>0, <1>4, <1>7, <2>7 DEF TurnOf
    <3>2. Applied(w) = Applied(l) \union {n + 1}
      BY <1>3, <2>1, <2>2, <2>4, <2>7
    <3>3. Vals(r.applied) = Applied(w)
      BY <1>3, <2>5, <3>1, <3>2
    <3>4. st.applied \o st.pending = st.applied /\ r.applied \o r.pending = r.applied
      <4>1. r.applied \in Seq(Tags)
        BY <1>4 DEF States
      <4> QED BY <1>3, <2>7, <3>1, <4>1, ConcatNone
    <3>5. AppliedIfCommitted(w) = Applied(w)
      BY <1>3, <2>3, <3>2, <3>4
    <3> QED BY <1>3, <1>4, <2>2, <2>7, <3>1, <3>3, <3>4, <3>5 DEF FramedTags, r
  <2> QED BY <2>6, <2>7
<1> QED BY <1>5, <1>6, <1>7

\* The entries that a replay lets through are the ones the closed form counts.
LetsThrough(l) ==
    LET p == ValidPrefix(Tagged(l)) IN
    /\ Vals(Framed(p).applied) = Applied(l)
    /\ Intact(l) => p = Tagged(l) /\ FramedTags(l)

LEMMA EveryLogIsLetThrough ==
    ASSUME NEW log \in Seq(Entries) PROVE LetsThrough(log)
<1> DEFINE G == {l \in Seq(Entries) : LetsThrough(l)}
<1>1. <<>> \in G
  <2>1. <<>> \in Logs /\ Tagged(<<>>) = <<>> /\ Intact(<<>>)
    BY DEF Logs, Tagged, Intact
  <2>2. ValidPrefix(<<>>) = <<>>
    <3>1. <<>> \in Seq(Tags)
      OBVIOUS
    <3> QED BY <2>1, <3>1, PrefixIntact
  <2>3. Applied(<<>>) = {} /\ AppliedIfCommitted(<<>>) = {}
    BY DEF AppliedIfCommitted, Applied, Readable
  <2>4. ~InTxn(<<>>, Len(<<>>)) /\ <<>> \o <<>> = <<>>
    BY DEF InTxn
  <2>5. FramedTags(<<>>)
    BY <2>1, <2>3, <2>4, FramedNone, StartFacts, ValsNone DEF FramedTags
  <2>6. Vals(Framed(<<>>).applied) = Applied(<<>>)
    BY <2>3, FramedNone, StartFacts, ValsNone
  <2>7. <<>> \in Seq(Entries)
    OBVIOUS
  <2> QED BY <2>1, <2>2, <2>5, <2>6, <2>7 DEF LetsThrough
<1>2. ASSUME NEW l \in Seq(Entries), NEW e \in Entries, l \in G
      PROVE  Append(l, e) \in G
  <2> DEFINE w == Append(l, e)
  <2> DEFINE tl == Tagged(l)
  <2> DEFINE t == TagOf(e, Len(l) + 1)
  <2>1. l \in Logs /\ e \in Entry /\ w \in Logs /\ w \in Seq(Entries) /\ LetsThrough(l)
    BY <1>2, EntriesAreEntries DEF Logs
  <2>2. /\ tl \in Seq(Tags) /\ t \in Tags /\ t.op = e.op /\ Tagged(w) = Append(tl, t)
        /\ (Intact(tl) <=> Intact(l)) /\ Tagged(w) \in Seq(Tags)
        /\ (Intact(Tagged(w)) <=> Intact(w))
    <3>1. Len(l) + 1 \in Nat
      BY <2>1 DEF Logs
    <3> QED BY <2>1, <3>1, TaggedFacts, TaggedMore, TagFacts
  <2> HIDE DEF tl, t
  <2>3. CASE ~Intact(l)
    <3>1. ValidPrefix(Tagged(w)) = ValidPrefix(tl)
      BY <2>2, <2>3, PrefixHidden
    <3>2. Applied(w) = Applied(l) /\ ~Intact(w)
      BY <2>1, <2>3, AppliedHidden, ReadableHidden
    <3> QED BY <2>1, <3>1, <3>2 DEF LetsThrough, tl
  <2>4. CASE Intact(l) /\ e.op = "torn"
    <3>1. ValidPrefix(Tagged(w)) = tl /\ ValidPrefix(tl) = tl
      BY <2>2, <2>4, PrefixTorn, PrefixIntact
    <3>2. Applied(w) = Applied(l) /\ ~Intact(w)
      BY <2>1, <2>4, AppliedHidden, ReadableHidden
    <3> QED BY <2>1, <3>1, <3>2 DEF LetsThrough, tl
  <2>5. CASE Intact(l) /\ e.op # "torn"
    <3>1. Intact(w) /\ ValidPrefix(Tagged(w)) = Tagged(w)
      BY <2>1, <2>2, <2>5, ReadableAppend, PrefixIntact
    <3>2. FramedTags(w)
      BY <2>1, <2>5, FramedTagsMore DEF LetsThrough
    <3>3. Vals(Framed(Tagged(w)).applied) = Applied(w)
      BY <3>2 DEF FramedTags
    <3> QED BY <2>1, <3>1, <3>2, <3>3 DEF LetsThrough
  <2> QED BY <2>3, <2>4, <2>5
<1>3. \A l \in Seq(Entries) : l \in G
  <2> HIDE DEF G
  <2> QED BY <1>1, <1>2, AllSequences
<1> QED BY <1>3

\* Two puts of one window share its fate: a commit marker closes it for both.
LEMMA WindowsShareFate ==
    ASSUME NEW l \in Logs, NEW b \in Readable(l), l[b].op = "txn_begin",
           NEW i \in Readable(l), i > b, \A m \in (b + 1)..i : IsPut(l[m]),
           NEW j \in Readable(l), j > b, \A m \in (b + 1)..j : IsPut(l[m]),
           i \in Applied(l)
    PROVE  j \in Applied(l)
<1>1. b \in Nat /\ i \in Nat /\ j \in Nat /\ Readable(l) \subseteq Nat
  BY DEF Readable, Logs
<1>2. \A m \in Nat : IsPut(l[m]) => l[m].op \notin {"txn_begin", "txn_commit"}
  BY DEF IsPut
<1>3. InTxn(l, i)
  <2>1. b \in 1..i
    BY <1>1 DEF Readable, Logs
  <2>2. \A m \in (b + 1)..i : l[m].op # "txn_commit"
    BY <1>1, <1>2
  <2> QED BY <2>1, <2>2 DEF InTxn
<1>4. PICK c \in Readable(l) : /\ c > i /\ l[c].op = "txn_commit"
                               /\ \A m \in (i + 1)..(c - 1) : l[m].op # "txn_begin"
  BY <1>3 DEF Applied, Committed
<1>5. c \in Nat /\ c > j
  <2>1. c \in Nat /\ c > b
    BY <1>1, <1>4
  <2>2. ~(c \in (b + 1)..j)
    BY <1>2, <1>4, <2>1
  <2> QED BY <1>1, <2>1, <2>2
<1>6. \A m \in (j + 1)..(c - 1) : l[m].op # "txn_begin"
  <2> SUFFICES ASSUME NEW m \in (j + 1)..(c - 1) PROVE l[m].op # "txn_begin"
    OBVIOUS
  <2>1. m \in Nat /\ (m <= i \/ m \in (i + 1)..(c - 1))
    BY <1>1, <1>5
  <2>2. CASE m <= i
    <3>1. m \in (b + 1)..i
      BY <1>1, <2>1, <2>2
    <3> QED BY <1>2, <2>1, <3>1
  <2> QED BY <1>4, <2>1, <2>2
<1>7. IsPut(l[j])
  BY <1>1
<1> QED BY <1>4, <1>5, <1>6, <1>7 DEF Applied, Committed

\* A batch counts as a whole or not at all, whatever was written before it, inside
\* another batch, behind it, or torn.
THEOREM BatchesAreWhole == ReplaySpec => []WindowsAllOrNothing
<1>1. WrittenInv => WindowsAllOrNothing
  <2> SUFFICES ASSUME WrittenInv PROVE WindowsAllOrNothing
    OBVIOUS
  <2>1. written \in Seq(Entries) /\ written \in Logs
    BY EntriesAreEntries DEF WrittenInv, Logs
  <2>2. Survivors = Applied(written)
    <3>1. Vals(Framed(ValidPrefix(Tagged(written))).applied) = Applied(written)
      BY <2>1, EveryLogIsLetThrough DEF LetsThrough
    <3>2. Survivors = Vals(Replay(Tagged(written)))
      BY DEF Survivors, Vals, Tagged, TagOf
    <3>3. Replay(Tagged(written)) = Framed(ValidPrefix(Tagged(written))).applied
      BY DEF Replay, Framed, Start
    <3> QED BY <3>1, <3>2, <3>3
  <2> SUFFICES ASSUME NEW b \in Readable(written), written[b].op = "txn_begin"
               PROVE  LET inside == {i \in Readable(written) :
                                        i > b /\ \A m \in (b + 1)..i : IsPut(written[m])}
                      IN  inside \subseteq Survivors \/ inside \intersect Survivors = {}
    BY DEF WindowsAllOrNothing
  <2> DEFINE inside == {i \in Readable(written) :
                          i > b /\ \A m \in (b + 1)..i : IsPut(written[m])}
  <2>3. ASSUME NEW i \in inside, NEW j \in inside, i \in Applied(written)
        PROVE  j \in Applied(written)
    BY <2>1, <2>3, WindowsShareFate
  <2> HIDE DEF inside
  <2>4. inside \subseteq Survivors \/ inside \intersect Survivors = {}
    BY <2>2, <2>3
  <2> QED BY <2>4 DEF inside
<1> QED BY <1>1, LogsAreWritten, PTL
=============================================================================
