-------------------------- MODULE EngineQueueProofs --------------------------
(***************************************************************************)
(* Theorems about EngineQueue, for any set of papers and of slots for      *)
(* engine processes, and for any number of calls, crashes and restarts.    *)
(***************************************************************************)
EXTENDS EngineQueue, FiniteSetTheorems, SequenceTheorems, TLAPS

-----------------------------------------------------------------------------
(* The queue of papers *)

\* A paper waits in the queue at most once.
Single(q) == \A i, j \in 1..Len(q) : q[i] = q[j] => i = j

LEMMA RemoveFirstQueue ==
    ASSUME NEW q \in Seq(Docs), NEW d \in Docs, Single(q), \E i \in 1..Len(q) : q[i] = d
    PROVE  /\ RemoveFirst(q, d) \in Seq(Docs) /\ Single(RemoveFirst(q, d))
           /\ \A i \in 1..Len(RemoveFirst(q, d)) :
                 RemoveFirst(q, d)[i] # d /\ \E j \in 1..Len(q) : RemoveFirst(q, d)[i] = q[j]
           /\ \A j \in 1..Len(q) : q[j] # d =>
                 \E i \in 1..Len(RemoveFirst(q, d)) : RemoveFirst(q, d)[i] = q[j]
<1> DEFINE I == {i \in 1..Len(q) : q[i] = d}
           n == SelectInSeq(q, LAMBDA v : v = d)
<1>1. PICK k \in 1..Len(q) : q[k] = d
  OBVIOUS
<1>2. I = {k}
  BY <1>1 DEF Single
<1>3. n = Min(I)
  BY <1>1 DEF SelectInSeq
<1>4. n = k
  <2>1. \A x, y \in I : x =< y
    BY <1>2, k \in Int
  <2>2. Min(I) \in I
    BY <1>2, <2>1 DEF Min
  <2> QED
    BY <1>2, <1>3, <2>2
<1>5. RemoveFirst(q, d) = RemoveAt(q, n)
  BY <1>1 DEF RemoveFirst
<1> DEFINE u == SubSeq(q, 1, k - 1)
           v == SubSeq(q, k + 1, Len(q))
           r == u \o v
<1>6. RemoveFirst(q, d) = r
  BY <1>4, <1>5 DEF RemoveAt
<1> Len(q) \in Nat /\ k \in 1..Len(q) /\ \A i \in 1..Len(q) : q[i] \in Docs
  OBVIOUS
<1>a. u \in Seq(Docs) /\ Len(u) = k - 1 /\ \A i \in 1..(k - 1) : u[i] = q[i]
  <2>1. \A i \in 1..(k - 1) : q[i] \in Docs
    OBVIOUS
  <2>2. /\ u \in Seq(Docs) /\ Len(u) = IF 1 <= k - 1 THEN (k - 1) - 1 + 1 ELSE 0
        /\ \A i \in 1..((k - 1) - 1 + 1) : u[i] = q[1 + i - 1]
    BY <2>1, SubSeqProperties
  <2> QED
    BY <2>2
<1>b. v \in Seq(Docs) /\ Len(v) = Len(q) - k /\ \A i \in 1..(Len(q) - k) : v[i] = q[k + i]
  <2>1. \A i \in (k + 1)..Len(q) : q[i] \in Docs
    OBVIOUS
  <2>2. /\ v \in Seq(Docs) /\ Len(v) = IF k + 1 <= Len(q) THEN Len(q) - (k + 1) + 1 ELSE 0
        /\ \A i \in 1..(Len(q) - (k + 1) + 1) : v[i] = q[(k + 1) + i - 1]
    BY <2>1, SubSeqProperties
  <2> QED
    BY <2>2
<1> HIDE DEF u, v
<1>c. /\ r \in Seq(Docs) /\ Len(r) = Len(u) + Len(v)
      /\ \A i \in 1..(Len(u) + Len(v)) : r[i] = IF i <= Len(u) THEN u[i] ELSE v[i - Len(u)]
  BY <1>a, <1>b, ConcatProperties
<1> HIDE DEF r
<1>7. /\ r \in Seq(Docs) /\ Len(r) = Len(q) - 1
      /\ \A i \in 1..Len(r) : r[i] = IF i < k THEN q[i] ELSE q[i + 1]
  <2>1. r \in Seq(Docs) /\ Len(r) = Len(q) - 1
    BY <1>a, <1>b, <1>c
  <2>2. ASSUME NEW i \in 1..Len(r) PROVE r[i] = IF i < k THEN q[i] ELSE q[i + 1]
    <3>1. CASE i < k
      BY <1>a, <1>b, <1>c, <2>1, <3>1
    <3>2. CASE ~(i < k)
      <4>1. i - (k - 1) \in 1..(Len(q) - k) /\ k + (i - (k - 1)) = i + 1
        BY <2>1, <3>2
      <4> QED
        BY <1>a, <1>b, <1>c, <2>1, <3>2, <4>1
    <3> QED
      BY <3>1, <3>2
  <2> QED
    BY <2>1, <2>2
<1>8. Single(r)
  <2> SUFFICES ASSUME NEW i \in 1..Len(r), NEW j \in 1..Len(r), r[i] = r[j] PROVE i = j
    BY DEF Single
  <2>1. CASE i < k /\ j < k
    BY <1>7, <2>1 DEF Single
  <2>2. CASE i < k /\ ~(j < k)
    BY <1>7, <2>2 DEF Single
  <2>3. CASE ~(i < k) /\ j < k
    BY <1>7, <2>3 DEF Single
  <2>4. CASE ~(i < k) /\ ~(j < k)
    <3>1. q[i + 1] = q[j + 1] /\ i + 1 \in 1..Len(q) /\ j + 1 \in 1..Len(q)
      BY <1>7, <2>4
    <3> QED
      BY <3>1 DEF Single
  <2> QED
    BY <2>1, <2>2, <2>3, <2>4
<1>9. ASSUME NEW i \in 1..Len(r) PROVE r[i] # d /\ \E j \in 1..Len(q) : r[i] = q[j]
  <2>1. CASE i < k
    BY <1>1, <1>7, <2>1 DEF Single
  <2>2. CASE ~(i < k)
    <3>1. r[i] = q[i + 1] /\ i + 1 \in 1..Len(q) /\ i + 1 # k
      BY <1>7, <2>2
    <3> QED
      BY <1>1, <3>1 DEF Single
  <2> QED
    BY <2>1, <2>2
<1>10. ASSUME NEW j \in 1..Len(q), q[j] # d PROVE \E i \in 1..Len(r) : r[i] = q[j]
  <2>1. CASE j < k
    BY <1>7, <2>1
  <2>2. CASE ~(j < k)
    <3>1. j # k
      BY <1>1, <1>10
    <3>2. j - 1 \in 1..Len(r) /\ ~(j - 1 < k) /\ (j - 1) + 1 = j
      BY <1>7, <2>2, <3>1
    <3>3. r[j - 1] = q[j]
      BY <1>7, <3>2
    <3> QED
      BY <3>2, <3>3
  <2> QED
    BY <2>1, <2>2
<1> QED
  BY <1>6, <1>7, <1>8, <1>9, <1>10

\* The papers that a start queues again.
LEMMA SetToSeqQueue ==
    ASSUME NEW S \in SUBSET Docs
    PROVE  /\ SetToSeq(S) \in Seq(Docs) /\ Single(SetToSeq(S))
           /\ \A i \in 1..Len(SetToSeq(S)) : SetToSeq(S)[i] \in S
           /\ \A d \in S : \E i \in 1..Len(SetToSeq(S)) : SetToSeq(S)[i] = d
<1>1. IsFiniteSet(S)
  BY ConstantsAssumption, FS_Subset DEF ConstantsAssumption
<1>2. ExistsBijection(1..Cardinality(S), S) /\ Cardinality(S) \in Nat
  BY <1>1, FS_CardinalityType
<1>3. \E f \in [1..Cardinality(S) -> S] : IsInjective(f)
  <2>1. PICK f : f \in Bijection(1..Cardinality(S), S)
    BY <1>2 DEF ExistsBijection
  <2>2. f \in [1..Cardinality(S) -> S] /\ IsInjective(f)
    BY <2>1 DEF Bijection, Injection
  <2> QED
    BY <2>2
<1>4. SetToSeq(S) \in [1..Cardinality(S) -> S] /\ IsInjective(SetToSeq(S))
  BY <1>3 DEF SetToSeq
<1>5. SetToSeq(S) \in Seq(Docs) /\ Len(SetToSeq(S)) = Cardinality(S)
  BY <1>2, <1>4, SeqDef
<1>6. SetToSeq(S) \in Surjection(1..Cardinality(S), S)
  <2> DEFINE f == SetToSeq(S)
             n == Cardinality(S)
  <2>1. f \in Injection(1..n, S)
    BY <1>4 DEF Injection
  <2>2. Cardinality(1..n) = n
    BY <1>2, FS_Interval
  <2> HIDE DEF f
  <2>3. Cardinality(1..n) = Cardinality(S) <=> f \in Surjection(1..n, S)
    BY <1>1, <2>1, FS_Injection
  <2> QED
    BY <2>2, <2>3 DEF f
<1>7. \A d \in S : \E i \in 1..Len(SetToSeq(S)) : SetToSeq(S)[i] = d
  BY <1>5, <1>6 DEF Surjection
<1> QED
  BY <1>2, <1>4, <1>5, <1>7 DEF IsInjective, Single

LEMMA AppendQueue ==
    ASSUME NEW q \in Seq(Docs), NEW d \in Docs, Single(q), ~\E i \in 1..Len(q) : q[i] = d
    PROVE  Append(q, d) \in Seq(Docs) /\ Single(Append(q, d)) /\ Append(q, d) # <<>>
<1> DEFINE a == Append(q, d)
<1>1. /\ a \in Seq(Docs) /\ Len(a) = Len(q) + 1 /\ Len(q) \in Nat
      /\ \A i \in 1..Len(q) : a[i] = q[i]
      /\ a[Len(q) + 1] = d
  BY AppendProperties
<1>2. ASSUME NEW i \in 1..Len(a), NEW j \in 1..Len(a), a[i] = a[j] PROVE i = j
  <2> HIDE DEF a
  <2>1. CASE i = Len(q) + 1 \/ j = Len(q) + 1
    BY <1>1, <1>2, <2>1
  <2>2. CASE i \in 1..Len(q) /\ j \in 1..Len(q)
    BY <1>1, <1>2, <2>2 DEF Single
  <2> QED
    BY <1>1, <2>1, <2>2
<1> QED
  BY <1>1, <1>2 DEF Single

LEMMA TailQueue ==
    ASSUME NEW q \in Seq(Docs), Single(q), q # <<>>
    PROVE  Head(q) \in Docs /\ Tail(q) \in Seq(Docs) /\ Single(Tail(q))
<1>1. Head(q) \in Docs /\ Tail(q) \in Seq(Docs) /\ Len(Tail(q)) = Len(q) - 1
      /\ \A i \in 1..Len(Tail(q)) : Tail(q)[i] = q[i + 1] /\ i + 1 \in 1..Len(q)
  OBVIOUS
<1>2. ASSUME NEW i \in 1..Len(Tail(q)), NEW j \in 1..Len(Tail(q)), Tail(q)[i] = Tail(q)[j] PROVE i = j
  <2>1. i + 1 = j + 1
    BY <1>1, <1>2 DEF Single
  <2> QED
    BY <1>1, <2>1
<1> QED
  BY <1>1, <1>2 DEF Single


\* Every paper that waits has a row.
Waits(st, q) == Single(q) /\ \A i \in 1..Len(q) : st[q[i]] # "absent"

LEMMA AppendWaits ==
    ASSUME NEW st \in [Docs -> Statuses], NEW q \in Seq(Docs), NEW d \in Docs,
           Waits(st, q), st[d] # "absent", ~\E i \in 1..Len(q) : q[i] = d
    PROVE  Append(q, d) \in Seq(Docs) /\ Waits(st, Append(q, d)) /\ Append(q, d) # <<>>
<1>1. Append(q, d) \in Seq(Docs) /\ Single(Append(q, d)) /\ Append(q, d) # <<>>
  BY AppendQueue DEF Waits
<1>2. /\ Len(Append(q, d)) = Len(q) + 1 /\ Len(q) \in Nat
      /\ \A i \in 1..Len(q) : Append(q, d)[i] = q[i]
      /\ Append(q, d)[Len(q) + 1] = d
  BY AppendProperties
<1>3. ASSUME NEW i \in 1..(Len(q) + 1) PROVE st[Append(q, d)[i]] # "absent"
  <2>1. CASE i = Len(q) + 1
    BY <1>2, <2>1
  <2>2. CASE i \in 1..Len(q)
    BY <1>2, <2>2 DEF Waits
  <2> QED
    BY <1>2, <2>1, <2>2
<1> QED
  BY <1>1, <1>2, <1>3 DEF Waits

LEMMA TailWaits ==
    ASSUME NEW st \in [Docs -> Statuses], NEW q \in Seq(Docs), Waits(st, q), q # <<>>
    PROVE  /\ Head(q) \in Docs /\ Tail(q) \in Seq(Docs)
           /\ st[Head(q)] # "absent"
           /\ \A s \in [Docs -> Statuses] :
                 (\A d \in Docs : d # Head(q) => s[d] = st[d]) /\ s[Head(q)] # "absent"
                    => Waits(s, Tail(q))
<1>1. Head(q) \in Docs /\ Tail(q) \in Seq(Docs) /\ Single(Tail(q))
  BY TailQueue DEF Waits
<1>2. /\ Len(Tail(q)) = Len(q) - 1 /\ Len(q) \in Nat \ {0} /\ Head(q) = q[1]
      /\ \A i \in 1..Len(Tail(q)) : Tail(q)[i] = q[i + 1] /\ i + 1 \in 1..Len(q)
  OBVIOUS
<1>3. \A i \in 1..Len(Tail(q)) : st[Tail(q)[i]] # "absent" /\ Tail(q)[i] \in Docs
  BY <1>1, <1>2 DEF Waits
<1>4. st[Head(q)] # "absent"
  BY <1>2 DEF Waits
<1> QED
  BY <1>1, <1>3, <1>4 DEF Waits

LEMMA RemoveWaits ==
    ASSUME NEW st \in [Docs -> Statuses], NEW q \in Seq(Docs), NEW d \in Docs,
           Waits(st, q), \E i \in 1..Len(q) : q[i] = d,
           NEW s \in [Docs -> Statuses], \A b \in Docs : b # d => s[b] = st[b]
    PROVE  RemoveFirst(q, d) \in Seq(Docs) /\ Waits(s, RemoveFirst(q, d))
<1>1. /\ RemoveFirst(q, d) \in Seq(Docs) /\ Single(RemoveFirst(q, d))
      /\ \A i \in 1..Len(RemoveFirst(q, d)) :
            RemoveFirst(q, d)[i] # d /\ \E j \in 1..Len(q) : RemoveFirst(q, d)[i] = q[j]
  BY RemoveFirstQueue DEF Waits
<1>2. \A j \in 1..Len(q) : q[j] \in Docs /\ st[q[j]] # "absent"
  BY DEF Waits
<1> QED
  BY <1>1, <1>2 DEF Waits


-----------------------------------------------------------------------------
(* What a sequence of messages or of lines holds *)

LEMMA TailSet ==
    ASSUME NEW S, NEW s \in Seq(S), s # <<>>
    PROVE  /\ Head(s) \in S /\ Tail(s) \in Seq(S) /\ Head(s) = s[1]
           /\ Len(s) \in Nat \ {0} /\ Len(Tail(s)) = Len(s) - 1
           /\ \A i \in 1..(Len(s) - 1) : Tail(s)[i] = s[i + 1]
           /\ ToSet(s) = {Head(s)} \cup ToSet(Tail(s))
<1>1. /\ Head(s) \in S /\ Tail(s) \in Seq(S) /\ Head(s) = s[1]
      /\ Len(s) \in Nat \ {0} /\ Len(Tail(s)) = Len(s) - 1
      /\ \A i \in 1..(Len(s) - 1) : Tail(s)[i] = s[i + 1]
  BY HeadTailProperties
<1>2. DOMAIN s = 1..Len(s) /\ DOMAIN Tail(s) = 1..Len(Tail(s))
  BY <1>1
<1>3. ASSUME NEW m \in ToSet(s) PROVE m = Head(s) \/ m \in ToSet(Tail(s))
  <2>1. PICK i \in 1..Len(s) : m = s[i]
    BY <1>2 DEF ToSet
  <2>2. CASE i = 1
    BY <1>1, <2>1, <2>2
  <2>3. CASE i # 1
    <3>1. i - 1 \in 1..(Len(s) - 1) /\ (i - 1) + 1 = i
      BY <1>1, <2>3
    <3>2. m = Tail(s)[i - 1]
      BY <1>1, <2>1, <3>1
    <3> QED
      BY <1>1, <1>2, <3>1, <3>2 DEF ToSet
  <2> QED
    BY <2>2, <2>3
<1>4. Head(s) \in ToSet(s) /\ ToSet(Tail(s)) \subseteq ToSet(s)
  <2>1. Head(s) \in ToSet(s)
    BY <1>1, <1>2 DEF ToSet
  <2>2. ASSUME NEW m \in ToSet(Tail(s)) PROVE m \in ToSet(s)
    <3>1. PICK i \in 1..(Len(s) - 1) : m = Tail(s)[i]
      BY <1>1, <1>2 DEF ToSet
    <3>2. m = s[i + 1] /\ i + 1 \in 1..Len(s)
      BY <1>1, <3>1
    <3> QED
      BY <1>2, <3>2 DEF ToSet
  <2> QED
    BY <2>1, <2>2
<1> QED
  BY <1>1, <1>3, <1>4

LEMMA AppendSet ==
    ASSUME NEW S, NEW s \in Seq(S), NEW m \in S
    PROVE  /\ Append(s, m) \in Seq(S) /\ Len(s) \in Nat /\ Len(Append(s, m)) = Len(s) + 1
           /\ \A i \in 1..Len(s) : Append(s, m)[i] = s[i]
           /\ Append(s, m)[Len(s) + 1] = m
           /\ ToSet(Append(s, m)) = ToSet(s) \cup {m}
<1> DEFINE a == Append(s, m)
<1>1. /\ a \in Seq(S) /\ Len(s) \in Nat /\ Len(a) = Len(s) + 1
      /\ \A i \in 1..Len(s) : a[i] = s[i]
      /\ a[Len(s) + 1] = m
  BY AppendProperties
<1>2. DOMAIN s = 1..Len(s) /\ DOMAIN a = 1..Len(a)
  BY <1>1
<1> HIDE DEF a
<1>3. 1..Len(a) = (1..Len(s)) \cup {Len(s) + 1}
  BY <1>1
<1>4. ToSet(a) = ToSet(s) \cup {m}
  BY <1>1, <1>2, <1>3 DEF ToSet
<1> QED
  BY <1>1, <1>4 DEF a

LEMMA ConcatSet ==
    ASSUME NEW S, NEW s \in Seq(S), NEW t \in Seq(S)
    PROVE  /\ s \o t \in Seq(S) /\ Len(s) \in Nat /\ Len(t) \in Nat
           /\ Len(s \o t) = Len(s) + Len(t)
           /\ \A i \in 1..Len(s) : (s \o t)[i] = s[i]
           /\ \A i \in 1..Len(t) : (s \o t)[Len(s) + i] = t[i]
           /\ ToSet(s \o t) = ToSet(s) \cup ToSet(t)
<1> DEFINE a == s \o t
<1>1. /\ a \in Seq(S) /\ Len(s) \in Nat /\ Len(t) \in Nat /\ Len(a) = Len(s) + Len(t)
      /\ \A i \in 1..(Len(s) + Len(t)) : a[i] = IF i <= Len(s) THEN s[i] ELSE t[i - Len(s)]
  BY ConcatProperties
<1>2. DOMAIN s = 1..Len(s) /\ DOMAIN t = 1..Len(t) /\ DOMAIN a = 1..Len(a)
  BY <1>1
<1> HIDE DEF a
<1>3. \A i \in 1..Len(s) : a[i] = s[i] /\ i \in 1..Len(a)
  BY <1>1
<1>4. ASSUME NEW i \in 1..Len(t) PROVE a[Len(s) + i] = t[i] /\ Len(s) + i \in 1..Len(a)
  BY <1>1, SMTT(30)
<1>5. ASSUME NEW m \in ToSet(a) PROVE m \in ToSet(s) \cup ToSet(t)
  <2>1. PICK i \in 1..Len(a) : m = a[i]
    BY <1>2 DEF ToSet
  <2>2. CASE i <= Len(s)
    BY <1>1, <1>2, <2>1, <2>2, SMTT(30) DEF ToSet
  <2>3. CASE ~(i <= Len(s))
    <3>1. i - Len(s) \in 1..Len(t) /\ m = t[i - Len(s)]
      BY <1>1, <2>1, <2>3
    <3> QED
      BY <1>2, <3>1 DEF ToSet
  <2> QED
    BY <2>2, <2>3
<1>6. ToSet(s) \subseteq ToSet(a) /\ ToSet(t) \subseteq ToSet(a)
  <2>1. ToSet(s) \subseteq ToSet(a)
    BY <1>2, <1>3 DEF ToSet
  <2>2. ASSUME NEW m \in ToSet(t) PROVE m \in ToSet(a)
    <3>1. PICK i \in 1..Len(t) : m = t[i]
      BY <1>2 DEF ToSet
    <3> QED
      BY <1>2, <1>4, <3>1 DEF ToSet
  <2> QED
    BY <2>1, <2>2
<1>7. ToSet(a) = ToSet(s) \cup ToSet(t)
  BY <1>5, <1>6
<1> QED
  BY <1>1, <1>3, <1>4, <1>7 DEF a

LEMMA EmptySet ==
    ASSUME NEW S
    PROVE  <<>> \in Seq(S) /\ Len(<<>>) = 0 /\ ToSet(<<>>) = {}
<1>1. <<>> \in Seq(S) /\ Len(<<>>) = 0 /\ DOMAIN <<>> = {}
  OBVIOUS
<1> QED
  BY <1>1 DEF ToSet

LEMMA MemberSet ==
    ASSUME NEW S, NEW s \in Seq(S)
    PROVE  /\ \A i \in 1..Len(s) : s[i] \in ToSet(s) /\ s[i] \in S
           /\ ToSet(s) \subseteq S /\ Len(s) \in Nat /\ (s # <<>> => Len(s) # 0)
<1>1. DOMAIN s = 1..Len(s)
  OBVIOUS
<1> QED
  BY <1>1 DEF ToSet

\* configure, when the session was not configured yet, comes first.
LEMMA RequestsType ==
    ASSUME request \in Nat, NEW d \in Docs, NEW edits \in Nat, NEW known \in BOOLEAN
    PROVE  /\ Requests(d, edits, known) \in Seq(Messages)
           /\ Len(Requests(d, edits, known)) = (IF known THEN 0 ELSE 1) + edits + 1
           /\ Requests(d, edits, known)[Len(Requests(d, edits, known))]
                  = Message("run", d, request + 1)
           /\ ~known => Requests(d, edits, known)[1] = Configure
           /\ \A i \in 1..(Len(Requests(d, edits, known)) - 1) :
                 Requests(d, edits, known)[i] \in {Configure, Message("edit", d, 0)}
<1> DEFINE a == IF known THEN <<>> ELSE <<Configure>>
           b == [i \in 1..edits |-> Message("edit", d, 0)]
           r == <<Message("run", d, request + 1)>>
           ab == a \o b
           all == ab \o r
<1>1. Configure \in Messages /\ Message("edit", d, 0) \in Messages /\ Message("run", d, request + 1) \in Messages
  <2>1. d # None
    BY ConstantsAssumption DEF ConstantsAssumption
  <2>2. Configure \in Messages
    BY DEF Configure, Message, Messages
  <2>3. Message("edit", d, 0) \in Messages
    BY <2>1 DEF Message, Messages
  <2>4. Message("run", d, request + 1) \in Messages
    BY <2>1 DEF Message, Messages
  <2> QED
    BY <2>2, <2>3, <2>4
<1>2. a \in Seq(Messages) /\ Len(a) = (IF known THEN 0 ELSE 1) /\ (~known => a[1] = Configure)
  BY <1>1
<1>3. b \in Seq(Messages) /\ Len(b) = edits /\ \A i \in 1..edits : b[i] = Message("edit", d, 0)
  BY <1>1, IsASeq
<1>4. r \in Seq(Messages) /\ Len(r) = 1 /\ r[1] = Message("run", d, request + 1)
  BY <1>1
<1> HIDE DEF a, b, r
<1>5. /\ ab \in Seq(Messages) /\ Len(ab) = Len(a) + Len(b)
      /\ \A i \in 1..Len(a) : ab[i] = a[i]
      /\ \A i \in 1..Len(b) : ab[Len(a) + i] = b[i]
  BY <1>2, <1>3, ConcatSet
<1> HIDE DEF ab
<1>6. /\ all \in Seq(Messages) /\ Len(all) = Len(ab) + Len(r)
      /\ \A i \in 1..Len(ab) : all[i] = ab[i]
      /\ \A i \in 1..Len(r) : all[Len(ab) + i] = r[i]
  <2>1. ab \in Seq(Messages) /\ r \in Seq(Messages)
    BY <1>4, <1>5
  <2> QED
    BY <2>1, ConcatSet
<1> HIDE DEF all
<1>7. Requests(d, edits, known) = all
  BY DEF Requests, all, ab, a, b, r
<1>8. Len(all) = (IF known THEN 0 ELSE 1) + edits + 1 /\ all[Len(all)] = Message("run", d, request + 1)
  BY <1>2, <1>3, <1>4, <1>5, <1>6
<1>9. ~known => all[1] = Configure
  BY <1>2, <1>3, <1>4, <1>5, <1>6
<1>10. ASSUME NEW i \in 1..(Len(all) - 1) PROVE all[i] \in {Configure, Message("edit", d, 0)}
  <2>1. i \in 1..Len(ab) /\ all[i] = ab[i]
    BY <1>2, <1>3, <1>4, <1>5, <1>6
  <2>2. CASE i <= Len(a)
    BY <1>2, <1>3, <1>5, <2>1, <2>2
  <2>3. CASE ~(i <= Len(a))
    <3>1. i - Len(a) \in 1..Len(b) /\ Len(a) + (i - Len(a)) = i
      BY <1>2, <1>3, <1>5, <2>1, <2>3
    <3>2. ab[i] = b[i - Len(a)]
      BY <1>5, <3>1
    <3> QED
      BY <1>3, <2>1, <3>1, <3>2
  <2> QED
    BY <2>2, <2>3
<1> QED
  BY <1>6, <1>7, <1>8, <1>9, <1>10

-----------------------------------------------------------------------------
(* Type correctness *)

TypeInv == TypeOK /\ Waits(status, queue)

LEMMA NoEngineType ==
    /\ NoRun \in Runs /\ NoEngine \in Engines /\ NotRetained \in Retained
    /\ NoSidecar \in Sidecars
    /\ \A b \in BOOLEAN :
          /\ Spawned(b) \in Engines
          /\ Spawned(b).life = "alive" /\ Spawned(b).open = TRUE
          /\ Spawned(b).pipe = (IF b THEN <<Configure>> ELSE <<>>)
          /\ Spawned(b).channel = <<>> /\ Spawned(b).configure = FALSE
          /\ Spawned(b).run = NoRun /\ Spawned(b).cancelled = FALSE
          /\ Spawned(b).eof = FALSE /\ Spawned(b).lines = <<>>
          /\ Spawned(b).retained = NotRetained /\ Spawned(b).edited = 0
<1>1. Configure \in Messages
  BY DEF Configure, Message, Messages
<1>2. <<Configure>> \in Seq(Messages) /\ <<>> \in Seq(Messages) /\ <<>> \in Seq(Lines)
  BY <1>1
<1>3. NoRun \in Runs /\ NotRetained \in Retained
  BY DEF NoRun, Runs, NotRetained, Retained
<1>4. NoEngine \in Engines /\ NoSidecar \in Sidecars
  BY <1>2, <1>3 DEF NoEngine, Engines, NoSidecar, Sidecars
<1>5. ASSUME NEW b \in BOOLEAN
      PROVE  /\ Spawned(b) \in Engines
             /\ Spawned(b).life = "alive" /\ Spawned(b).open = TRUE
             /\ Spawned(b).pipe = (IF b THEN <<Configure>> ELSE <<>>)
             /\ Spawned(b).channel = <<>> /\ Spawned(b).configure = FALSE
             /\ Spawned(b).run = NoRun /\ Spawned(b).cancelled = FALSE
             /\ Spawned(b).eof = FALSE /\ Spawned(b).lines = <<>>
             /\ Spawned(b).retained = NotRetained /\ Spawned(b).edited = 0
  BY <1>2, <1>3 DEF Spawned, NoEngine, Engines
<1> QED
  BY <1>3, <1>4, <1>5

LEMMA LineType ==
    ASSUME NEW type \in {"run_started", "document_finished", "run_finished"},
           NEW n \in Nat, NEW ok \in BOOLEAN, NEW s \in Seq(Lines)
    PROVE  /\ Line(type, n, ok) \in Lines /\ Append(s, Line(type, n, ok)) \in Seq(Lines)
           /\ Line(type, n, ok).type = type /\ Line(type, n, ok).n = n
           /\ Line(type, n, ok).ok = ok
<1>1. Line(type, n, ok) \in Lines
  BY DEF Line, Lines
<1>2. Append(s, Line(type, n, ok)) \in Seq(Lines)
  BY <1>1, AppendProperties
<1> QED
  BY <1>1, <1>2 DEF Line

LEMMA FreeSlotType == SlotFree => FreeSlot \in Children /\ Free(FreeSlot)
  BY DEF SlotFree, FreeSlot

LEMMA FailAllType ==
    ASSUME NEW st \in [Docs -> Statuses], NEW q
    PROVE  /\ FailAll(st, q) \in [Docs -> Statuses]
           /\ \A d \in Docs : FailAll(st, q)[d] \in {"failed", st[d]}
  BY DEF FailAll, Statuses

LEMMA SendType ==
    ASSUME TypeOK,
           NEW st \in [Docs -> Statuses], NEW q \in Seq(Docs), Waits(st, q), q # <<>>,
           NEW pend \in [Docs -> Nat], NEW eng \in [Children -> Engines],
           NEW c \in Children, NEW known \in BOOLEAN, SendNext(st, q, pend, eng, c, known)
    PROVE  /\ status' \in [Docs -> Statuses] /\ queue' \in Seq(Docs) /\ Waits(status', queue')
           /\ current' \in Docs /\ pending' \in [Docs -> Nat]
           /\ configured' \in BOOLEAN /\ engine' \in [Children -> Engines]
           /\ request' \in Nat /\ asked' \in [Docs -> Nat]
<1> DEFINE d == Head(q)
<1>1. d \in Docs /\ Tail(q) \in Seq(Docs)
  BY TailQueue DEF Waits
<1>2. Requests(d, pend[d], known) \in Seq(Messages)
  BY <1>1, RequestsType DEF TypeOK
<1>3. eng[c].pipe \o Requests(d, pend[d], known) \in Seq(Messages)
  BY <1>2 DEF Engines
<1>4. engine' = [eng EXCEPT ![c].pipe = eng[c].pipe \o Requests(d, pend[d], known)]
  BY DEF SendNext
<1>5. engine' \in [Children -> Engines]
  BY <1>3, <1>4, ZenonT(60) DEF Engines
<1>6. /\ status' \in [Docs -> Statuses]
      /\ current' \in Docs /\ pending' \in [Docs -> Nat] /\ configured' \in BOOLEAN
      /\ request' \in Nat /\ asked' \in [Docs -> Nat]
  <2>1. /\ status' = [st EXCEPT ![d] = "running"] /\ current' = d
        /\ pending' = [pend EXCEPT ![d] = 0] /\ configured' = TRUE
        /\ request' = request + 1 /\ asked' = [asked EXCEPT ![d] = request + 1]
    BY DEF SendNext
  <2> HIDE DEF d
  <2>2. request \in Nat /\ asked \in [Docs -> Nat] /\ "running" \in Statuses
    BY DEF TypeOK, Statuses
  <2> QED
    BY <1>1, <2>1, <2>2
<1>7. queue' \in Seq(Docs) /\ Waits(status', queue')
  <2>1. queue' = Tail(q) /\ status' = [st EXCEPT ![d] = "running"]
    BY DEF SendNext
  <2>2. /\ \A b \in Docs : b # d => status'[b] = st[b]
        /\ status'[d] # "absent"
    BY <1>1, <2>1
  <2>3. Waits(status', Tail(q))
    BY <1>6, <2>2, TailWaits
  <2> QED
    BY <1>1, <2>1, <2>3
<1> QED
  BY <1>5, <1>6, <1>7

\* What pump leaves has its type.
PumpTyped ==
    /\ status' \in [Docs -> Statuses] /\ queue' \in Seq(Docs) /\ Waits(status', queue')
    /\ current' \in Docs \cup {None} /\ pending' \in [Docs -> Nat]
    /\ configured' \in BOOLEAN /\ sidecar' \in Sidecars
    /\ engine' \in [Children -> Engines]
    /\ request' \in Nat /\ asked' \in [Docs -> Nat]

LEMMA PumpType ==
    ASSUME TypeOK,
           NEW st \in [Docs -> Statuses], NEW q \in Seq(Docs), Waits(st, q),
           NEW cur \in Docs \cup {None},
           NEW pend \in [Docs -> Nat], NEW eng \in [Children -> Engines],
           Pump(st, q, cur, pend, eng)
    PROVE  PumpTyped
<1> USE DEF PumpTyped
<1>1. CASE cur # None \/ q = <<>>
  <2>1. /\ status' = st /\ queue' = q /\ current' = cur /\ pending' = pend /\ engine' = eng
        /\ UNCHANGED <<configured, sidecar, request, asked>>
    BY <1>1 DEF Pump
  <2> QED
    BY <2>1 DEF TypeOK
<1>2. CASE /\ cur = None /\ q # <<>>
           /\ sidecar.state = "running" /\ sidecar.child = None
  <2>1. /\ status' = FailAll(st, q) /\ queue' = <<>> /\ current' = None
        /\ pending' = pend /\ engine' = eng
        /\ UNCHANGED <<configured, sidecar, request, asked>>
    BY <1>2 DEF Pump
  <2>2. queue' \in Seq(Docs) /\ Waits(status', queue')
    BY <2>1 DEF Waits, Single
  <2>3. status' \in [Docs -> Statuses]
    BY <2>1, FailAllType
  <2> QED
    BY <2>1, <2>2, <2>3 DEF TypeOK
<1>3. CASE /\ cur = None /\ q # <<>>
           /\ sidecar.state = "running" /\ sidecar.child # None
  <2>1. /\ SendNext(st, q, pend, eng, sidecar.child, configured)
        /\ sidecar' = [sidecar EXCEPT !.lastConfigure = TRUE]
    BY <1>3 DEF Pump
  <2>2. sidecar.child \in Children /\ configured \in BOOLEAN
    BY <1>3 DEF TypeOK, Sidecars
  <2>3. sidecar' \in Sidecars
    BY <2>1 DEF TypeOK, Sidecars
  <2>4. /\ status' \in [Docs -> Statuses] /\ queue' \in Seq(Docs) /\ Waits(status', queue')
        /\ current' \in Docs /\ pending' \in [Docs -> Nat]
        /\ configured' \in BOOLEAN /\ engine' \in [Children -> Engines]
        /\ request' \in Nat /\ asked' \in [Docs -> Nat]
    BY <1>3, <2>1, <2>2, SendType, ZenonT(60)
  <2> QED
    BY <2>3, <2>4
<1>4. CASE cur = None /\ q # <<>> /\ sidecar.state # "running"
  <2> DEFINE c == FreeSlot
             new == [eng EXCEPT ![c] = Spawned(sidecar.lastConfigure)]
  <2>1. /\ SlotFree
        /\ SendNext(st, q, pend, new, c, FALSE)
        /\ sidecar' = [sidecar EXCEPT !.state = "running", !.child = c, !.stopped = FALSE,
                                      !.lastConfigure = TRUE]
    BY <1>4 DEF Pump
  <2>2. c \in Children
    BY <2>1, FreeSlotType
  <2>3. sidecar' \in Sidecars
    BY <2>1, <2>2 DEF TypeOK, Sidecars
  <2>4. Spawned(sidecar.lastConfigure) \in Engines
    BY NoEngineType DEF TypeOK, Sidecars
  <2>5. new \in [Children -> Engines]
    BY <2>4
  <2> HIDE DEF new, c
  <2> QED
    BY <1>4, <2>1, <2>2, <2>3, <2>5, SendType
<1> QED
  BY <1>1, <1>2, <1>3, <1>4

-----------------------------------------------------------------------------
(* Steps of one engine: e before, f after *)

CancelRead(e, f) ==
    /\ e.pipe # <<>> /\ Head(e.pipe).type = "cancel"
    /\ f = [e EXCEPT !.pipe = Tail(@), !.cancelled = (@ \/ e.run # NoRun)]

RequestRead(e, f) ==
    /\ e.pipe # <<>> /\ Head(e.pipe).type # "cancel"
    /\ f = [e EXCEPT !.pipe = Tail(@), !.channel = Append(@, Head(e.pipe))]

EofRead(e, f) ==
    /\ e.pipe = <<>>
    /\ f = [e EXCEPT !.eof = TRUE, !.cancelled = (@ \/ e.run # NoRun)]

ConfigureTaken(e, f) ==
    /\ e.run = NoRun /\ e.channel # <<>> /\ Head(e.channel).type = "configure"
    /\ f = [e EXCEPT !.channel = Tail(@), !.configure = TRUE]

EditSaved(e, f, saved) ==
    /\ e.run = NoRun /\ e.channel # <<>> /\ Head(e.channel).type = "edit"
    /\ f = [e EXCEPT !.channel = Tail(@), !.edited = @ + saved]

EditTaken(e, f) == \E saved \in {0, 1} : EditSaved(e, f, saved)

RunNext(e) == e.run = NoRun /\ e.channel # <<>> /\ Head(e.channel).type = "run"

FullRun(d, n) == [NoRun EXCEPT !.doc = d, !.n = n]

RunTaken(e, f) ==
    /\ RunNext(e) /\ e.configure
    /\ f = [Taken(e) EXCEPT !.run = FullRun(Head(e.channel).doc, Head(e.channel).n),
                    !.lines = Append(@, Line("run_started", Head(e.channel).n, FALSE))]

RunMissed(e, f) ==
    /\ RunNext(e) /\ e.configure
    /\ f = [Taken(e) EXCEPT !.run = NoRun, !.cancelled = FALSE,
                    !.lines = Append(@, Line("run_finished", Head(e.channel).n, FALSE))]

RunRefused(e, f) ==
    /\ RunNext(e) /\ ~e.configure
    /\ f = [e EXCEPT !.channel = Tail(@)]

PagesRun(e) ==
    [doc |-> Head(e.channel).doc, n |-> Head(e.channel).n, pages |-> TRUE,
     edits |-> e.retained.edits + e.edited, partial |-> e.retained.partial, published |-> FALSE]

PagesTaken(e, f) ==
    /\ RunNext(e) /\ e.configure
    /\ e.retained.doc = Head(e.channel).doc /\ e.edited > 0
    /\ f = [Taken(e) EXCEPT !.run = PagesRun(e)]

FellBack(e, f) ==
    /\ e.run.pages /\ ~e.run.published
    /\ f = [e EXCEPT !.run = FullRun(e.run.doc, e.run.n),
                     !.lines = Append(@, Line("run_started", e.run.n, FALSE))]

RunPublished(e, f) ==
    /\ e.run # NoRun /\ ~e.run.published
    /\ \E edits \in Nat, partial \in BOOLEAN :
          f = [e EXCEPT !.run = [e.run EXCEPT !.edits = edits, !.partial = partial,
                                              !.published = TRUE],
                        !.lines = Append(@, Line("document_finished", e.run.n, FALSE))]

\* What a run retains at its end.
KeptOf(e) ==
    IF e.run.published
    THEN [doc |-> e.run.doc, edits |-> e.run.edits, partial |-> e.run.partial]
    ELSE e.retained

RunFinished(e, f) ==
    /\ e.run # NoRun
    /\ \E ok \in BOOLEAN :
          /\ ok => e.run.published
          /\ f = [e EXCEPT !.run = NoRun, !.cancelled = FALSE, !.retained = KeptOf(e),
                           !.lines = Append(@, Line("run_finished", e.run.n, ok))]

Ended(e, f) == f = [NoEngine EXCEPT !.life = "dead", !.lines = e.lines]

\* Only engine c has changed, and nothing of the main process.
Only(c) ==
    /\ engine[c] \in Engines /\ engine'[c] \in Engines /\ Alive(c)
    /\ engine' \in [Children -> Engines]
    /\ \A b \in Children : b # c => engine'[b] = engine[b]
    /\ EngineOnly

LEMMA ReadCancelStep ==
    ASSUME TypeOK, NEW c \in Children, ReadCancel(c)
    PROVE  Only(c) /\ UNCHANGED <<results, bounds>> /\ CancelRead(engine[c], engine'[c])
<1>1. engine[c] \in Engines /\ engine \in [Children -> Engines]
  BY DEF TypeOK
<1>2. Tail(engine[c].pipe) \in Seq(Messages)
  BY <1>1 DEF ReadCancel, Engines
<1>3. engine' \in [Children -> Engines]
  BY <1>1, <1>2 DEF ReadCancel, Engines
<1>4. CancelRead(engine[c], engine'[c])
  BY <1>1 DEF ReadCancel, CancelRead, Engines
<1> QED
  BY <1>1, <1>3, <1>4 DEF ReadCancel, Only

LEMMA ReadStep ==
    ASSUME TypeOK, NEW c \in Children, Read(c)
    PROVE  Only(c) /\ UNCHANGED <<results, bounds>> /\ RequestRead(engine[c], engine'[c])
<1>1. engine[c] \in Engines /\ engine \in [Children -> Engines]
  BY DEF TypeOK
<1>2. /\ Tail(engine[c].pipe) \in Seq(Messages)
      /\ Append(engine[c].channel, Head(engine[c].pipe)) \in Seq(Messages)
  BY <1>1 DEF Read, Engines
<1>3. engine' \in [Children -> Engines]
  BY <1>1, <1>2 DEF Read, Engines
<1>4. RequestRead(engine[c], engine'[c])
  BY <1>1 DEF Read, RequestRead, Engines
<1> QED
  BY <1>1, <1>3, <1>4 DEF Read, Only

LEMMA ReadEofStep ==
    ASSUME TypeOK, NEW c \in Children, ReadEof(c)
    PROVE  Only(c) /\ UNCHANGED <<results, bounds>> /\ EofRead(engine[c], engine'[c])
<1>1. engine[c] \in Engines /\ engine \in [Children -> Engines]
  BY DEF TypeOK
<1>3. engine' \in [Children -> Engines]
  BY <1>1 DEF ReadEof, Engines
<1>4. EofRead(engine[c], engine'[c])
  BY <1>1 DEF ReadEof, EofRead, Engines
<1> QED
  BY <1>1, <1>3, <1>4 DEF ReadEof, Only

LEMMA TakeConfigureStep ==
    ASSUME TypeOK, NEW c \in Children, TakeConfigure(c)
    PROVE  Only(c) /\ UNCHANGED <<results, bounds>> /\ ConfigureTaken(engine[c], engine'[c])
<1>1. engine[c] \in Engines /\ engine \in [Children -> Engines]
  BY DEF TypeOK
<1>2. Tail(engine[c].channel) \in Seq(Messages)
  BY <1>1 DEF TakeConfigure, Engines
<1>3. engine' \in [Children -> Engines]
  BY <1>1, <1>2 DEF TakeConfigure, Engines
<1>4. ConfigureTaken(engine[c], engine'[c])
  BY <1>1 DEF TakeConfigure, ConfigureTaken, Engines
<1> QED
  BY <1>1, <1>3, <1>4 DEF TakeConfigure, Only

LEMMA UpdateOnly ==
    ASSUME TypeOK, NEW c \in Children, Alive(c), EngineOnly, NEW f \in Engines,
           engine' = [engine EXCEPT ![c] = f]
    PROVE  Only(c) /\ engine'[c] = f
<1>1. engine[c] \in Engines /\ engine \in [Children -> Engines]
  BY DEF TypeOK
<1>2. /\ engine' \in [Children -> Engines] /\ engine'[c] = f
      /\ \A b \in Children : b # c => engine'[b] = engine[b]
  BY <1>1
<1> QED
  BY <1>1, <1>2 DEF Only

LEMMA TakeEditStep ==
    ASSUME TypeOK, NEW c \in Children, TakeEdit(c)
    PROVE  /\ Only(c) /\ UNCHANGED <<output, unstarted, bounds>>
           /\ EditTaken(engine[c], engine'[c])
           /\ stored' \in [Docs -> Nat] /\ Head(engine[c].channel) \in Messages
           /\ \A d \in Docs : d # Head(engine[c].channel).doc => stored'[d] = stored[d]
           /\ \E saved \in {0, 1} :
                 /\ EditSaved(engine[c], engine'[c], saved)
                 /\ \A d \in Docs : d = Head(engine[c].channel).doc =>
                                        stored'[d] = stored[d] + saved
<1> DEFINE h == Head(engine[c].channel).doc
<1>1. engine[c] \in Engines /\ engine \in [Children -> Engines] /\ stored \in [Docs -> Nat]
  BY DEF TypeOK
<1>2. Tail(engine[c].channel) \in Seq(Messages) /\ Head(engine[c].channel) \in Messages
  BY <1>1 DEF TakeEdit, Engines
<1>3. PICK saved \in {0, 1} :
         /\ engine' = [engine EXCEPT ![c].channel = Tail(@), ![c].edited = @ + saved]
         /\ stored' = [stored EXCEPT ![h] = @ + saved]
  BY DEF TakeEdit
<1> HIDE DEF h
<1>4. /\ stored' \in [Docs -> Nat]
      /\ \A d \in Docs : d # h => stored'[d] = stored[d]
      /\ \A d \in Docs : d = h => stored'[d] = stored[d] + saved
  <2>1. saved \in Nat
    OBVIOUS
  <2>2. stored' = [stored EXCEPT ![h] = @ + saved] /\ stored \in [Docs -> Nat]
    BY <1>1, <1>3
  <2>3. h \in Docs
    BY <1>2 DEF TakeEdit, Messages, h
  <2>4. stored[h] + saved \in Nat
    BY <2>1, <2>2, <2>3
  <2> DEFINE x == stored[h] + saved
  <2>5. stored' = [stored EXCEPT ![h] = x]
    BY <2>2
  <2> HIDE DEF x
  <2>6. stored' \in [Docs -> Nat] /\ stored'[h] = x /\ \A d \in Docs : d # h => stored'[d] = stored[d]
    BY <2>2, <2>3, <2>4, <2>5 DEF x
  <2> QED
    BY <2>6 DEF x
<1>5. engine' \in [Children -> Engines]
  <2>1. engine[c].edited + saved \in Nat
    BY <1>1 DEF Engines
  <2> DEFINE f == [engine[c] EXCEPT !.channel = Tail(@), !.edited = engine[c].edited + saved]
  <2>2. f \in Engines
    BY <1>1, <1>2, <2>1 DEF Engines
  <2>3. engine' = [engine EXCEPT ![c] = f]
    BY <1>1, <1>3 DEF Engines
  <2> HIDE DEF f
  <2> QED
    BY <1>1, <2>2, <2>3
<1>6. EditSaved(engine[c], engine'[c], saved) /\ \A b \in Children : b # c => engine'[b] = engine[b]
  BY <1>1, <1>3 DEF TakeEdit, EditSaved, Engines
<1> QED
  BY <1>1, <1>2, <1>4, <1>5, <1>6 DEF TakeEdit, Only, EditTaken, h

LEMMA RunsType ==
    ASSUME NEW d \in Docs, NEW n \in Nat
    PROVE  /\ FullRun(d, n) \in Runs /\ FullRun(d, n) # NoRun
           /\ FullRun(d, n).doc = d /\ FullRun(d, n).n = n /\ FullRun(d, n).pages = FALSE
           /\ FullRun(d, n).published = FALSE
<1>1. d # None
  BY ConstantsAssumption DEF ConstantsAssumption
<1> QED
  BY <1>1 DEF FullRun, NoRun, Runs

\* The engine after it has taken a run request.
LEMMA TakenType ==
    ASSUME NEW e \in Engines, e.channel # <<>>
    PROVE  /\ Taken(e) \in Engines /\ Taken(e).channel = Tail(e.channel)
           /\ Taken(e).pipe = e.pipe /\ Taken(e).lines = e.lines /\ Taken(e).run = e.run
           /\ Taken(e).configure = e.configure /\ Taken(e).life = e.life
           /\ Taken(e).eof = e.eof /\ Taken(e).cancelled = e.eof /\ Taken(e).open = e.open
           /\ Taken(e).retained = NotRetained /\ Taken(e).edited = 0
<1>1. Tail(e.channel) \in Seq(Messages)
  BY DEF Engines
<1> QED
  BY <1>1, NoEngineType DEF Taken, Engines

\* A full run, or the failure before it, of an engine e that carries run n of paper d.
LEMMA BeginFullStep ==
    ASSUME TypeOK, NEW c \in Children, NEW e \in Engines, NEW d \in Docs, NEW n \in Nat,
           Alive(c), EngineOnly, BeginFull(c, e, d, n)
    PROVE  /\ Only(c)
           /\ \/ /\ engine'[c] = [e EXCEPT !.run = FullRun(d, n),
                                      !.lines = Append(@, Line("run_started", n, FALSE))]
                 /\ unstarted' = unstarted
              \/ /\ engine'[c] = [e EXCEPT !.run = NoRun, !.cancelled = FALSE,
                                      !.lines = Append(@, Line("run_finished", n, FALSE))]
                 /\ unstarted' = unstarted \cup (IF d \in published THEN {n} ELSE {})
<1>1. e.lines \in Seq(Lines)
  BY DEF Engines
<1>2. CASE /\ engine' = [engine EXCEPT ![c] = [e EXCEPT !.run = FullRun(d, n),
                                   !.lines = Append(@, Line("run_started", n, FALSE))]]
           /\ unstarted' = unstarted
  <2> DEFINE f == [e EXCEPT !.run = FullRun(d, n),
                            !.lines = Append(@, Line("run_started", n, FALSE))]
  <2>1. Append(e.lines, Line("run_started", n, FALSE)) \in Seq(Lines) /\ FullRun(d, n) \in Runs
    BY <1>1, LineType, RunsType
  <2>2. f \in Engines
    BY <2>1 DEF Engines
  <2>3. engine' = [engine EXCEPT ![c] = f]
    BY <1>2
  <2> HIDE DEF f
  <2>4. Only(c) /\ engine'[c] = f
    BY <2>2, <2>3, UpdateOnly
  <2> QED
    BY <1>2, <2>4 DEF f
<1>3. CASE /\ engine' = [engine EXCEPT ![c] = [e EXCEPT !.run = NoRun, !.cancelled = FALSE,
                                   !.lines = Append(@, Line("run_finished", n, FALSE))]]
           /\ unstarted' = unstarted \cup (IF d \in published THEN {n} ELSE {})
  <2> DEFINE f == [e EXCEPT !.run = NoRun, !.cancelled = FALSE,
                            !.lines = Append(@, Line("run_finished", n, FALSE))]
  <2>1. Append(e.lines, Line("run_finished", n, FALSE)) \in Seq(Lines) /\ NoRun \in Runs
    BY <1>1, LineType, NoEngineType
  <2>2. f \in Engines
    BY <2>1 DEF Engines
  <2>3. engine' = [engine EXCEPT ![c] = f]
    BY <1>3
  <2> HIDE DEF f
  <2>4. Only(c) /\ engine'[c] = f
    BY <2>2, <2>3, UpdateOnly
  <2> QED
    BY <1>3, <2>4 DEF f
<1> QED
  BY <1>2, <1>3 DEF BeginFull, FullRun

LEMMA TakeRunStep ==
    ASSUME TypeOK, NEW c \in Children, TakeRun(c)
    PROVE  /\ Only(c) /\ UNCHANGED <<stored, output, bounds>>
           /\ unstarted' \subseteq Nat
           /\ \/ RunTaken(engine[c], engine'[c]) /\ unstarted' = unstarted
              \/ RunRefused(engine[c], engine'[c]) /\ unstarted' = unstarted
              \/ /\ RunMissed(engine[c], engine'[c])
                 /\ unstarted' = unstarted \cup (IF Head(engine[c].channel).doc \in published
                                                 THEN {Head(engine[c].channel).n} ELSE {})
<1> DEFINE m == Head(engine[c].channel)
           e == engine[c]
<1>1. e \in Engines /\ engine \in [Children -> Engines] /\ unstarted \subseteq Nat
  BY DEF TypeOK
<1>2. /\ Tail(e.channel) \in Seq(Messages) /\ m \in Messages /\ RunNext(e)
      /\ Alive(c) /\ EngineOnly /\ UNCHANGED <<stored, output, bounds>>
  BY <1>1 DEF TakeRun, Engines, RunNext
<1>3. m.doc \in Docs /\ m.n \in Nat
  BY <1>2 DEF Messages, RunNext
<1>4. CASE e.configure
  <2>1. BeginFull(c, Taken(e), m.doc, m.n)
    BY <1>4 DEF TakeRun
  <2>2. Taken(e) \in Engines
    BY <1>1, <1>2, TakenType DEF RunNext
  <2> HIDE DEF e, m
  <2>3. /\ Only(c)
        /\ \/ /\ engine'[c] = [Taken(e) EXCEPT !.run = FullRun(m.doc, m.n),
                                   !.lines = Append(@, Line("run_started", m.n, FALSE))]
              /\ unstarted' = unstarted
           \/ /\ engine'[c] = [Taken(e) EXCEPT !.run = NoRun, !.cancelled = FALSE,
                                   !.lines = Append(@, Line("run_finished", m.n, FALSE))]
              /\ unstarted' = unstarted \cup (IF m.doc \in published THEN {m.n} ELSE {})
    BY <1>2, <1>3, <2>1, <2>2, BeginFullStep
  <2> QED
    BY <1>1, <1>2, <1>3, <1>4, <2>3 DEF RunTaken, RunMissed, e, m
<1>5. CASE ~e.configure
  <2>1. engine' = [engine EXCEPT ![c].channel = Tail(@)] /\ unstarted' = unstarted
    BY <1>5 DEF TakeRun
  <2>2. engine' \in [Children -> Engines] /\ \A b \in Children : b # c => engine'[b] = engine[b]
    BY <1>1, <1>2, <2>1 DEF Engines
  <2>3. RunRefused(e, engine'[c])
    BY <1>1, <1>2, <1>5, <2>1 DEF RunRefused, Engines
  <2> QED
    BY <1>1, <1>2, <2>1, <2>2, <2>3 DEF Only
<1> QED
  BY <1>4, <1>5

LEMMA TakePagesStep ==
    ASSUME TypeOK, NEW c \in Children, TakePages(c)
    PROVE  Only(c) /\ UNCHANGED <<results, bounds>> /\ PagesTaken(engine[c], engine'[c])
<1> DEFINE m == Head(engine[c].channel)
           e == engine[c]
<1>1. e \in Engines /\ Alive(c) /\ EngineOnly /\ UNCHANGED <<results, bounds>>
  BY DEF TypeOK, TakePages
<1>2. /\ RunNext(e) /\ e.configure /\ e.retained.doc = m.doc /\ e.edited > 0
      /\ engine' = [engine EXCEPT ![c] = [Taken(@) EXCEPT !.run = PagesRun(e)]]
  BY DEF TakePages, RunNext, PagesRun
<1>3. m \in Messages /\ e.edited \in Nat /\ e.retained \in Retained
  BY <1>1, <1>2 DEF RunNext, Engines
<1>4. m.doc \in Docs /\ m.n \in Nat
  BY <1>2, <1>3 DEF Messages, RunNext
<1>5. PagesRun(e) \in Runs
  BY <1>3, <1>4, ConstantsAssumption DEF PagesRun, Runs, Retained, ConstantsAssumption
<1>6. Taken(e) \in Engines
  BY <1>1, <1>2, TakenType DEF RunNext
<1> DEFINE f == [Taken(e) EXCEPT !.run = PagesRun(e)]
<1>7. f \in Engines
  BY <1>5, <1>6 DEF Engines
<1>8. engine' = [engine EXCEPT ![c] = f]
  <2>1. engine \in [Children -> Engines]
    BY DEF TypeOK
  <2> QED
    BY <1>2, <2>1
<1> HIDE DEF f
<1>9. Only(c) /\ engine'[c] = f
  BY <1>1, <1>7, <1>8, UpdateOnly
<1> QED
  BY <1>1, <1>2, <1>9 DEF PagesTaken, f

LEMMA FallBackStep ==
    ASSUME TypeOK, NEW c \in Children, FallBack(c)
    PROVE  /\ Only(c) /\ UNCHANGED <<stored, output, bounds>>
           /\ unstarted' \subseteq Nat
           /\ \/ FellBack(engine[c], engine'[c]) /\ unstarted' = unstarted
              \/ /\ RunFinished(engine[c], engine'[c])
                 /\ unstarted \subseteq unstarted'
<1> DEFINE e == engine[c]
<1>1. /\ e \in Engines /\ unstarted \subseteq Nat /\ Alive(c) /\ EngineOnly
      /\ UNCHANGED <<stored, output, bounds>>
      /\ e.run.pages /\ ~e.run.published
      /\ BeginFull(c, e, e.run.doc, e.run.n)
  BY DEF TypeOK, FallBack
<1> HIDE DEF e
<1>2. e.run # NoRun /\ e.run.doc \in Docs /\ e.run.n \in Nat
  <2>1. e.run # NoRun
    BY <1>1 DEF NoRun
  <2> QED
    BY <1>1, <2>1 DEF Engines, Runs
<1>3. /\ Only(c)
      /\ \/ /\ engine'[c] = [e EXCEPT !.run = FullRun(e.run.doc, e.run.n),
                                 !.lines = Append(@, Line("run_started", e.run.n, FALSE))]
            /\ unstarted' = unstarted
         \/ /\ engine'[c] = [e EXCEPT !.run = NoRun, !.cancelled = FALSE,
                                 !.lines = Append(@, Line("run_finished", e.run.n, FALSE))]
            /\ unstarted' = unstarted \cup (IF e.run.doc \in published THEN {e.run.n} ELSE {})
  BY <1>1, <1>2, BeginFullStep
<1>4. CASE /\ engine'[c] = [e EXCEPT !.run = FullRun(e.run.doc, e.run.n),
                                 !.lines = Append(@, Line("run_started", e.run.n, FALSE))]
           /\ unstarted' = unstarted
  BY <1>1, <1>3, <1>4 DEF FellBack, e
<1>5. CASE /\ engine'[c] = [e EXCEPT !.run = NoRun, !.cancelled = FALSE,
                                 !.lines = Append(@, Line("run_finished", e.run.n, FALSE))]
           /\ unstarted' = unstarted \cup (IF e.run.doc \in published THEN {e.run.n} ELSE {})
  <2>1. engine'[c] = [e EXCEPT !.run = NoRun, !.cancelled = FALSE, !.retained = KeptOf(e),
                                 !.lines = Append(@, Line("run_finished", e.run.n, FALSE))]
    <3>1. KeptOf(e) = e.retained
      BY <1>1 DEF KeptOf
    <3> QED
      BY <1>1, <1>5, <3>1 DEF Engines
  <2>2. RunFinished(e, engine'[c])
    BY <1>2, <2>1 DEF RunFinished
  <2> QED
    BY <1>1, <1>2, <1>3, <1>5, <2>2 DEF e
<1> QED
  BY <1>3, <1>4, <1>5

LEMMA PublishStep ==
    ASSUME TypeOK, NEW c \in Children, Publish(c)
    PROVE  /\ Only(c) /\ UNCHANGED <<stored, unstarted, bounds>>
           /\ RunPublished(engine[c], engine'[c])
           /\ engine'[c].run.edits = IF engine[c].run.pages THEN engine[c].run.edits
                                     ELSE stored[engine[c].run.doc]
           /\ engine[c].run.partial => engine'[c].run.partial
           /\ output' \in [Docs -> Outputs]
           /\ \A d \in Docs : output'[d] =
                 IF d = engine[c].run.doc
                 THEN [run |-> engine[c].run.n, edits |-> engine'[c].run.edits,
                       partial |-> engine'[c].run.partial]
                 ELSE output[d]
<1> DEFINE run == engine[c].run
           e == engine[c]
           edits == IF run.pages THEN run.edits ELSE stored[run.doc]
<1>1. /\ e \in Engines /\ engine \in [Children -> Engines] /\ run \in Runs
      /\ stored \in [Docs -> Nat] /\ output \in [Docs -> Outputs]
  BY DEF TypeOK, Engines, Outputs
<1>2. /\ run # NoRun /\ ~run.published /\ Alive(c) /\ EngineOnly
      /\ UNCHANGED <<stored, unstarted, bounds>>
  BY DEF Publish
<1>3. PICK dropped \in BOOLEAN :
         /\ engine' = [engine EXCEPT
                 ![c].run = [run EXCEPT !.edits = edits, !.partial = @ \/ dropped,
                                        !.published = TRUE],
                 ![c].lines = Append(@, Line("document_finished", run.n, FALSE))]
         /\ output' = [output EXCEPT ![run.doc] = [run |-> run.n, edits |-> edits,
                                                   partial |-> run.partial \/ dropped]]
  BY DEF Publish
<1>4. run.doc \in Docs /\ edits \in Nat /\ run.n \in Nat /\ run.partial \in BOOLEAN
  BY <1>1, <1>2 DEF Runs
<1> DEFINE partial == run.partial \/ dropped
           new == [run EXCEPT !.edits = edits, !.partial = partial, !.published = TRUE]
           f == [e EXCEPT !.run = new, !.lines = Append(@, Line("document_finished", run.n, FALSE))]
<1>5. Append(e.lines, Line("document_finished", run.n, FALSE)) \in Seq(Lines)
  <2>1. run.n \in Nat /\ e.lines \in Seq(Lines)
    BY <1>1, <1>4 DEF Engines
  <2> QED
    BY <2>1, LineType
<1>6. engine' = [engine EXCEPT ![c] = f]
  BY <1>1, <1>3 DEF Engines, Runs
<1> HIDE DEF edits
<1>7. new \in Runs /\ new.edits = edits /\ new.partial = partial
  <2>1. run # NoRun /\ run.doc # None
    BY <1>2, <1>4, ConstantsAssumption DEF ConstantsAssumption
  <2> QED
    BY <1>1, <1>4, <2>1 DEF Runs
<1> HIDE DEF new
<1>8. f \in Engines /\ f.run = new
  BY <1>1, <1>5, <1>7 DEF Engines
<1>9. Only(c) /\ engine'[c] = f
  <2> HIDE DEF f
  <2> QED
    BY <1>2, <1>6, <1>8, UpdateOnly
<1>10. RunPublished(e, engine'[c])
  BY <1>2, <1>4, <1>9 DEF RunPublished, new
<1>11. engine'[c].run.edits = edits /\ engine'[c].run.partial = partial
  BY <1>7, <1>8, <1>9
<1> HIDE DEF f
<1>12. /\ output' \in [Docs -> Outputs]
       /\ \A d \in Docs : output'[d] =
             IF d = run.doc THEN [run |-> run.n, edits |-> edits, partial |-> partial]
             ELSE output[d]
  <2>1. [run |-> run.n, edits |-> edits, partial |-> partial] \in Outputs
    BY <1>4 DEF Outputs
  <2>2. output' = [output EXCEPT ![run.doc] = [run |-> run.n, edits |-> edits, partial |-> partial]]
    BY <1>3
  <2> HIDE DEF run, partial
  <2> QED
    BY <1>1, <1>4, <2>1, <2>2
<1> QED
  BY <1>2, <1>9, <1>10, <1>11, <1>12 DEF edits

\* A run ends, with or without a translation.
LEMMA FinishedStep ==
    ASSUME TypeOK, NEW c \in Children, Alive(c), EngineOnly, NEW ok \in BOOLEAN,
           engine[c].run # NoRun, ok => engine[c].run.published,
           engine' = [engine EXCEPT ![c] =
                        [engine[c] EXCEPT !.run = NoRun, !.cancelled = FALSE,
                            !.retained = KeptOf(engine[c]),
                            !.lines = Append(@, Line("run_finished", engine[c].run.n, ok))]]
    PROVE  Only(c) /\ RunFinished(engine[c], engine'[c])
<1> DEFINE e == engine[c]
           f == [e EXCEPT !.run = NoRun, !.cancelled = FALSE, !.retained = KeptOf(e),
                          !.lines = Append(@, Line("run_finished", e.run.n, ok))]
<1>1. e \in Engines /\ e.run \in Runs /\ e.lines \in Seq(Lines) /\ e.retained \in Retained
  BY DEF TypeOK, Engines
<1>2. Append(e.lines, Line("run_finished", e.run.n, ok)) \in Seq(Lines)
  <2>1. e.run.n \in Nat
    BY <1>1 DEF Runs
  <2> QED
    BY <1>1, <2>1, LineType
<1>3. KeptOf(e) \in Retained
  BY <1>1 DEF KeptOf, Retained, Runs
<1>4. f \in Engines
  BY <1>1, <1>2, <1>3, NoEngineType DEF Engines
<1>5. engine' = [engine EXCEPT ![c] = f]
  OBVIOUS
<1> HIDE DEF f
<1>6. Only(c) /\ engine'[c] = f
  BY <1>4, <1>5, UpdateOnly
<1> QED
  BY <1>6 DEF RunFinished, f

LEMMA FinishStep ==
    ASSUME TypeOK, NEW c \in Children, Finish(c) \/ Fail(c)
    PROVE  Only(c) /\ UNCHANGED <<results, bounds>> /\ RunFinished(engine[c], engine'[c])
<1> DEFINE e == engine[c]
<1>1. /\ e \in Engines /\ engine \in [Children -> Engines]
      /\ Alive(c) /\ EngineOnly /\ UNCHANGED <<results, bounds>>
  BY DEF TypeOK, Finish, Fail
<1>2. CASE Finish(c)
  <2>1. PICK ok \in BOOLEAN :
           engine' = [engine EXCEPT ![c].run = NoRun, ![c].cancelled = FALSE,
              ![c].retained = [doc |-> e.run.doc, edits |-> e.run.edits, partial |-> e.run.partial],
              ![c].lines = Append(@, Line("run_finished", e.run.n, ok))]
    BY <1>2 DEF Finish
  <2>2. e.run.published /\ e.run # NoRun
    BY <1>2 DEF Finish, NoRun
  <2>3. engine' = [engine EXCEPT ![c] =
                        [e EXCEPT !.run = NoRun, !.cancelled = FALSE, !.retained = KeptOf(e),
                            !.lines = Append(@, Line("run_finished", e.run.n, ok))]]
    BY <1>1, <2>1, <2>2 DEF KeptOf, Engines
  <2> QED
    BY <1>1, <2>2, <2>3, FinishedStep
<1>3. CASE Fail(c)
  <2>1. engine' = [engine EXCEPT ![c].run = NoRun, ![c].cancelled = FALSE,
                           ![c].lines = Append(@, Line("run_finished", e.run.n, FALSE))]
    BY <1>3 DEF Fail
  <2>2. ~e.run.published /\ e.run # NoRun
    BY <1>3 DEF Fail
  <2>3. engine' = [engine EXCEPT ![c] =
                        [e EXCEPT !.run = NoRun, !.cancelled = FALSE, !.retained = KeptOf(e),
                            !.lines = Append(@, Line("run_finished", e.run.n, FALSE))]]
    BY <1>1, <2>1, <2>2 DEF KeptOf, Engines
  <2> QED
    BY <1>1, <2>2, <2>3, FinishedStep
<1> QED
  BY <1>2, <1>3

LEMMA EngineEndStep ==
    ASSUME TypeOK, NEW c \in Children, EngineEnd(c)
    PROVE  /\ Only(c) /\ UNCHANGED <<results, asks, exits>> /\ Ended(engine[c], engine'[c])
           /\ crashes' \in Nat
<1>1. engine[c] \in Engines /\ engine \in [Children -> Engines] /\ crashes \in Nat
  BY DEF TypeOK
<1>2. [NoEngine EXCEPT !.life = "dead", !.lines = engine[c].lines] \in Engines
  BY <1>1, NoEngineType DEF Engines
<1>3. Ended(engine[c], engine'[c]) /\ engine' \in [Children -> Engines]
      /\ \A b \in Children : b # c => engine'[b] = engine[b]
  BY <1>1, <1>2 DEF EngineEnd, Ended
<1> QED
  BY <1>1, <1>2, <1>3 DEF EngineEnd, Only

-----------------------------------------------------------------------------
(* Every action keeps the types *)

LEMMA TypeInit == Init => TypeInv
<1> SUFFICES ASSUME Init PROVE TypeInv
  OBVIOUS
<1>1. engine \in [Children -> Engines] /\ sidecar \in Sidecars
  BY NoEngineType DEF Init
<1>2. status \in [Docs -> Statuses]
  BY DEF Init, Statuses
<1>3. queue \in Seq(Docs) /\ Waits(status, queue)
  BY DEF Init, Single, Waits
<1>4. output \in [Docs -> Outputs]
  BY DEF Init, NoOutput, Outputs
<1> QED
  BY <1>1, <1>2, <1>3, <1>4, ConstantsAssumption DEF Init, TypeInv, TypeOK, ConstantsAssumption

LEMMA EngineTypeNext ==
    ASSUME TypeInv, NEW c \in Children, Reader(c) \/ MainLoop(c) \/ Publish(c) \/ EngineEnd(c)
    PROVE  TypeInv'
<1>1. ASSUME Only(c), stored' = stored \/ stored' \in [Docs -> Nat],
             output' = output \/ output' \in [Docs -> Outputs],
             unstarted' = unstarted \/ unstarted' \subseteq Nat,
             bounds' = bounds \/ (crashes' \in Nat /\ asks' = asks /\ exits' = exits)
      PROVE  TypeInv'
  <2>1. /\ UNCHANGED <<app, status, published, queue, current, pending, configured, sidecar,
                       request, asked, strayed, disowned>>
        /\ engine' \in [Children -> Engines]
    BY <1>1 DEF Only, EngineOnly, main
  <2>2. stored' \in [Docs -> Nat] /\ output' \in [Docs -> Outputs] /\ unstarted' \subseteq Nat
    BY <1>1 DEF TypeInv, TypeOK, Outputs
  <2>3. asks' \in Nat /\ crashes' \in Nat /\ exits' \in Nat
    BY <1>1 DEF TypeInv, TypeOK, bounds
  <2> QED
    BY <2>1, <2>2, <2>3 DEF TypeInv, TypeOK, Outputs
<1> TypeOK
  BY DEF TypeInv
<1>2. CASE Reader(c)
  BY <1>1, <1>2, ReadCancelStep, ReadStep, ReadEofStep DEF Reader, results
<1>3. CASE MainLoop(c)
  <2>1. CASE TakeConfigure(c)
    BY <1>1, <2>1, TakeConfigureStep DEF results
  <2>2. CASE TakeEdit(c)
    BY <1>1, <2>2, TakeEditStep
  <2>3. CASE TakeRun(c)
    BY <1>1, <2>3, TakeRunStep
  <2>4. CASE TakePages(c)
    BY <1>1, <2>4, TakePagesStep DEF results
  <2>5. CASE FallBack(c)
    BY <1>1, <2>5, FallBackStep
  <2>6. CASE Fail(c) \/ Finish(c)
    BY <1>1, <2>6, FinishStep DEF results
  <2> QED
    BY <1>3, <2>1, <2>2, <2>3, <2>4, <2>5, <2>6 DEF MainLoop
<1>4. CASE Publish(c)
  BY <1>1, <1>4, PublishStep
<1>5. CASE EngineEnd(c)
  BY <1>1, <1>5, EngineEndStep DEF results
<1> QED
  BY <1>2, <1>3, <1>4, <1>5

\* A call of the renderer changes only what it says, and counts as one.
LEMMA AskType ==
    ASSUME TypeOK, Ask
    PROVE  asks' \in Nat /\ UNCHANGED <<app, crashes, exits>>
  BY DEF Ask, TypeOK

LEMMA CancelToType ==
    ASSUME TypeInv, NEW d \in Docs, NEW x \in Statuses,
           CancelTo(d, [status EXCEPT ![d] = x])
    PROVE  /\ status' \in [Docs -> Statuses] /\ queue' \in Seq(Docs) /\ Waits(status', queue')
           /\ engine' \in [Children -> Engines]
<1> DEFINE st == [status EXCEPT ![d] = x]
<1>0. /\ status \in [Docs -> Statuses] /\ queue \in Seq(Docs) /\ Waits(status, queue)
      /\ engine \in [Children -> Engines]
  BY DEF TypeInv, TypeOK
<1>s. st \in [Docs -> Statuses] /\ \A b \in Docs : b # d => st[b] = status[b]
  BY <1>0
<1>1. CASE Queued(d) /\ queue' = RemoveFirst(queue, d) /\ status' = st /\ engine' = engine
  <2> HIDE DEF st
  <2>1. RemoveFirst(queue, d) \in Seq(Docs) /\ Waits(st, RemoveFirst(queue, d))
    BY <1>0, <1>1, <1>s, RemoveWaits DEF Queued
  <2> QED
    BY <1>0, <1>1, <1>s, <2>1
<1>2. CASE /\ status' = st /\ queue' = queue /\ ~Queued(d)
           /\ engine' = [engine EXCEPT ![sidecar.child].pipe = Append(@, Message("cancel", None, 0))]
  <2> DEFINE c == sidecar.child
  <2> HIDE DEF st
  <2>1. Message("cancel", None, 0) \in Messages
    BY DEF Message, Messages
  <2>2. Waits(status', queue')
    BY <1>0, <1>2, <1>s DEF Waits, Queued
  <2>3. CASE c \in Children
    <3>1. Append(engine[c].pipe, Message("cancel", None, 0)) \in Seq(Messages)
      BY <1>0, <2>1, <2>3 DEF Engines
    <3>2. engine' \in [Children -> Engines]
      BY <1>0, <1>2, <2>3, <3>1, ZenonT(60) DEF Engines
    <3> QED
      BY <1>0, <1>2, <1>s, <2>2, <3>2
  <2>4. CASE c \notin Children
    <3>1. engine' = engine
      BY <1>0, <1>2, <2>4
    <3> QED
      BY <1>0, <1>2, <1>s, <2>2, <3>1
  <2> QED
    BY <2>3, <2>4
<1> QED
  BY <1>1, <1>2 DEF CancelTo

\* What a call queues waits once, and has a row.
LEMMA QueuedWaits ==
    ASSUME TypeInv, NEW d \in Docs, ~Queued(d), NEW x \in Statuses, x # "absent"
    PROVE  /\ [status EXCEPT ![d] = x] \in [Docs -> Statuses]
           /\ Append(queue, d) \in Seq(Docs) /\ Append(queue, d) # <<>>
           /\ Waits([status EXCEPT ![d] = x], Append(queue, d))
<1> DEFINE st == [status EXCEPT ![d] = x]
<1>1. /\ status \in [Docs -> Statuses] /\ queue \in Seq(Docs) /\ Waits(status, queue)
  BY DEF TypeInv, TypeOK
<1>2. st \in [Docs -> Statuses] /\ st[d] # "absent" /\ \A b \in Docs : b # d => st[b] = status[b]
  BY <1>1
<1> HIDE DEF st
<1>3. ~\E i \in 1..Len(queue) : queue[i] = d
  BY DEF Queued
<1>4. Waits(st, queue)
  <2>1. \A i \in 1..Len(queue) : queue[i] \in Docs
    BY <1>1
  <2> QED
    BY <1>1, <1>2, <1>3, <2>1 DEF Waits
<1>5. Append(queue, d) \in Seq(Docs) /\ Waits(st, Append(queue, d)) /\ Append(queue, d) # <<>>
  BY <1>1, <1>2, <1>3, <1>4, AppendWaits
<1> QED
  BY <1>2, <1>5 DEF st

LEMMA AbsentWaits ==
    ASSUME TypeInv, NEW d \in Docs, status[d] = "absent" PROVE ~Queued(d)
  BY DEF TypeInv, Waits, Queued

LEMMA AddPaperType == ASSUME TypeInv, NEW d \in Docs, AddPaper(d) PROVE TypeInv'
<1>1. /\ asks' \in Nat /\ UNCHANGED <<app, crashes, exits>>
      /\ UNCHANGED <<published, results, strayed, disowned>>
      /\ ~Queued(d)
  BY AskType, AbsentWaits DEF AddPaper, TypeInv
<1>2. CASE /\ status' = [status EXCEPT ![d] = "new"]
           /\ UNCHANGED <<queue, current, pending, configured, sidecar, engine, request, asked>>
  <2>1. status' \in [Docs -> Statuses]
    BY <1>2 DEF TypeInv, TypeOK, Statuses
  <2>2. queue' = queue /\ Waits(status, queue) /\ queue \in Seq(Docs)
    BY <1>2 DEF TypeInv, TypeOK
  <2>3. \A b \in Docs : status[b] # "absent" => status'[b] # "absent"
    BY <1>2 DEF TypeInv, TypeOK
  <2>4. Waits(status', queue')
    <3>1. \A i \in 1..Len(queue) : queue[i] \in Docs
      BY <2>2, MemberSet
    <3> QED
      BY <2>2, <2>3, <3>1 DEF Waits
  <2> QED
    BY <1>1, <1>2, <2>1, <2>4 DEF TypeInv, TypeOK, results
<1>3. CASE Pump([status EXCEPT ![d] = "queued"], Append(queue, d), current, pending, engine)
  <2>1. /\ [status EXCEPT ![d] = "queued"] \in [Docs -> Statuses]
        /\ Append(queue, d) \in Seq(Docs)
        /\ Waits([status EXCEPT ![d] = "queued"], Append(queue, d))
    BY <1>1, QueuedWaits DEF Statuses
  <2>2. PumpTyped
    BY <1>3, <2>1, PumpType DEF TypeInv, TypeOK
  <2> QED
    BY <1>1, <2>2 DEF TypeInv, TypeOK, results, PumpTyped
<1> QED
  BY <1>2, <1>3 DEF AddPaper

LEMMA EnqueueType == ASSUME TypeInv, NEW d \in Docs, Enqueue(d) PROVE TypeInv'
<1>1. /\ asks' \in Nat /\ UNCHANGED <<app, crashes, exits>>
      /\ UNCHANGED <<published, results, strayed, disowned>>
      /\ ~Queued(d)
      /\ Pump([status EXCEPT ![d] = "queued"], Append(queue, d), current, pending, engine)
  BY AskType DEF Enqueue, TypeInv
<1>2. /\ [status EXCEPT ![d] = "queued"] \in [Docs -> Statuses]
      /\ Append(queue, d) \in Seq(Docs)
      /\ Waits([status EXCEPT ![d] = "queued"], Append(queue, d))
  BY <1>1, QueuedWaits DEF Statuses
<1>3. PumpTyped
  BY <1>1, <1>2, PumpType DEF TypeInv, TypeOK
<1> QED
  BY <1>1, <1>3 DEF TypeInv, TypeOK, results, PumpTyped

LEMMA EditType == ASSUME TypeInv, NEW d \in Docs, Edit(d) PROVE TypeInv'
<1> DEFINE edits == [pending EXCEPT ![d] = @ + 1]
<1>1. /\ asks' \in Nat /\ UNCHANGED <<app, crashes, exits>>
      /\ UNCHANGED <<published, results, strayed, disowned>>
      /\ status[d] # "absent"
  BY AskType DEF Edit, TypeInv
<1>2. edits \in [Docs -> Nat] /\ status \in [Docs -> Statuses] /\ current \in Docs \cup {None}
      /\ engine \in [Children -> Engines] /\ TypeOK
  BY SMTT(30) DEF TypeInv, TypeOK
<1>3. CASE /\ pending' = edits
           /\ UNCHANGED <<status, queue, current, configured, sidecar, engine, request, asked>>
  BY <1>1, <1>2, <1>3 DEF TypeInv, TypeOK, results, Waits, Single
<1>4. CASE ~Queued(d) /\ Pump(status, Append(queue, d), current, edits, engine)
  <2> HIDE DEF edits
  <2>1. Append(queue, d) \in Seq(Docs) /\ Waits(status, Append(queue, d))
    BY <1>1, <1>2, <1>4, AppendWaits DEF TypeInv, TypeOK, Queued
  <2>2. PumpTyped
    BY <1>2, <1>4, <2>1, PumpType
  <2> QED
    BY <1>1, <2>2 DEF TypeInv, TypeOK, results, PumpTyped
<1>5. CASE ~Queued(d) /\ Pump([status EXCEPT ![d] = "queued"], Append(queue, d), current, edits, engine)
  <2> HIDE DEF edits
  <2>1. /\ [status EXCEPT ![d] = "queued"] \in [Docs -> Statuses]
        /\ Append(queue, d) \in Seq(Docs)
        /\ Waits([status EXCEPT ![d] = "queued"], Append(queue, d))
    BY <1>5, QueuedWaits DEF Statuses
  <2>2. PumpTyped
    BY <1>2, <1>5, <2>1, PumpType
  <2> QED
    BY <1>1, <2>2 DEF TypeInv, TypeOK, results, PumpTyped
<1> QED
  BY <1>3, <1>4, <1>5 DEF Edit

LEMMA CancelType == ASSUME TypeInv, NEW d \in Docs, Cancel(d) PROVE TypeInv'
<1>1. /\ asks' \in Nat /\ UNCHANGED <<app, crashes, exits>>
      /\ UNCHANGED <<published, current, pending, configured, sidecar, request, asked,
                     results, strayed, disowned>>
      /\ CancelTo(d, [status EXCEPT ![d] = "cancelled"])
  BY AskType DEF Cancel, TypeInv
<1>2. /\ status' \in [Docs -> Statuses] /\ queue' \in Seq(Docs) /\ Waits(status', queue')
      /\ engine' \in [Children -> Engines]
  BY <1>1, CancelToType DEF Statuses
<1> QED
  BY <1>1, <1>2 DEF TypeInv, TypeOK, results

LEMMA RemovePaperType == ASSUME TypeInv, NEW d \in Docs, RemovePaper(d) PROVE TypeInv'
<1>1. /\ asks' \in Nat /\ UNCHANGED <<app, crashes, exits>>
      /\ UNCHANGED <<published, current, configured, sidecar, request, asked, unstarted, strayed>>
      /\ disowned' \subseteq Docs
  <2>1. UNCHANGED <<published, current, configured, sidecar, request, asked, unstarted, strayed>>
        /\ disowned' = IF current = d THEN disowned \cup {d} ELSE disowned
    BY DEF RemovePaper
  <2>2. disowned \subseteq Docs
    BY DEF TypeInv, TypeOK
  <2>3. asks' \in Nat /\ UNCHANGED <<app, crashes, exits>>
    BY AskType DEF RemovePaper, TypeInv
  <2> QED
    BY <2>1, <2>2, <2>3
<1>2. /\ pending' \in [Docs -> Nat] /\ stored' \in [Docs -> Nat]
      /\ output' \in [Docs -> Outputs]
  <2>1. NoOutput \in Outputs
    BY DEF NoOutput, Outputs
  <2> QED
    BY <2>1 DEF RemovePaper, TypeInv, TypeOK
<1>3. /\ status' \in [Docs -> Statuses] /\ queue' \in Seq(Docs) /\ Waits(status', queue')
      /\ engine' \in [Children -> Engines]
  <2>1. CASE CancelTo(d, [status EXCEPT ![d] = "absent"])
    BY <2>1, CancelToType DEF Statuses
  <2>2. CASE /\ status' = [status EXCEPT ![d] = "absent"] /\ UNCHANGED <<queue, engine>>
             /\ ~Queued(d)
    <3>1. /\ status \in [Docs -> Statuses] /\ queue \in Seq(Docs) /\ Waits(status, queue)
          /\ engine \in [Children -> Engines]
      BY DEF TypeInv, TypeOK
    <3>2. status' \in [Docs -> Statuses] /\ \A b \in Docs : b # d => status'[b] = status[b]
      BY <2>2, <3>1 DEF Statuses
    <3>3. \A i \in 1..Len(queue) : queue[i] \in Docs /\ queue[i] # d
      BY <2>2, <3>1 DEF Queued
    <3>4. Waits(status', queue')
      BY <2>2, <3>1, <3>2, <3>3 DEF Waits
    <3> QED
      BY <2>2, <3>1, <3>2, <3>4
  <2> QED
    BY <2>1, <2>2 DEF RemovePaper
<1> QED
  BY <1>1, <1>2, <1>3 DEF TypeInv, TypeOK

\* The lines of an engine lose their first.
LEMMA RestType ==
    ASSUME TypeOK, NEW c \in Children, engine[c].lines # <<>>
    PROVE  /\ Head(engine[c].lines) \in Lines
           /\ [engine EXCEPT ![c].lines = Tail(@)] \in [Children -> Engines]
           /\ [engine EXCEPT ![c].lines = Tail(@)][c] = [engine[c] EXCEPT !.lines = Tail(@)]
           /\ \A b \in Children : b # c => [engine EXCEPT ![c].lines = Tail(@)][b] = engine[b]
<1>1. engine \in [Children -> Engines] /\ engine[c] \in Engines
  BY DEF TypeOK
<1>2. Head(engine[c].lines) \in Lines /\ Tail(engine[c].lines) \in Seq(Lines)
  BY <1>1, TailSet DEF Engines
<1> QED
  BY <1>1, <1>2 DEF Engines

LEMMA BookedType ==
    ASSUME TypeInv, NEW d \in Docs, NEW ok \in BOOLEAN
    PROVE  /\ Booked(d, ok) \in [Docs -> Statuses] /\ Waits(Booked(d, ok), queue)
           /\ \A b \in Docs : b # d => Booked(d, ok)[b] = status[b]
           /\ Booked(d, ok)[d] = IF status[d] = "absent" THEN "absent" ELSE Verdict(d, ok)
           /\ Verdict(d, ok) \in {"done", "cancelled", "failed"}
<1>1. /\ status \in [Docs -> Statuses] /\ queue \in Seq(Docs) /\ Waits(status, queue)
  BY DEF TypeInv, TypeOK
<1>2. Verdict(d, ok) \in {"done", "cancelled", "failed"}
  BY DEF Verdict
<1>3. /\ Booked(d, ok) \in [Docs -> Statuses]
      /\ \A b \in Docs : b # d => Booked(d, ok)[b] = status[b]
      /\ Booked(d, ok)[d] = IF status[d] = "absent" THEN "absent" ELSE Verdict(d, ok)
  BY <1>1, <1>2 DEF Booked, Statuses
<1>4. \A b \in Docs : status[b] # "absent" => Booked(d, ok)[b] # "absent"
  BY <1>2, <1>3
<1>5. Waits(Booked(d, ok), queue)
  <2>1. \A i \in 1..Len(queue) : queue[i] \in Docs
    BY <1>1
  <2> QED
    BY <1>1, <1>4, <2>1 DEF Waits
<1> QED
  BY <1>2, <1>3, <1>5

LEMMA DeliverType == ASSUME TypeInv, NEW c \in Children, Deliver(c) PROVE TypeInv'
<1> DEFINE line == Head(engine[c].lines)
           rest == [engine EXCEPT ![c].lines = Tail(@)]
<1> TypeOK
  BY DEF TypeInv
<1>1. UNCHANGED <<app, results, disowned, bounds>> /\ engine[c].lines # <<>>
  BY DEF Deliver
<1>2. line \in Lines /\ rest \in [Children -> Engines]
  BY <1>1, RestType
<1>3. strayed' \in BOOLEAN
  BY DEF Deliver, TypeOK
<1>4. CASE /\ current # None
           /\ published' = published \ {current}
           /\ Pump(Booked(current, line.ok), queue, None, pending, rest)
  <2> HIDE DEF line, rest
  <2>1. /\ line.ok \in BOOLEAN /\ current \in Docs /\ published' \subseteq Docs
        /\ queue \in Seq(Docs) /\ pending \in [Docs -> Nat]
    BY <1>2, <1>4 DEF TypeOK, Lines
  <2>2. Booked(current, line.ok) \in [Docs -> Statuses] /\ Waits(Booked(current, line.ok), queue)
    BY <2>1, BookedType
  <2>3. PumpTyped
    BY <1>2, <1>4, <2>1, <2>2, PumpType
  <2> QED
    BY <1>1, <1>3, <2>1, <2>3 DEF TypeInv, TypeOK, PumpTyped, results, bounds
<1>5. CASE /\ published' = IF current = None THEN published ELSE Marked(line.type)
           /\ engine' = rest
           /\ UNCHANGED <<status, queue, current, pending, configured, sidecar, request, asked>>
  <2> HIDE DEF line, rest
  <2>1. published' \subseteq Docs
    BY <1>5 DEF TypeOK, Marked
  <2>2. Waits(status', queue')
    BY <1>5 DEF TypeInv
  <2> QED
    BY <1>1, <1>2, <1>3, <1>5, <2>1, <2>2 DEF TypeInv, TypeOK, results, bounds
<1> QED
  BY <1>4, <1>5 DEF Deliver

LEMMA CrashEventType ==
    ASSUME TypeInv, CrashEvent
    PROVE  /\ status' \in [Docs -> Statuses] /\ queue' \in Seq(Docs) /\ Waits(status', queue')
           /\ current' \in Docs \cup {None}
<1>1. CASE UNCHANGED <<status, queue, current>>
  BY <1>1 DEF TypeInv, TypeOK, Waits, Single
<1>2. CASE /\ status' = FailAll([d \in Docs |-> IF d = current /\ status[d] # "absent"
                                                THEN "failed" ELSE status[d]], queue)
           /\ queue' = <<>>
           /\ current' = None
  <2>1. [d \in Docs |-> IF d = current /\ status[d] # "absent" THEN "failed" ELSE status[d]]
           \in [Docs -> Statuses]
    BY DEF TypeInv, TypeOK, Statuses
  <2>2. status' \in [Docs -> Statuses]
    BY <1>2, <2>1, FailAllType
  <2> QED
    BY <1>2, <2>2 DEF Waits, Single
<1> QED
  BY <1>1, <1>2 DEF CrashEvent

LEMMA ExitType == ASSUME TypeInv, NEW c \in Children, Exit(c) PROVE TypeInv'
<1>1. /\ UNCHANGED <<app, published, pending, request, asked, results, strayed, disowned, bounds>>
      /\ engine' = [engine EXCEPT ![c].life = "gone"]
  BY DEF Exit
<1>2. engine' \in [Children -> Engines]
  BY <1>1, ZenonT(60) DEF TypeInv, TypeOK, Engines
<1>3. sidecar' \in Sidecars /\ configured' \in BOOLEAN
  <2>1. sidecar \in Sidecars /\ configured \in BOOLEAN
    BY DEF TypeInv, TypeOK
  <2>2. CASE /\ sidecar' = [sidecar EXCEPT !.child = None, !.state = "exited"]
             /\ configured' = FALSE
    BY <2>1, <2>2 DEF Sidecars
  <2>3. CASE /\ sidecar' = [sidecar EXCEPT !.child = None, !.timer = TRUE, !.restarts = @ + 1]
             /\ UNCHANGED configured
    <3> DEFINE k == sidecar.restarts + 1
    <3>1. k \in Nat
      BY <2>1 DEF Sidecars
    <3>2. sidecar' = [sidecar EXCEPT !.child = None, !.timer = TRUE, !.restarts = k]
      BY <2>3
    <3> HIDE DEF k
    <3> QED
      BY <2>1, <2>3, <3>1, <3>2 DEF Sidecars
  <2> QED
    BY <2>2, <2>3 DEF Exit
<1>4. UNCHANGED <<status, queue, current>> \/ CrashEvent
  BY DEF Exit
<1>5. /\ status' \in [Docs -> Statuses] /\ queue' \in Seq(Docs) /\ Waits(status', queue')
      /\ current' \in Docs \cup {None}
  <2>1. CASE UNCHANGED <<status, queue, current>>
    BY <2>1 DEF TypeInv, TypeOK, Waits, Single
  <2> QED
    BY <1>4, <2>1, CrashEventType
<1> QED
  BY <1>1, <1>2, <1>3, <1>5 DEF TypeInv, TypeOK, results, bounds

LEMMA SpawnType ==
    ASSUME TypeOK, SlotFree
    PROVE  /\ FreeSlot \in Children
           /\ [engine EXCEPT ![FreeSlot] = Spawned(sidecar.lastConfigure)] \in [Children -> Engines]
<1>1. FreeSlot \in Children /\ engine \in [Children -> Engines]
  BY FreeSlotType DEF TypeOK
<1>2. Spawned(sidecar.lastConfigure) \in Engines
  BY NoEngineType DEF TypeOK, Sidecars
<1> QED
  BY <1>1, <1>2

LEMMA RespawnType == ASSUME TypeInv, Respawn PROVE TypeInv'
<1>1. UNCHANGED <<app, status, published, queue, current, pending, request, asked, results,
                  strayed, disowned, bounds>>
  BY DEF Respawn
<1>2. CASE /\ sidecar' = [sidecar EXCEPT !.timer = FALSE]
           /\ UNCHANGED <<engine, configured>>
  BY <1>1, <1>2 DEF TypeInv, TypeOK, Sidecars, results, bounds
<1>3. CASE /\ SlotFree
           /\ engine' = [engine EXCEPT ![FreeSlot] = Spawned(sidecar.lastConfigure)]
           /\ sidecar' = [sidecar EXCEPT !.timer = FALSE, !.state = "running", !.child = FreeSlot]
           /\ configured' = FALSE
  <2>1. FreeSlot \in Children /\ engine' \in [Children -> Engines]
    BY <1>3, SpawnType DEF TypeInv
  <2>2. sidecar' \in Sidecars
    BY <1>3, <2>1 DEF TypeInv, TypeOK, Sidecars
  <2> QED
    BY <1>1, <1>3, <2>1, <2>2 DEF TypeInv, TypeOK, results, bounds
<1> QED
  BY <1>2, <1>3 DEF Respawn

LEMMA QuitType == ASSUME TypeInv, Quit PROVE TypeInv'
<1>1. /\ UNCHANGED <<status, published, queue, current, pending, request, asked, results, strayed,
                     disowned, bounds>>
      /\ app' = "quitting"
  BY DEF Quit
<1>2. engine' \in [Children -> Engines]
  <2>1. engine \in [Children -> Engines]
    BY DEF TypeInv, TypeOK
  <2>2. CASE UNCHANGED engine
    BY <2>1, <2>2
  <2>3. CASE engine' = [engine EXCEPT ![sidecar.child].open = FALSE]
    BY <2>1, <2>3, ZenonT(60) DEF Engines
  <2> QED
    BY <2>2, <2>3 DEF Quit
<1>3. sidecar' \in Sidecars /\ configured' \in BOOLEAN
  BY DEF Quit, TypeInv, TypeOK, Sidecars
<1> QED
  BY <1>1, <1>2, <1>3 DEF TypeInv, TypeOK, results, bounds

LEMMA AppExitType == ASSUME TypeInv, AppExit PROVE TypeInv'
<1>1. engine' \in [Children -> Engines] /\ sidecar' \in Sidecars
  BY NoEngineType DEF AppExit
<1>2. queue' \in Seq(Docs) /\ Waits(status', queue')
  BY DEF AppExit, Waits, Single
<1>3. /\ app' = "down" /\ published' = {} /\ current' = None /\ configured' = FALSE
      /\ pending' \in [Docs -> Nat] /\ exits' \in Nat
      /\ UNCHANGED <<status, request, asked, stored, output, unstarted, strayed, disowned, asks, crashes>>
  BY DEF AppExit, results, TypeInv, TypeOK
<1> QED
  BY <1>1, <1>2, <1>3 DEF TypeInv, TypeOK

LEMMA StartType == ASSUME TypeInv, Start PROVE TypeInv'
<1> DEFINE again == {d \in Docs : status[d] \in {"queued", "running"}}
           st == [d \in Docs |-> IF d \in again THEN "queued" ELSE status[d]]
           q == SetToSeq(again)
<1>1. /\ UNCHANGED <<published, results, strayed, disowned, bounds>> /\ app' = "up"
      /\ Pump(st, q, None, pending, engine)
  BY DEF Start
<1>2. st \in [Docs -> Statuses] /\ \A d \in again : st[d] # "absent"
  BY DEF TypeInv, TypeOK, Statuses
<1>3. q \in Seq(Docs) /\ Single(q) /\ \A i \in 1..Len(q) : q[i] \in again
  BY SetToSeqQueue
<1> HIDE DEF st, q, again
<1>4. Waits(st, q)
  BY <1>2, <1>3 DEF Waits
<1>5. PumpTyped
  BY <1>1, <1>2, <1>3, <1>4, PumpType DEF TypeInv, TypeOK
<1> QED
  BY <1>1, <1>5 DEF TypeInv, TypeOK, PumpTyped, results, bounds

LEMMA TypeNext == TypeInv /\ [Next]_vars => TypeInv'
<1> SUFFICES ASSUME TypeInv, [Next]_vars PROVE TypeInv'
  OBVIOUS
<1>1. ASSUME NEW d \in Docs, AddPaper(d) \/ Enqueue(d) \/ Edit(d) \/ Cancel(d) \/ RemovePaper(d)
      PROVE  TypeInv'
  BY <1>1, AddPaperType, EnqueueType, EditType, CancelType, RemovePaperType
<1>2. ASSUME NEW c \in Children, Deliver(c) \/ Exit(c) PROVE TypeInv'
  BY <1>2, DeliverType, ExitType
<1>3. CASE Respawn \/ Quit \/ AppExit \/ Start
  BY <1>3, RespawnType, QuitType, AppExitType, StartType
<1>4. ASSUME NEW c \in Children, Reader(c) \/ MainLoop(c) \/ Publish(c) \/ EngineEnd(c) PROVE TypeInv'
  BY <1>4, EngineTypeNext
<1>5. CASE UNCHANGED vars
  BY <1>5 DEF vars, main, results, bounds, TypeInv, TypeOK, Waits, Single
<1> QED
  BY <1>1, <1>2, <1>3, <1>4, <1>5 DEF Next

\* Every variable of the main process and of the engines has its type, whatever is asked
\* of the queue and whenever a process ends.
THEOREM TypeCorrect == Spec => []TypeOK
<1>1. TypeInv => TypeOK
  BY DEF TypeInv
<1> QED
  BY TypeInit, TypeNext, <1>1, PTL DEF Spec

-----------------------------------------------------------------------------
(* The rows of the papers that wait or run *)

\* What PaperHeld says of a status, a queue and a current paper.
Held(st, q, cur) ==
    \A d \in Docs : /\ st[d] = "queued" => \E i \in 1..Len(q) : q[i] = d
                    /\ st[d] = "running" => cur = d

HeldInv == TypeInv /\ (app # "down" => Held(status, queue, current))

\* A paper leaves the head of the queue running.
LEMMA SendHeld ==
    ASSUME NEW st \in [Docs -> Statuses], NEW q \in Seq(Docs), q # <<>>, Held(st, q, None)
    PROVE  Held([st EXCEPT ![Head(q)] = "running"], Tail(q), Head(q))
<1> DEFINE h == Head(q)
           s == [st EXCEPT ![h] = "running"]
<1>1. /\ h \in Docs /\ h = q[1] /\ Len(q) \in Nat \ {0} /\ Len(Tail(q)) = Len(q) - 1
      /\ \A i \in 1..Len(Tail(q)) : Tail(q)[i] = q[i + 1]
  OBVIOUS
<1>2. s[h] = "running" /\ \A d \in Docs : d # h => s[d] = st[d]
  BY <1>1
<1> SUFFICES ASSUME NEW d \in Docs
             PROVE  /\ s[d] = "queued" => \E i \in 1..Len(Tail(q)) : Tail(q)[i] = d
                    /\ s[d] = "running" => h = d
  BY DEF Held
<1> HIDE DEF h, s
<1>3. ASSUME s[d] = "queued" PROVE \E i \in 1..Len(Tail(q)) : Tail(q)[i] = d
  <2>1. d # h /\ st[d] = "queued"
    BY <1>2, <1>3
  <2>2. PICK i \in 1..Len(q) : q[i] = d
    BY <2>1 DEF Held
  <2>3. i - 1 \in 1..Len(Tail(q)) /\ (i - 1) + 1 = i
    BY <1>1, <2>1, <2>2
  <2> QED
    BY <1>1, <2>2, <2>3
<1>4. ASSUME s[d] = "running", h # d PROVE FALSE
  <2>1. st[d] = "running"
    BY <1>2, <1>4
  <2> QED
    BY <2>1, ConstantsAssumption DEF Held, ConstantsAssumption
<1> QED
  BY <1>3, <1>4

\* Nothing waits or runs after each paper was failed.
LEMMA FailHeld ==
    ASSUME NEW st \in [Docs -> Statuses], NEW q, Held(st, q, None)
    PROVE  Held(FailAll(st, q), <<>>, None)
<1>1. \A d \in Docs : st[d] # "running"
  BY ConstantsAssumption DEF Held, ConstantsAssumption
<1>2. \A d \in Docs : FailAll(st, q)[d] \notin {"queued", "running"}
  BY <1>1 DEF FailAll, Held
<1> QED
  BY <1>2 DEF Held

LEMMA PumpHeld ==
    ASSUME NEW st \in [Docs -> Statuses], NEW q \in Seq(Docs), NEW cur, NEW pend, NEW eng,
           Held(st, q, cur), Pump(st, q, cur, pend, eng)
    PROVE  Held(status', queue', current')
<1>1. CASE status' = st /\ queue' = q /\ current' = cur
  BY <1>1
<1>2. CASE cur = None /\ status' = FailAll(st, q) /\ queue' = <<>> /\ current' = None
  BY <1>2, FailHeld
<1>3. CASE /\ cur = None /\ q # <<>>
           /\ status' = [st EXCEPT ![Head(q)] = "running"]
           /\ queue' = Tail(q) /\ current' = Head(q)
  BY <1>3, SendHeld
<1> QED
  BY <1>1, <1>2, <1>3 DEF Pump, SendNext

\* A paper joins the queue, with the status queued or the one it has.
LEMMA AppendHeld ==
    ASSUME NEW st \in [Docs -> Statuses], NEW q \in Seq(Docs), NEW cur, NEW d \in Docs,
           Held(st, q, cur)
    PROVE  /\ Held(st, Append(q, d), cur)
           /\ Held([st EXCEPT ![d] = "queued"], Append(q, d), cur)
<1> DEFINE a == Append(q, d)
<1>1. /\ Len(a) = Len(q) + 1 /\ Len(q) \in Nat
      /\ \A i \in 1..Len(q) : a[i] = q[i]
      /\ a[Len(q) + 1] = d
  BY AppendProperties
<1> HIDE DEF a
<1>2. \A b \in Docs : (\E i \in 1..Len(q) : q[i] = b) => \E i \in 1..Len(a) : a[i] = b
  BY <1>1
<1>3. \E i \in 1..Len(a) : a[i] = d
  BY <1>1
<1>4. Held(st, a, cur)
  BY <1>2 DEF Held
<1>5. Held([st EXCEPT ![d] = "queued"], a, cur)
  BY <1>2, <1>3 DEF Held
<1> QED
  BY <1>4, <1>5 DEF a

\* A paper leaves the queue with a status of its own.
LEMMA DropHeld ==
    ASSUME NEW st \in [Docs -> Statuses], NEW q \in Seq(Docs), NEW cur, NEW d \in Docs,
           Single(q), Held(st, q, cur), NEW x, x \notin {"queued", "running"}
    PROVE  /\ Held([st EXCEPT ![d] = x], q, cur)
           /\ (\E i \in 1..Len(q) : q[i] = d) =>
                  Held([st EXCEPT ![d] = x], RemoveFirst(q, d), cur)
<1> DEFINE s == [st EXCEPT ![d] = x]
<1>1. s[d] = x /\ \A b \in Docs : b # d => s[b] = st[b]
  OBVIOUS
<1> HIDE DEF s
<1>2. Held(s, q, cur)
  BY <1>1 DEF Held
<1>3. ASSUME \E i \in 1..Len(q) : q[i] = d PROVE Held(s, RemoveFirst(q, d), cur)
  <2>1. \A j \in 1..Len(q) : q[j] # d =>
            \E i \in 1..Len(RemoveFirst(q, d)) : RemoveFirst(q, d)[i] = q[j]
    BY <1>3, RemoveFirstQueue
  <2>2. ASSUME NEW b \in Docs, s[b] = "queued"
        PROVE  \E i \in 1..Len(RemoveFirst(q, d)) : RemoveFirst(q, d)[i] = b
    <3>1. b # d /\ st[b] = "queued"
      BY <1>1, <2>2
    <3>2. PICK j \in 1..Len(q) : q[j] = b
      BY <3>1 DEF Held
    <3> QED
      BY <2>1, <3>1, <3>2
  <2>3. \A b \in Docs : s[b] = "running" => cur = b
    BY <1>1 DEF Held
  <2> QED
    BY <2>2, <2>3 DEF Held
<1> QED
  BY <1>2, <1>3 DEF s

LEMMA HeldType ==
    ASSUME HeldInv
    PROVE  /\ status \in [Docs -> Statuses] /\ queue \in Seq(Docs) /\ Single(queue)
           /\ Waits(status, queue) /\ engine \in [Children -> Engines]
           /\ pending \in [Docs -> Nat] /\ current \in Docs \cup {None}
           /\ app # "down" => Held(status, queue, current)
  BY DEF HeldInv, TypeInv, TypeOK, Waits

LEMMA CallHeld ==
    ASSUME HeldInv, NEW d \in Docs, AddPaper(d) \/ Enqueue(d) \/ Edit(d)
    PROVE  Held(status', queue', current')
<1>1. app = "up"
  BY DEF AddPaper, Enqueue, Edit, Ask
<1>2. /\ status \in [Docs -> Statuses] /\ queue \in Seq(Docs)
      /\ Held(status, queue, current)
  BY <1>1, HeldType
<1>3. CASE status' = [status EXCEPT ![d] = "new"] /\ UNCHANGED <<queue, current>>
  BY <1>2, <1>3 DEF Held
<1>4. CASE UNCHANGED <<status, queue, current>>
  BY <1>2, <1>4
<1>5. CASE \E pend : Pump([status EXCEPT ![d] = "queued"], Append(queue, d), current, pend, engine)
  <2> DEFINE st == [status EXCEPT ![d] = "queued"]
             q == Append(queue, d)
  <2>1. st \in [Docs -> Statuses] /\ q \in Seq(Docs)
    BY <1>2 DEF Statuses
  <2>2. Held(st, q, current)
    BY <1>2, AppendHeld
  <2>3. PICK pend : Pump(st, q, current, pend, engine)
    BY <1>5
  <2> HIDE DEF st, q
  <2> QED
    BY <2>1, <2>2, <2>3, PumpHeld
<1>6. CASE \E pend : Pump(status, Append(queue, d), current, pend, engine)
  <2> DEFINE q == Append(queue, d)
  <2>1. q \in Seq(Docs)
    BY <1>2
  <2>2. Held(status, q, current)
    BY <1>2, AppendHeld
  <2>3. PICK pend : Pump(status, q, current, pend, engine)
    BY <1>6
  <2> HIDE DEF q
  <2> QED
    BY <1>2, <2>1, <2>2, <2>3, PumpHeld
<1>7. AddPaper(d) => \/ status' = [status EXCEPT ![d] = "new"] /\ UNCHANGED <<queue, current>>
                     \/ Pump([status EXCEPT ![d] = "queued"], Append(queue, d), current, pending, engine)
  BY DEF AddPaper
<1>8. Enqueue(d) => Pump([status EXCEPT ![d] = "queued"], Append(queue, d), current, pending, engine)
  BY DEF Enqueue
<1>9. Edit(d) =>
         LET edits == [pending EXCEPT ![d] = @ + 1]
         IN  \/ UNCHANGED <<status, queue, current>>
             \/ Pump(status, Append(queue, d), current, edits, engine)
             \/ Pump([status EXCEPT ![d] = "queued"], Append(queue, d), current, edits, engine)
  BY DEF Edit
<1> QED
  BY <1>3, <1>4, <1>5, <1>6, <1>7, <1>8, <1>9

LEMMA CancelHeld ==
    ASSUME HeldInv, NEW d \in Docs, Cancel(d) \/ RemovePaper(d)
    PROVE  Held(status', queue', current')
<1>1. app = "up" /\ current' = current
  BY DEF Cancel, RemovePaper, Ask
<1>2. /\ status \in [Docs -> Statuses] /\ queue \in Seq(Docs) /\ Single(queue)
      /\ Held(status, queue, current)
  BY <1>1, HeldType
<1>3. \E x : /\ x \notin {"queued", "running"}
             /\ status' = [status EXCEPT ![d] = x]
             /\ \/ queue' = queue
                \/ (\E i \in 1..Len(queue) : queue[i] = d) /\ queue' = RemoveFirst(queue, d)
  <2>1. CASE CancelTo(d, [status EXCEPT ![d] = "cancelled"])
    BY <2>1 DEF CancelTo, Queued
  <2>2. CASE CancelTo(d, [status EXCEPT ![d] = "absent"])
    BY <2>2 DEF CancelTo, Queued
  <2>3. CASE status' = [status EXCEPT ![d] = "absent"] /\ UNCHANGED <<queue, engine>>
    BY <2>3
  <2> QED
    BY <2>1, <2>2, <2>3 DEF Cancel, RemovePaper
<1>4. PICK x : /\ x \notin {"queued", "running"}
               /\ status' = [status EXCEPT ![d] = x]
               /\ \/ queue' = queue
                  \/ (\E i \in 1..Len(queue) : queue[i] = d) /\ queue' = RemoveFirst(queue, d)
  BY <1>3
<1>5. /\ Held([status EXCEPT ![d] = x], queue, current)
      /\ (\E i \in 1..Len(queue) : queue[i] = d) =>
             Held([status EXCEPT ![d] = x], RemoveFirst(queue, d), current)
  BY <1>2, <1>4, DropHeld
<1>6. CASE queue' = queue
  BY <1>1, <1>4, <1>5, <1>6
<1>7. CASE (\E i \in 1..Len(queue) : queue[i] = d) /\ queue' = RemoveFirst(queue, d)
  BY <1>1, <1>4, <1>5, <1>7
<1> QED
  BY <1>4, <1>6, <1>7

LEMMA DeliverHeld ==
    ASSUME HeldInv, NEW c \in Children, Deliver(c)
    PROVE  Held(status', queue', current')
<1> DEFINE line == Head(engine[c].lines)
           rest == [engine EXCEPT ![c].lines = Tail(@)]
<1>1. app # "down" /\ engine[c].lines # <<>>
  BY DEF Deliver, Serving
<1>2. /\ status \in [Docs -> Statuses] /\ queue \in Seq(Docs) /\ current \in Docs \cup {None}
      /\ Held(status, queue, current)
  BY <1>1, HeldType
<1>3. CASE current # None /\ Pump(Booked(current, line.ok), queue, None, pending, rest)
  <2>1. line.ok \in BOOLEAN
    BY <1>1, RestType DEF HeldInv, TypeInv, Lines
  <2> DEFINE st == Booked(current, line.ok)
  <2>2. /\ st \in [Docs -> Statuses] /\ st[current] \notin {"queued", "running"}
        /\ \A b \in Docs : b # current => st[b] = status[b]
    <3>1. current \in Docs /\ TypeInv
      BY <1>2, <1>3 DEF HeldInv
    <3> HIDE DEF line
    <3>2. /\ Booked(current, line.ok) \in [Docs -> Statuses]
          /\ \A b \in Docs : b # current => Booked(current, line.ok)[b] = status[b]
          /\ Booked(current, line.ok)[current] =
                IF status[current] = "absent" THEN "absent" ELSE Verdict(current, line.ok)
          /\ Verdict(current, line.ok) \in {"done", "cancelled", "failed"}
      BY <2>1, <3>1, BookedType
    <3> QED
      BY <3>2
  <2>3. Held(st, queue, None)
    <3> HIDE DEF st
    <3> QED
      BY <1>2, <2>2 DEF Held
  <2> HIDE DEF st, rest
  <2> QED
    BY <1>2, <1>3, <2>2, <2>3, PumpHeld DEF st
<1>4. CASE UNCHANGED <<status, queue, current>>
  BY <1>2, <1>4
<1> QED
  BY <1>3, <1>4 DEF Deliver

LEMMA ExitHeld ==
    ASSUME HeldInv, NEW c \in Children, Exit(c)
    PROVE  Held(status', queue', current')
<1>1. app # "down" /\ (UNCHANGED <<status, queue, current>> \/ CrashEvent)
  BY DEF Exit, Serving
<1>2. /\ status \in [Docs -> Statuses] /\ queue \in Seq(Docs) /\ current \in Docs \cup {None}
      /\ Held(status, queue, current)
  BY <1>1, HeldType
<1> DEFINE st == [d \in Docs |-> IF d = current /\ status[d] # "absent" THEN "failed" ELSE status[d]]
<1>3. CASE status' = FailAll(st, queue) /\ queue' = <<>> /\ current' = None
  <2>1. st \in [Docs -> Statuses] /\ Held(st, queue, None)
    BY <1>2 DEF Held, Statuses
  <2> HIDE DEF st
  <2> QED
    BY <1>3, <2>1, FailHeld
<1>4. CASE UNCHANGED <<status, queue, current>>
  BY <1>2, <1>4
<1> QED
  BY <1>1, <1>3, <1>4 DEF CrashEvent

LEMMA StartHeld == ASSUME HeldInv, Start PROVE Held(status', queue', current')
<1> DEFINE again == {d \in Docs : status[d] \in {"queued", "running"}}
           st == [d \in Docs |-> IF d \in again THEN "queued" ELSE status[d]]
           q == SetToSeq(again)
<1>1. Pump(st, q, None, pending, engine)
  BY DEF Start
<1>2. /\ st \in [Docs -> Statuses] /\ \A d \in Docs : st[d] = "queued" => d \in again
      /\ \A d \in Docs : st[d] # "running"
  BY HeldType DEF Statuses
<1>3. q \in Seq(Docs) /\ \A d \in again : \E i \in 1..Len(q) : q[i] = d
  BY SetToSeqQueue
<1> HIDE DEF st, q, again
<1>4. Held(st, q, None)
  BY <1>2, <1>3 DEF Held
<1> QED
  BY <1>1, <1>2, <1>3, <1>4, PumpHeld

LEMMA HeldInit == Init => HeldInv
<1> SUFFICES ASSUME Init PROVE HeldInv
  OBVIOUS
<1>1. TypeInv
  BY TypeInit
<1>2. \A d \in Docs : status[d] = "absent"
  BY DEF Init
<1> QED
  BY <1>1, <1>2 DEF HeldInv, Held

LEMMA HeldNext == HeldInv /\ [Next]_vars => HeldInv'
<1> SUFFICES ASSUME HeldInv, [Next]_vars PROVE HeldInv'
  OBVIOUS
<1>1. TypeInv'
  BY TypeNext DEF HeldInv
<1>2. app' # "down" => Held(status', queue', current')
  <2>1. ASSUME NEW d \in Docs, AddPaper(d) \/ Enqueue(d) \/ Edit(d) \/ Cancel(d) \/ RemovePaper(d)
        PROVE  Held(status', queue', current')
    BY <2>1, CallHeld, CancelHeld
  <2>2. ASSUME NEW c \in Children, Deliver(c) \/ Exit(c) PROVE Held(status', queue', current')
    BY <2>2, DeliverHeld, ExitHeld
  <2>3. CASE Respawn \/ Quit
    <3>1. UNCHANGED <<status, queue, current>> /\ app # "down"
      BY <2>3 DEF Respawn, Quit, Serving
    <3> QED
      BY <3>1 DEF HeldInv
  <2>4. CASE AppExit
    BY <2>4 DEF AppExit
  <2>5. CASE Start
    BY <2>5, StartHeld, SMTT(30)
  <2>6. ASSUME NEW c \in Children, Reader(c) \/ MainLoop(c) \/ Publish(c) \/ EngineEnd(c)
        PROVE  UNCHANGED <<app, status, queue, current>>
    BY <2>6 DEF Reader, MainLoop, ReadCancel, Read, ReadEof, TakeConfigure, TakeEdit, TakeRun,
                TakePages, FallBack, Fail,
                Finish, Publish, EngineEnd, EngineOnly, main
  <2>7. UNCHANGED <<app, status, queue, current>> => (app' # "down" => Held(status', queue', current'))
    BY DEF HeldInv
  <2>8. UNCHANGED vars => UNCHANGED <<app, status, queue, current>>
    BY DEF vars, main
  <2> QED
    BY <2>1, <2>2, <2>3, <2>4, <2>5, <2>6, <2>7, <2>8 DEF Next
<1> QED
  BY <1>1, <1>2 DEF HeldInv

\* A paper that the library shows as queued waits in the queue, and one that it shows as
\* running is the current one, whatever was removed and added again, cancelled, lost in a
\* crash or queued again at a start: no row promises a run that nobody remembers.
THEOREM PapersHeld == Spec => []PaperHeld
<1>1. HeldInv => PaperHeld
  BY DEF HeldInv, Held, PaperHeld, Queued
<1> QED
  BY HeldInit, HeldNext, <1>1, PTL DEF Spec

-----------------------------------------------------------------------------
(* The main process and its children *)

Has(c) == engine[c].life \in {"alive", "dead"}

\* The child is a process whose exit was not seen. While the app is up, and until a
\* quitting app starts another one, no other process is left.
LifeInv ==
    /\ sidecar.child # None => Has(sidecar.child)
    /\ app = "up" \/ sidecar.stopped => \A c \in Children : Has(c) => c = sidecar.child
    /\ app = "down" => sidecar = NoSidecar /\ current = None /\ engine = [c \in Children |-> NoEngine]

SidecarInv ==
    /\ app = "up" => ~sidecar.stopped
    /\ sidecar.state = "stopping" => sidecar.stopped
    /\ sidecar.state \in {"stopped", "exited"} => sidecar.child = None
    /\ sidecar.timer => current = None
    /\ sidecar.timer /\ app = "up" => sidecar.state = "running" /\ sidecar.child = None

\* A current paper is the one last asked for; it is not done, and without a row only if
\* it was removed since.
QueueInv ==
    /\ current = None => queue = <<>>
    /\ current # None =>
          /\ asked[current] = request
          /\ status[current] # "done"
          /\ status[current] = "absent" => current \in disowned
          /\ sidecar.child = None => app = "quitting" /\ sidecar.stopped
          /\ app = "up" => configured

\* The first message an engine takes is a configure.
First(e) ==
    \/ e.configure
    \/ /\ e.channel # <<>> => e.channel[1].type = "configure"
       /\ e.channel = <<>> /\ e.pipe # <<>> => e.pipe[1].type = "configure"

Told(e) == e.configure \/ e.channel # <<>> \/ e.pipe # <<>>

ConfInv ==
    /\ \A c \in Children : Alive(c) => First(engine[c])
    /\ sidecar.child # None /\ Alive(sidecar.child) /\ configured => Told(engine[sidecar.child])

\* No process has heard of a request that was not made.
Bounded(e, n) ==
    /\ e.run.n <= n
    /\ \A m \in ToSet(e.pipe) \cup ToSet(e.channel) : m.n <= n
    /\ \A l \in ToSet(e.lines) : l.n <= n

NumInv == \A c \in Children : Bounded(engine[c], request)

BaseInv == TypeInv /\ LifeInv /\ SidecarInv /\ QueueInv /\ ConfInv /\ NumInv

-----------------------------------------------------------------------------
(* The fields of an engine after a step *)

LEMMA EngineFields ==
    ASSUME NEW e \in Engines
    PROVE  /\ e.life \in {"none", "alive", "dead", "gone"}
           /\ e.pipe \in Seq(Messages) /\ e.channel \in Seq(Messages) /\ e.lines \in Seq(Lines)
           /\ e.run \in Runs /\ e.run.n \in Nat /\ e.run.doc \in Docs \cup {None}
           /\ e.open \in BOOLEAN /\ e.configure \in BOOLEAN /\ e.cancelled \in BOOLEAN
           /\ e.eof \in BOOLEAN
  BY DEF Engines, Runs

LEMMA CancelReadFields ==
    ASSUME NEW e \in Engines, NEW f \in Engines, CancelRead(e, f)
    PROVE  /\ e.pipe # <<>> /\ Head(e.pipe).type = "cancel" /\ f.pipe = Tail(e.pipe)
           /\ Head(e.pipe) = e.pipe[1] /\ Head(e.pipe) \in ToSet(e.pipe)
           /\ ToSet(f.pipe) \subseteq ToSet(e.pipe)
           /\ f.channel = e.channel /\ f.run = e.run /\ f.lines = e.lines
           /\ f.configure = e.configure /\ f.life = e.life /\ f.eof = e.eof
           /\ f.cancelled = (e.cancelled \/ e.run # NoRun)
<1>1. /\ e.pipe # <<>> /\ Head(e.pipe).type = "cancel" /\ f.pipe = Tail(e.pipe)
      /\ f.channel = e.channel /\ f.run = e.run /\ f.lines = e.lines
      /\ f.configure = e.configure /\ f.life = e.life /\ f.eof = e.eof
      /\ f.cancelled = (e.cancelled \/ e.run # NoRun)
  BY DEF CancelRead, Engines
<1>2. e.pipe \in Seq(Messages)
  BY EngineFields
<1> QED
  BY <1>1, <1>2, TailSet

LEMMA RequestReadFields ==
    ASSUME NEW e \in Engines, NEW f \in Engines, RequestRead(e, f)
    PROVE  /\ e.pipe # <<>> /\ Head(e.pipe).type # "cancel" /\ f.pipe = Tail(e.pipe)
           /\ Head(e.pipe) = e.pipe[1] /\ Head(e.pipe) \in ToSet(e.pipe)
           /\ Head(e.pipe) \in Messages
           /\ ToSet(f.pipe) \subseteq ToSet(e.pipe)
           /\ f.channel = Append(e.channel, Head(e.pipe)) /\ f.channel # <<>>
           /\ f.channel[1] = IF e.channel = <<>> THEN Head(e.pipe) ELSE e.channel[1]
           /\ ToSet(f.channel) = ToSet(e.channel) \cup {Head(e.pipe)}
           /\ f.run = e.run /\ f.lines = e.lines /\ f.cancelled = e.cancelled
           /\ f.configure = e.configure /\ f.life = e.life /\ f.eof = e.eof
<1>1. /\ e.pipe # <<>> /\ Head(e.pipe).type # "cancel" /\ f.pipe = Tail(e.pipe)
      /\ f.channel = Append(e.channel, Head(e.pipe))
      /\ f.run = e.run /\ f.lines = e.lines /\ f.cancelled = e.cancelled
      /\ f.configure = e.configure /\ f.life = e.life /\ f.eof = e.eof
  BY DEF RequestRead, Engines
<1>2. e.pipe \in Seq(Messages) /\ e.channel \in Seq(Messages)
  BY EngineFields
<1>3. /\ ToSet(f.pipe) \subseteq ToSet(e.pipe) /\ Head(e.pipe) = e.pipe[1]
      /\ Head(e.pipe) \in ToSet(e.pipe) /\ Head(e.pipe) \in Messages
  BY <1>1, <1>2, TailSet
<1>4. /\ ToSet(f.channel) = ToSet(e.channel) \cup {Head(e.pipe)} /\ f.channel # <<>>
      /\ f.channel[1] = IF e.channel = <<>> THEN Head(e.pipe) ELSE e.channel[1]
  <2> DEFINE m == Head(e.pipe)
             s == e.channel
  <2>1. f.channel = Append(s, m) /\ m \in Messages /\ s \in Seq(Messages)
    BY <1>1, <1>2, <1>3
  <2> HIDE DEF m, s
  <2>2. /\ ToSet(f.channel) = ToSet(s) \cup {m} /\ f.channel \in Seq(Messages)
        /\ Len(s) \in Nat /\ Len(f.channel) = Len(s) + 1
        /\ \A i \in 1..Len(s) : f.channel[i] = s[i]
        /\ f.channel[Len(s) + 1] = m
    BY <2>1, AppendSet
  <2>3. f.channel # <<>>
    BY <2>2
  <2>4. f.channel[1] = IF s = <<>> THEN m ELSE s[1]
    BY <2>1, <2>2, MemberSet
  <2> QED
    BY <2>2, <2>3, <2>4 DEF m, s
<1> QED
  BY <1>1, <1>3, <1>4

LEMMA EofReadFields ==
    ASSUME NEW e \in Engines, NEW f \in Engines, EofRead(e, f)
    PROVE  /\ f.pipe = e.pipe /\ f.channel = e.channel /\ f.run = e.run /\ f.lines = e.lines
           /\ f.configure = e.configure /\ f.life = e.life /\ f.eof = TRUE
  BY DEF EofRead, Engines

\* The main loop takes the head of the channel.
LEMMA TakenFields ==
    ASSUME NEW e \in Engines, NEW f \in Engines,
           \/ ConfigureTaken(e, f) \/ EditTaken(e, f)
           \/ RunTaken(e, f) \/ RunMissed(e, f) \/ PagesTaken(e, f)
    PROVE  /\ e.channel # <<>> /\ e.run = NoRun /\ f.pipe = e.pipe /\ f.channel = Tail(e.channel)
           /\ Head(e.channel) = e.channel[1] /\ Head(e.channel) \in ToSet(e.channel)
           /\ Head(e.channel) \in Messages /\ Head(e.channel).n \in Nat
           /\ ToSet(f.channel) \subseteq ToSet(e.channel)
           /\ f.life = e.life /\ f.eof = e.eof
<1>1. /\ e.channel # <<>> /\ e.run = NoRun /\ f.pipe = e.pipe /\ f.channel = Tail(e.channel)
      /\ f.life = e.life /\ f.eof = e.eof
  <2>1. CASE ConfigureTaken(e, f)
    BY <2>1 DEF ConfigureTaken, Engines
  <2>2. CASE EditTaken(e, f)
    BY <2>2 DEF EditTaken, EditSaved, Engines
  <2>3. CASE RunTaken(e, f) \/ RunMissed(e, f) \/ PagesTaken(e, f)
    <3>1. e.channel # <<>> /\ e.run = NoRun
      BY <2>3 DEF RunTaken, RunMissed, PagesTaken, RunNext
    <3>2. /\ Taken(e) \in Engines /\ Taken(e).channel = Tail(e.channel)
          /\ Taken(e).pipe = e.pipe /\ Taken(e).life = e.life /\ Taken(e).eof = e.eof
      BY <3>1, TakenType
    <3> QED
      BY <2>3, <3>1, <3>2 DEF RunTaken, RunMissed, PagesTaken, Engines
  <2> QED
    BY <2>1, <2>2, <2>3
<1>2. e.channel \in Seq(Messages)
  BY EngineFields
<1>3. /\ Head(e.channel) = e.channel[1] /\ Head(e.channel) \in ToSet(e.channel)
      /\ Head(e.channel) \in Messages /\ ToSet(f.channel) \subseteq ToSet(e.channel)
  BY <1>1, <1>2, TailSet
<1> QED
  BY <1>1, <1>3 DEF Messages

LEMMA ConfigureTakenFields ==
    ASSUME NEW e \in Engines, NEW f \in Engines, ConfigureTaken(e, f)
    PROVE  /\ Head(e.channel).type = "configure" /\ f.configure = TRUE
           /\ f.run = e.run /\ f.lines = e.lines /\ f.cancelled = e.cancelled
  BY DEF ConfigureTaken, Engines

LEMMA EditTakenFields ==
    ASSUME NEW e \in Engines, NEW f \in Engines, EditTaken(e, f)
    PROVE  /\ Head(e.channel).type = "edit" /\ f.configure = e.configure
           /\ f.run = e.run /\ f.lines = e.lines /\ f.cancelled = e.cancelled
  BY DEF EditTaken, EditSaved, Engines

\* A line is added to those of an engine.
Adds(e, f, type, n, ok) ==
    /\ f.lines = Append(e.lines, Line(type, n, ok))
    /\ Line(type, n, ok) \in Lines
    /\ Line(type, n, ok).type = type /\ Line(type, n, ok).n = n /\ Line(type, n, ok).ok = ok
    /\ ToSet(f.lines) = ToSet(e.lines) \cup {Line(type, n, ok)}

LEMMA AddsLine ==
    ASSUME NEW e \in Engines, NEW f \in Engines,
           NEW type \in {"run_started", "document_finished", "run_finished"},
           NEW n \in Nat, NEW ok \in BOOLEAN, f.lines = Append(e.lines, Line(type, n, ok))
    PROVE  Adds(e, f, type, n, ok)
<1> DEFINE l == Line(type, n, ok)
<1>1. e.lines \in Seq(Lines)
  BY EngineFields
<1>2. l \in Lines /\ l.type = type /\ l.n = n /\ l.ok = ok
  BY <1>1, LineType
<1>3. f.lines = Append(e.lines, l)
  OBVIOUS
<1> HIDE DEF l
<1>4. ToSet(f.lines) = ToSet(e.lines) \cup {l}
  BY <1>1, <1>2, <1>3, AppendSet
<1> QED
  BY <1>2, <1>3, <1>4 DEF Adds, l

LEMMA RunTakenFields ==
    ASSUME NEW e \in Engines, NEW f \in Engines, RunTaken(e, f)
    PROVE  /\ Head(e.channel).type = "run" /\ e.configure /\ f.configure = e.configure
           /\ f.run # NoRun /\ f.run.published = FALSE /\ f.run.pages = FALSE
           /\ f.run.doc = Head(e.channel).doc /\ f.run.n = Head(e.channel).n
           /\ f.cancelled = e.eof
           /\ Adds(e, f, "run_started", Head(e.channel).n, FALSE)
<1> DEFINE m == Head(e.channel)
<1>1. m.type = "run" /\ e.configure /\ e.channel # <<>>
  BY DEF RunTaken, RunNext
<1>2. m.n \in Nat /\ m.doc \in Docs
  BY <1>1, TakenFields DEF Messages
<1>3. /\ Taken(e) \in Engines /\ Taken(e).configure = e.configure
      /\ Taken(e).cancelled = e.eof /\ Taken(e).lines = e.lines
  BY <1>1, TakenType
<1>4. /\ f.configure = e.configure /\ f.run = FullRun(m.doc, m.n) /\ f.cancelled = e.eof
      /\ f.lines = Append(e.lines, Line("run_started", m.n, FALSE))
  BY <1>3 DEF RunTaken, Engines
<1> HIDE DEF m
<1>5. Adds(e, f, "run_started", m.n, FALSE)
  BY <1>2, <1>4, AddsLine
<1>6. /\ f.run # NoRun /\ f.run.doc = m.doc /\ f.run.n = m.n /\ f.run.published = FALSE
      /\ f.run.pages = FALSE
  <2> DEFINE r == FullRun(m.doc, m.n)
  <2>1. r # NoRun /\ r.doc = m.doc /\ r.n = m.n /\ r.published = FALSE /\ r.pages = FALSE
    BY <1>2, RunsType
  <2>2. f.run = r
    BY <1>4
  <2> HIDE DEF r
  <2> QED
    BY ONLY <2>1, <2>2
<1> QED
  BY <1>1, <1>4, <1>5, <1>6 DEF m

LEMMA RunMissedFields ==
    ASSUME NEW e \in Engines, NEW f \in Engines, RunMissed(e, f)
    PROVE  /\ Head(e.channel).type = "run" /\ e.configure /\ f.configure = e.configure
           /\ f.run = NoRun /\ f.cancelled = FALSE
           /\ Adds(e, f, "run_finished", Head(e.channel).n, FALSE)
<1> DEFINE m == Head(e.channel)
<1>1. m.type = "run" /\ e.configure /\ e.channel # <<>>
  BY DEF RunMissed, RunNext
<1>2. m.n \in Nat
  BY TakenFields
<1>3. Taken(e) \in Engines /\ Taken(e).configure = e.configure /\ Taken(e).lines = e.lines
  BY <1>1, TakenType
<1>4. /\ f.configure = e.configure /\ f.run = NoRun /\ f.cancelled = FALSE
      /\ f.lines = Append(e.lines, Line("run_finished", m.n, FALSE))
  BY <1>3 DEF RunMissed, Engines
<1> HIDE DEF m
<1>5. Adds(e, f, "run_finished", m.n, FALSE)
  BY <1>2, <1>4, AddsLine
<1> QED
  BY <1>1, <1>4, <1>5 DEF m

LEMMA PagesTakenFields ==
    ASSUME NEW e \in Engines, NEW f \in Engines, PagesTaken(e, f)
    PROVE  /\ Head(e.channel).type = "run" /\ e.configure /\ f.configure = e.configure
           /\ f.run # NoRun /\ f.run.published = FALSE
           /\ f.run.doc = Head(e.channel).doc /\ f.run.n = Head(e.channel).n
           /\ f.cancelled = e.eof /\ f.lines = e.lines
<1> DEFINE m == Head(e.channel)
<1>1. m.type = "run" /\ e.configure /\ e.channel # <<>>
  BY DEF PagesTaken, RunNext
<1>2. /\ Taken(e) \in Engines /\ Taken(e).configure = e.configure
      /\ Taken(e).cancelled = e.eof /\ Taken(e).lines = e.lines
  BY <1>1, TakenType
<1>3. /\ f.configure = e.configure /\ f.run = PagesRun(e) /\ f.cancelled = e.eof
      /\ f.lines = e.lines
  BY <1>2 DEF PagesTaken, Engines
<1>4. f.run # NoRun /\ f.run.published = FALSE /\ f.run.doc = m.doc /\ f.run.n = m.n
  BY <1>3 DEF PagesRun, NoRun
<1> QED
  BY <1>1, <1>3, <1>4

LEMMA FellBackFields ==
    ASSUME NEW e \in Engines, NEW f \in Engines, FellBack(e, f)
    PROVE  /\ e.run # NoRun /\ f.run # NoRun /\ f.pipe = e.pipe /\ f.channel = e.channel
           /\ f.run.doc = e.run.doc /\ f.run.n = e.run.n /\ f.run.published = FALSE
           /\ f.run.pages = FALSE
           /\ f.configure = e.configure /\ f.life = e.life /\ f.eof = e.eof
           /\ f.cancelled = e.cancelled
           /\ Adds(e, f, "run_started", e.run.n, FALSE)
<1>1. e.run # NoRun
  BY DEF FellBack, NoRun
<1>2. e.run.n \in Nat /\ e.run.doc \in Docs
  BY <1>1 DEF Engines, Runs
<1>3. /\ f.run = FullRun(e.run.doc, e.run.n) /\ f.pipe = e.pipe /\ f.channel = e.channel
      /\ f.lines = Append(e.lines, Line("run_started", e.run.n, FALSE))
      /\ f.configure = e.configure /\ f.life = e.life /\ f.eof = e.eof
      /\ f.cancelled = e.cancelled
  BY DEF FellBack, Engines
<1>4. /\ f.run # NoRun /\ f.run.doc = e.run.doc /\ f.run.n = e.run.n
      /\ f.run.published = FALSE /\ f.run.pages = FALSE
  <2> DEFINE r == FullRun(e.run.doc, e.run.n)
  <2>1. r # NoRun /\ r.doc = e.run.doc /\ r.n = e.run.n /\ r.published = FALSE /\ r.pages = FALSE
    BY <1>2, RunsType
  <2>2. f.run = r
    BY <1>3
  <2> HIDE DEF r
  <2> QED
    BY ONLY <2>1, <2>2
<1>5. Adds(e, f, "run_started", e.run.n, FALSE)
  BY <1>2, <1>3, AddsLine
<1> QED
  BY <1>1, <1>3, <1>4, <1>5

LEMMA RunPublishedFields ==
    ASSUME NEW e \in Engines, NEW f \in Engines, RunPublished(e, f)
    PROVE  /\ e.run # NoRun /\ f.run # NoRun /\ f.pipe = e.pipe /\ f.channel = e.channel
           /\ f.run.doc = e.run.doc /\ f.run.n = e.run.n
           /\ f.configure = e.configure /\ f.life = e.life /\ f.eof = e.eof
           /\ f.cancelled = e.cancelled
           /\ Adds(e, f, "document_finished", e.run.n, FALSE)
<1>1. PICK edits \in Nat, partial \in BOOLEAN :
         f = [e EXCEPT !.run = [e.run EXCEPT !.edits = edits, !.partial = partial,
                                             !.published = TRUE],
                       !.lines = Append(@, Line("document_finished", e.run.n, FALSE))]
  BY DEF RunPublished
<1>2. /\ e.run # NoRun /\ f.pipe = e.pipe /\ f.channel = e.channel
      /\ f.run = [e.run EXCEPT !.edits = edits, !.partial = partial, !.published = TRUE]
      /\ f.lines = Append(e.lines, Line("document_finished", e.run.n, FALSE))
      /\ f.configure = e.configure /\ f.life = e.life /\ f.eof = e.eof
      /\ f.cancelled = e.cancelled
  BY <1>1 DEF RunPublished, Engines
<1>3. e.run \in Runs /\ e.run.n \in Nat
  BY EngineFields
<1>4. f.run.doc = e.run.doc /\ f.run.n = e.run.n /\ f.run.published = TRUE
  BY <1>2, <1>3 DEF Runs
<1>5. f.run # NoRun
  BY <1>4 DEF NoRun
<1>6. Adds(e, f, "document_finished", e.run.n, FALSE)
  BY <1>2, <1>3, AddsLine
<1> QED
  BY <1>2, <1>4, <1>5, <1>6

LEMMA RunFinishedFields ==
    ASSUME NEW e \in Engines, NEW f \in Engines, RunFinished(e, f)
    PROVE  /\ e.run # NoRun /\ f.run = NoRun /\ f.pipe = e.pipe /\ f.channel = e.channel
           /\ f.configure = e.configure /\ f.life = e.life /\ f.eof = e.eof
           /\ f.cancelled = FALSE
           /\ \E ok \in BOOLEAN : (ok => e.run.published) /\ Adds(e, f, "run_finished", e.run.n, ok)
<1>1. PICK ok \in BOOLEAN :
         /\ ok => e.run.published
         /\ f = [e EXCEPT !.run = NoRun, !.cancelled = FALSE, !.retained = KeptOf(e),
                          !.lines = Append(@, Line("run_finished", e.run.n, ok))]
  BY DEF RunFinished
<1>2. /\ f.run = NoRun /\ f.pipe = e.pipe /\ f.channel = e.channel
      /\ f.lines = Append(e.lines, Line("run_finished", e.run.n, ok))
      /\ f.configure = e.configure /\ f.life = e.life /\ f.eof = e.eof
      /\ f.cancelled = FALSE
  BY <1>1 DEF Engines
<1>3. e.run.n \in Nat
  BY EngineFields
<1>4. Adds(e, f, "run_finished", e.run.n, ok)
  BY <1>2, <1>3, AddsLine
<1> QED
  BY <1>1, <1>2, <1>4 DEF RunFinished

LEMMA EndedFields ==
    ASSUME NEW e, NEW f, Ended(e, f)
    PROVE  /\ f.life = "dead" /\ f.run = NoRun /\ f.pipe = <<>> /\ f.channel = <<>>
           /\ f.lines = e.lines
  BY DEF Ended, NoEngine

-----------------------------------------------------------------------------
(* Steps of an engine keep what the main process relies on *)

\* What an engine that goes on living does in one step.
Moves(e, f) ==
    \/ CancelRead(e, f) \/ RequestRead(e, f) \/ EofRead(e, f)
    \/ ConfigureTaken(e, f) \/ EditTaken(e, f)
    \/ RunTaken(e, f) \/ RunMissed(e, f) \/ PagesTaken(e, f) \/ FellBack(e, f)
    \/ RunPublished(e, f) \/ RunFinished(e, f)

\* An engine that was told its configuration never refuses a run.
LEMMA MoveBase ==
    ASSUME NEW e \in Engines, NEW f \in Engines, Moves(e, f), First(e),
           NEW n \in Nat, Bounded(e, n)
    PROVE  First(f) /\ Bounded(f, n) /\ (Told(e) => Told(f)) /\ f.life = e.life
<1>1. CASE CancelRead(e, f)
  BY <1>1, CancelReadFields DEF First, Told, Bounded
<1>2. CASE RequestRead(e, f)
  BY <1>2, RequestReadFields DEF First, Told, Bounded
<1>3. CASE EofRead(e, f)
  BY <1>3, EofReadFields DEF First, Told, Bounded
<1>4. CASE ConfigureTaken(e, f)
  <2>1. /\ f.configure = TRUE /\ f.pipe = e.pipe /\ ToSet(f.channel) \subseteq ToSet(e.channel)
        /\ f.run = e.run /\ f.lines = e.lines /\ f.life = e.life
    BY <1>4, TakenFields, ConfigureTakenFields
  <2> QED
    BY <2>1 DEF First, Told, Bounded
<1>5. CASE EditTaken(e, f)
  BY <1>5, TakenFields, EditTakenFields DEF First, Told, Bounded
<1>6. CASE RunTaken(e, f)
  <2> DEFINE m == Head(e.channel)
             l == Line("run_started", m.n, FALSE)
  <2>1. /\ f.configure /\ f.pipe = e.pipe /\ ToSet(f.channel) \subseteq ToSet(e.channel)
        /\ m \in ToSet(e.channel) /\ m.n \in Nat /\ f.run.n = m.n /\ f.life = e.life
    BY <1>6, TakenFields, RunTakenFields
  <2>2. ToSet(f.lines) = ToSet(e.lines) \cup {l} /\ l.n = m.n
    BY <1>6, RunTakenFields DEF Adds
  <2> HIDE DEF m, l
  <2> QED
    BY <2>1, <2>2 DEF First, Told, Bounded
<1>9. CASE RunMissed(e, f)
  <2> DEFINE m == Head(e.channel)
             l == Line("run_finished", m.n, FALSE)
  <2>1. /\ f.configure /\ f.pipe = e.pipe /\ ToSet(f.channel) \subseteq ToSet(e.channel)
        /\ m \in ToSet(e.channel) /\ f.life = e.life
    BY <1>9, TakenFields, RunMissedFields
  <2>2. ToSet(f.lines) = ToSet(e.lines) \cup {l} /\ l.n = m.n
    BY <1>9, RunMissedFields DEF Adds
  <2>3. f.run.n = 0
    <3>1. f.run = NoRun
      BY <1>9, RunMissedFields
    <3> QED
      BY <3>1 DEF NoRun
  <2> HIDE DEF m, l
  <2> QED
    BY <2>1, <2>2, <2>3 DEF First, Told, Bounded
<1>10. CASE PagesTaken(e, f)
  <2>1. /\ f.configure /\ f.pipe = e.pipe /\ ToSet(f.channel) \subseteq ToSet(e.channel)
        /\ f.run.n = Head(e.channel).n /\ Head(e.channel) \in ToSet(e.channel)
        /\ f.lines = e.lines /\ f.life = e.life
    BY <1>10, TakenFields, PagesTakenFields
  <2> QED
    BY <2>1 DEF First, Told, Bounded
<1>11. CASE FellBack(e, f)
  BY <1>11, FellBackFields, ZenonT(60) DEF First, Told, Bounded, Adds
<1>7. CASE RunPublished(e, f)
  BY <1>7, RunPublishedFields, ZenonT(60) DEF First, Told, Bounded, Adds
<1>8. CASE RunFinished(e, f)
  <2>1. PICK ok \in BOOLEAN : Adds(e, f, "run_finished", e.run.n, ok)
    BY <1>8, RunFinishedFields
  <2> DEFINE l == Line("run_finished", e.run.n, ok)
  <2>2. ToSet(f.lines) = ToSet(e.lines) \cup {l} /\ l.n = e.run.n
    BY <2>1 DEF Adds
  <2>3. /\ f.configure = e.configure /\ f.pipe = e.pipe /\ f.channel = e.channel
        /\ f.run = NoRun /\ f.life = e.life
    BY <1>8, RunFinishedFields
  <2>4. f.run.n = 0
    BY <2>3 DEF NoRun
  <2> HIDE DEF l
  <2> QED
    BY <2>2, <2>3, <2>4 DEF First, Told, Bounded
<1> QED
  BY <1>1, <1>2, <1>3, <1>4, <1>5, <1>6, <1>7, <1>8, <1>9, <1>10, <1>11 DEF Moves

LEMMA NoRefusal ==
    ASSUME NEW e \in Engines, NEW f \in Engines, First(e) PROVE ~RunRefused(e, f)
<1>1. e.channel \in Seq(Messages) /\ e.configure \in BOOLEAN
  BY EngineFields
<1> QED
  BY <1>1, TailSet DEF First, RunRefused, RunNext

LEMMA EmptyBase ==
    ASSUME NEW n \in Nat
    PROVE  /\ Bounded(NoEngine, n)
           /\ \A b \in BOOLEAN : /\ Bounded(Spawned(b), n) /\ First(Spawned(b))
                                 /\ b => Told(Spawned(b))
                                 /\ \A m \in ToSet(Spawned(b).pipe) : m.type = "configure"
           /\ \A e, f : Ended(e, f) /\ Bounded(e, n) => Bounded(f, n)
<1>1. ToSet(<<>>) = {} /\ NoRun.n = 0
  BY EmptySet DEF NoRun
<1>2. /\ NoEngine.run = NoRun /\ NoEngine.pipe = <<>> /\ NoEngine.channel = <<>> /\ NoEngine.lines = <<>>
  BY DEF NoEngine
<1>3. Bounded(NoEngine, n)
  BY <1>1, <1>2 DEF Bounded
<1>4. Configure \in Messages /\ Configure.n = 0 /\ Configure.type = "configure"
  BY DEF Configure, Message, Messages
<1>5. ToSet(<<Configure>>) = {Configure} /\ <<Configure>>[1] = Configure /\ <<Configure>> # <<>>
  <2>1. DOMAIN <<Configure>> = {1} /\ <<Configure>>[1] = Configure /\ <<Configure>> # <<>>
    OBVIOUS
  <2> QED
    BY <2>1 DEF ToSet
<1>6. ASSUME NEW b \in BOOLEAN
      PROVE  /\ Bounded(Spawned(b), n) /\ First(Spawned(b)) /\ (b => Told(Spawned(b)))
             /\ \A m \in ToSet(Spawned(b).pipe) : m.type = "configure"
  BY <1>1, <1>4, <1>5, NoEngineType DEF Bounded, First, Told
<1>7. ASSUME NEW e, NEW f, Ended(e, f), Bounded(e, n) PROVE Bounded(f, n)
  BY <1>1, <1>7, EndedFields DEF Bounded
<1> QED
  BY <1>3, <1>6, <1>7

-----------------------------------------------------------------------------
(* Every action keeps the base invariant *)

LEMMA BaseInit == Init => BaseInv
<1> SUFFICES ASSUME Init PROVE BaseInv
  OBVIOUS
<1>1. \A c \in Children : engine[c] = NoEngine
  BY DEF Init
<1>2. NoEngine.life = "none" /\ sidecar = NoSidecar
  BY DEF NoEngine, Init
<1>3. LifeInv
  BY <1>1, <1>2 DEF LifeInv, Has, Init, NoSidecar
<1>4. SidecarInv
  BY DEF SidecarInv, Init, NoSidecar
<1>5. QueueInv
  BY DEF QueueInv, Init
<1>6. ConfInv
  BY <1>1, <1>2 DEF ConfInv, Alive, Init, NoSidecar
<1>7. NumInv
  BY <1>1, EmptyBase DEF NumInv, Init
<1> QED
  BY TypeInit, <1>3, <1>4, <1>5, <1>6, <1>7 DEF BaseInv

\* One step of an engine, without the reason.
LEMMA EngineSteps ==
    ASSUME BaseInv, NEW c \in Children, Reader(c) \/ MainLoop(c) \/ Publish(c) \/ EngineEnd(c)
    PROVE  /\ Only(c)
           /\ Moves(engine[c], engine'[c]) \/ Ended(engine[c], engine'[c])
<1> TypeOK
  BY DEF BaseInv, TypeInv
<1>1. CASE Reader(c)
  BY <1>1, ReadCancelStep, ReadStep, ReadEofStep DEF Reader, Moves
<1>2. CASE MainLoop(c) /\ ~TakeRun(c)
  BY <1>2, TakeConfigureStep, TakeEditStep, TakePagesStep, FallBackStep, FinishStep
     DEF MainLoop, Moves
<1>3. CASE TakeRun(c)
  <2>1. /\ Only(c)
        /\ \/ RunTaken(engine[c], engine'[c]) \/ RunMissed(engine[c], engine'[c])
           \/ RunRefused(engine[c], engine'[c])
    BY <1>3, TakeRunStep
  <2>2. ~RunRefused(engine[c], engine'[c])
    BY <2>1, NoRefusal DEF BaseInv, ConfInv, Only
  <2> QED
    BY <2>1, <2>2 DEF Moves
<1>4. CASE Publish(c)
  BY <1>4, PublishStep DEF Moves
<1>5. CASE EngineEnd(c)
  BY <1>5, EngineEndStep
<1> QED
  BY <1>1, <1>2, <1>3, <1>4, <1>5

LEMMA EngineBaseNext ==
    ASSUME BaseInv, NEW c \in Children, Reader(c) \/ MainLoop(c) \/ Publish(c) \/ EngineEnd(c)
    PROVE  BaseInv'
<1>1. TypeInv'
  BY EngineTypeNext DEF BaseInv
<1>2. /\ Only(c)
      /\ Moves(engine[c], engine'[c]) \/ Ended(engine[c], engine'[c])
  BY EngineSteps
<1>3. /\ UNCHANGED <<app, status, published, queue, current, pending, configured, sidecar,
                     request, asked, strayed, disowned>>
      /\ engine[c] \in Engines /\ engine'[c] \in Engines /\ engine[c].life = "alive"
      /\ \A b \in Children : b # c => engine'[b] = engine[b]
      /\ request \in Nat
  <2>1. UNCHANGED <<app, status, published, queue, current, pending, configured, sidecar,
                    request, asked, strayed, disowned>>
    BY <1>2 DEF Only, EngineOnly, main
  <2>2. request \in Nat
    BY DEF BaseInv, TypeInv, TypeOK
  <2> QED
    BY <1>2, <2>1, <2>2 DEF Only, Alive
<1>4. First(engine[c]) /\ Bounded(engine[c], request)
  BY <1>3 DEF BaseInv, ConfInv, NumInv, Alive
<1>5. CASE Moves(engine[c], engine'[c])
  <2>1. /\ First(engine'[c]) /\ Bounded(engine'[c], request) /\ engine'[c].life = "alive"
        /\ Told(engine[c]) => Told(engine'[c])
    BY <1>3, <1>4, <1>5, MoveBase
  <2>2. \A b \in Children : engine'[b].life = engine[b].life
    BY <1>3, <2>1
  <2>3. app # "down"
    BY <1>3 DEF BaseInv, LifeInv, NoEngine
  <2>4. LifeInv'
    BY <1>3, <2>2, <2>3 DEF BaseInv, TypeInv, TypeOK, Sidecars, LifeInv, Has
  <2>5. ConfInv'
    BY <1>3, <2>1, <2>2 DEF BaseInv, TypeInv, TypeOK, Sidecars, ConfInv, Alive
  <2>6. NumInv'
    BY <1>3, <2>1 DEF BaseInv, NumInv
  <2> QED
    BY <1>1, <1>3, <2>4, <2>5, <2>6 DEF BaseInv, SidecarInv, QueueInv
<1>6. CASE Ended(engine[c], engine'[c])
  <2>1. engine'[c].life = "dead" /\ Bounded(engine'[c], request)
    BY <1>3, <1>4, <1>6, EndedFields, EmptyBase
  <2>3. app # "down"
    BY <1>3 DEF BaseInv, LifeInv, NoEngine
  <2>4. LifeInv'
    BY <1>3, <2>1, <2>3 DEF BaseInv, TypeInv, TypeOK, Sidecars, LifeInv, Has
  <2>5. ConfInv'
    BY <1>3, <2>1 DEF BaseInv, TypeInv, TypeOK, Sidecars, ConfInv, Alive
  <2>6. NumInv'
    BY <1>3, <2>1 DEF BaseInv, NumInv
  <2> QED
    BY <1>1, <1>3, <2>4, <2>5, <2>6 DEF BaseInv, SidecarInv, QueueInv
<1> QED
  BY <1>2, <1>5, <1>6

\* What pump does with the statuses, queue, edits and engines a handler left.
PumpStays(st, q, cur, pend, eng) ==
    /\ cur # None \/ q = <<>>
    /\ status' = st /\ queue' = q /\ current' = cur /\ pending' = pend /\ engine' = eng
    /\ UNCHANGED <<configured, sidecar, request, asked>>

PumpFails(st, q, cur, pend, eng) ==
    /\ cur = None /\ q # <<>>
    /\ sidecar.state = "running" /\ sidecar.child = None
    /\ status' = FailAll(st, q) /\ queue' = <<>> /\ current' = None
    /\ pending' = pend /\ engine' = eng
    /\ UNCHANGED <<configured, sidecar, request, asked>>

\* The process that gets the requests: the child, or a new one.
Receives(eng, c, base, known) ==
    \/ /\ sidecar.state = "running" /\ sidecar.child = c /\ base = eng[c] /\ known = configured
       /\ sidecar'.stopped = sidecar.stopped
    \/ /\ sidecar.state # "running" /\ known = FALSE /\ sidecar'.stopped = FALSE
       /\ base = Spawned(sidecar.lastConfigure)

PumpSends(st, q, cur, pend, eng, c, base, known) ==
    /\ cur = None /\ q # <<>> /\ Head(q) \in Docs
    /\ c \in Children /\ base \in Engines /\ known \in BOOLEAN
    /\ Receives(eng, c, base, known)
    /\ sidecar'.state = "running" /\ sidecar'.child = c /\ sidecar'.timer = sidecar.timer
    /\ status' = [st EXCEPT ![Head(q)] = "running"] /\ pending' = [pend EXCEPT ![Head(q)] = 0]
    /\ queue' = Tail(q) /\ current' = Head(q) /\ configured' = TRUE
    /\ request' = request + 1 /\ asked' = [asked EXCEPT ![Head(q)] = request + 1]
    /\ Requests(Head(q), pend[Head(q)], known) \in Seq(Messages)
    /\ engine'[c] = [base EXCEPT !.pipe = @ \o Requests(Head(q), pend[Head(q)], known)]
    /\ \A b \in Children : b # c => engine'[b] = eng[b]

LEMMA PumpCases ==
    ASSUME TypeOK,
           NEW st \in [Docs -> Statuses], NEW q \in Seq(Docs), Waits(st, q),
           NEW cur \in Docs \cup {None},
           NEW pend \in [Docs -> Nat], NEW eng \in [Children -> Engines],
           Pump(st, q, cur, pend, eng)
    PROVE  \/ PumpStays(st, q, cur, pend, eng)
           \/ PumpFails(st, q, cur, pend, eng)
           \/ \E c \in Children, base \in Engines, known \in BOOLEAN :
                 PumpSends(st, q, cur, pend, eng, c, base, known)
<1>1. CASE cur # None \/ q = <<>>
  BY <1>1 DEF Pump, PumpStays
<1>2. CASE cur = None /\ q # <<>> /\ sidecar.state = "running" /\ sidecar.child = None
  BY <1>2 DEF Pump, PumpFails
<1>s. ASSUME cur = None, q # <<>>, NEW new \in [Children -> Engines], NEW c \in Children, NEW known \in BOOLEAN,
             SendNext(st, q, pend, new, c, known),
             \A b \in Children : b # c => new[b] = eng[b],
             Receives(eng, c, new[c], known),
             sidecar'.state = "running" /\ sidecar'.child = c /\ sidecar'.timer = sidecar.timer
      PROVE  PumpSends(st, q, cur, pend, eng, c, new[c], known)
  <2> DEFINE d == Head(q)
             r == Requests(d, pend[d], known)
  <2>1. d \in Docs
    BY <1>s, TailQueue DEF Waits
  <2>2. r \in Seq(Messages)
    BY <2>1, RequestsType DEF TypeOK
  <2>3. /\ status' = [st EXCEPT ![d] = "running"] /\ pending' = [pend EXCEPT ![d] = 0]
        /\ queue' = Tail(q) /\ current' = d /\ configured' = TRUE
        /\ request' = request + 1 /\ asked' = [asked EXCEPT ![d] = request + 1]
        /\ engine' = [new EXCEPT ![c].pipe = @ \o r]
    BY <1>s DEF SendNext
  <2> HIDE DEF d, r
  <2>4. engine'[c] = [new[c] EXCEPT !.pipe = @ \o r]
    BY <2>3 DEF Engines
  <2>5. \A b \in Children : b # c => engine'[b] = eng[b]
    BY <1>s, <2>3
  <2>6. new[c] \in Engines
    BY <1>s
  <2> QED
    BY <1>s, <2>1, <2>2, <2>3, <2>4, <2>5, <2>6 DEF PumpSends, d, r
<1>3. CASE cur = None /\ q # <<>> /\ sidecar.state = "running" /\ sidecar.child # None
  <2> DEFINE c == sidecar.child
  <2>1. /\ SendNext(st, q, pend, eng, c, configured)
        /\ sidecar' = [sidecar EXCEPT !.lastConfigure = TRUE]
    BY <1>3 DEF Pump
  <2>2. c \in Children /\ configured \in BOOLEAN
    BY <1>3 DEF TypeOK, Sidecars
  <2>3. /\ sidecar'.state = "running" /\ sidecar'.child = c /\ sidecar'.timer = sidecar.timer
        /\ sidecar'.stopped = sidecar.stopped
    BY <1>3, <2>1 DEF TypeOK, Sidecars
  <2>4. Receives(eng, c, eng[c], configured)
    BY <1>3, <2>3 DEF Receives
  <2> HIDE DEF c
  <2>5. PumpSends(st, q, cur, pend, eng, c, eng[c], configured)
    BY <1>3, <1>s, <2>1, <2>2, <2>3, <2>4
  <2>6. eng[c] \in Engines
    BY <2>2
  <2> QED
    BY <2>2, <2>5, <2>6
<1>4. CASE cur = None /\ q # <<>> /\ sidecar.state # "running"
  <2> DEFINE c == FreeSlot
             new == [eng EXCEPT ![c] = Spawned(sidecar.lastConfigure)]
  <2>1. /\ SlotFree
        /\ SendNext(st, q, pend, new, c, FALSE)
        /\ sidecar' = [sidecar EXCEPT !.state = "running", !.child = c, !.stopped = FALSE,
                                      !.lastConfigure = TRUE]
    BY <1>4 DEF Pump
  <2>2. c \in Children
    BY <2>1, FreeSlotType
  <2>3. Spawned(sidecar.lastConfigure) \in Engines
    BY NoEngineType DEF TypeOK, Sidecars
  <2>4. /\ new \in [Children -> Engines] /\ new[c] = Spawned(sidecar.lastConfigure)
        /\ \A b \in Children : b # c => new[b] = eng[b]
    BY <2>2, <2>3
  <2>5. /\ sidecar'.state = "running" /\ sidecar'.child = c /\ sidecar'.timer = sidecar.timer
        /\ sidecar'.stopped = FALSE
    BY <2>1 DEF TypeOK, Sidecars
  <2> HIDE DEF new, c
  <2>6. Receives(eng, c, new[c], FALSE)
    BY <1>4, <2>4, <2>5 DEF Receives
  <2>7. PumpSends(st, q, cur, pend, eng, c, new[c], FALSE)
    BY <1>4, <1>s, <2>1, <2>2, <2>4, <2>5, <2>6
  <2>8. new[c] \in Engines
    BY <2>2, <2>4
  <2> QED
    BY <2>2, <2>7, <2>8
<1> QED
  BY <1>1, <1>2, <1>3, <1>4

\* The lines of some engines lost their first, and nothing else changed.
Drained(eng) ==
    \A c \in Children : \/ eng[c] = engine[c]
                        \/ /\ engine[c].lines # <<>>
                           /\ eng[c] = [engine[c] EXCEPT !.lines = Tail(@)]

LEMMA DrainedFields ==
    ASSUME TypeOK, NEW eng, Drained(eng), NEW c \in Children
    PROVE  /\ eng[c].life = engine[c].life /\ eng[c].pipe = engine[c].pipe
           /\ eng[c].channel = engine[c].channel /\ eng[c].configure = engine[c].configure
           /\ eng[c].run = engine[c].run /\ eng[c].cancelled = engine[c].cancelled
           /\ eng[c].eof = engine[c].eof /\ eng[c].open = engine[c].open
           /\ eng[c].retained = engine[c].retained /\ eng[c].edited = engine[c].edited
           /\ ToSet(eng[c].lines) \subseteq ToSet(engine[c].lines)
<1>1. engine[c] \in Engines /\ engine[c].lines \in Seq(Lines)
  BY EngineFields DEF TypeOK
<1>2. CASE eng[c] = engine[c]
  BY <1>2
<1>3. CASE engine[c].lines # <<>> /\ eng[c] = [engine[c] EXCEPT !.lines = Tail(@)]
  <2>1. /\ eng[c].life = engine[c].life /\ eng[c].pipe = engine[c].pipe
        /\ eng[c].channel = engine[c].channel /\ eng[c].configure = engine[c].configure
        /\ eng[c].run = engine[c].run /\ eng[c].cancelled = engine[c].cancelled
        /\ eng[c].eof = engine[c].eof /\ eng[c].open = engine[c].open
        /\ eng[c].retained = engine[c].retained /\ eng[c].edited = engine[c].edited
        /\ eng[c].lines = Tail(engine[c].lines)
    BY <1>1, <1>3 DEF Engines
  <2>2. ToSet(Tail(engine[c].lines)) \subseteq ToSet(engine[c].lines)
    BY <1>1, <1>3, TailSet
  <2> QED
    BY <2>1, <2>2
<1> QED
  BY <1>2, <1>3 DEF Drained

LEMMA DrainedBase ==
    ASSUME BaseInv, NEW eng, Drained(eng), NEW c \in Children
    PROVE  /\ eng[c].life = engine[c].life
           /\ Bounded(eng[c], request)
           /\ eng[c].life = "alive" => First(eng[c])
           /\ Told(engine[c]) => Told(eng[c])
<1>1. TypeOK /\ Bounded(engine[c], request) /\ (engine[c].life = "alive" => First(engine[c]))
  BY DEF BaseInv, TypeInv, NumInv, ConfInv, Alive
<1>2. /\ eng[c].life = engine[c].life /\ eng[c].pipe = engine[c].pipe
      /\ eng[c].channel = engine[c].channel /\ eng[c].configure = engine[c].configure
      /\ eng[c].run = engine[c].run /\ ToSet(eng[c].lines) \subseteq ToSet(engine[c].lines)
  BY <1>1, DrainedFields
<1> QED
  BY <1>1, <1>2 DEF Bounded, First, Told

GotRequests(base, f, d, edits, known) ==
    f = [base EXCEPT !.pipe = @ \o Requests(d, edits, known)]

\* The engine that gets a run request: its configuration is ahead of it.
LEMMA ReceiverBase ==
    ASSUME request \in Nat, NEW base \in Engines, NEW f \in Engines, NEW d \in Docs,
           NEW edits \in Nat, NEW known \in BOOLEAN,
           GotRequests(base, f, d, edits, known),
           Bounded(base, request)
    PROVE  /\ f.life = base.life /\ f.channel = base.channel /\ f.configure = base.configure
           /\ f.run = base.run /\ f.lines = base.lines /\ f.cancelled = base.cancelled
           /\ f.eof = base.eof
           /\ Bounded(f, request + 1)
           /\ Told(f)
           /\ First(base) /\ (known => Told(base)) => First(f)
<1> DEFINE r == Requests(d, edits, known)
           p == base.pipe
<1>1. /\ f.life = base.life /\ f.channel = base.channel /\ f.configure = base.configure
      /\ f.run = base.run /\ f.lines = base.lines /\ f.cancelled = base.cancelled
      /\ f.eof = base.eof /\ f.pipe = p \o r
  BY DEF Engines, GotRequests
<1>a. /\ r \in Seq(Messages)
      /\ Len(r) = (IF known THEN 0 ELSE 1) + edits + 1
      /\ r[Len(r)] = Message("run", d, request + 1)
      /\ ~known => r[1] = Configure
      /\ \A i \in 1..(Len(r) - 1) : r[i] \in {Configure, Message("edit", d, 0)}
  BY RequestsType
<1>b. Len(r) \in Nat /\ Len(r) # 0
  <2> HIDE DEF r
  <2>1. Len(r) \in Nat
    BY <1>a
  <2> QED
    BY <1>a, <2>1
<1>2. /\ r \in Seq(Messages) /\ Len(r) \in Nat \ {0}
      /\ r[Len(r)] = Message("run", d, request + 1)
      /\ \A i \in 1..(Len(r) - 1) : r[i] \in {Configure, Message("edit", d, 0)}
      /\ ~known => r[1] = Configure
  BY <1>a, <1>b
<1>3. p \in Seq(Messages)
  BY EngineFields
<1>4. base.run.n \in Nat /\ \A m \in Messages : m.n \in Nat
  BY EngineFields DEF Messages
<1>5. Message("run", d, request + 1).n = request + 1 /\ Configure.n = 0 /\ Message("edit", d, 0).n = 0
      /\ Configure.type = "configure"
  BY DEF Message, Configure
<1> HIDE DEF r, p
<1>6. /\ f.pipe \in Seq(Messages) /\ Len(p) \in Nat /\ Len(f.pipe) = Len(p) + Len(r)
      /\ \A i \in 1..Len(p) : f.pipe[i] = p[i]
      /\ \A i \in 1..Len(r) : f.pipe[Len(p) + i] = r[i]
      /\ ToSet(f.pipe) = ToSet(p) \cup ToSet(r)
  <2>1. p \in Seq(Messages) /\ r \in Seq(Messages)
    BY <1>2, <1>3
  <2>2. /\ p \o r \in Seq(Messages) /\ Len(p) \in Nat /\ Len(r) \in Nat
        /\ Len(p \o r) = Len(p) + Len(r)
        /\ \A i \in 1..Len(p) : (p \o r)[i] = p[i]
        /\ \A i \in 1..Len(r) : (p \o r)[Len(p) + i] = r[i]
        /\ ToSet(p \o r) = ToSet(p) \cup ToSet(r)
    BY <2>1, ConcatSet
  <2> QED
    BY <1>1, <2>2
<1>7. f.pipe # <<>> /\ f.pipe[1] = IF p = <<>> THEN r[1] ELSE p[1]
  <2>1. f.pipe # <<>>
    <3>1. Len(f.pipe) # 0
      BY <1>2, <1>6
    <3> QED
      BY <3>1
  <2>2. CASE p = <<>>
    <3>1. Len(p) = 0
      BY <2>2
    <3>2. 1 \in 1..Len(r)
      BY <1>2
    <3>3. f.pipe[Len(p) + 1] = r[1]
      BY <1>6, <3>2
    <3>4. Len(p) + 1 = 1
      BY <3>1
    <3> QED
      BY <2>1, <2>2, <3>3, <3>4
  <2>3. CASE p # <<>>
    <3>1. Len(p) # 0
      BY <1>3, <2>3, MemberSet
    <3> QED
      BY <1>6, <2>1, <2>3, <3>1
  <2> QED
    BY <2>2, <2>3
<1>8. \A m \in ToSet(r) : m.n <= request + 1
  <2>1. ASSUME NEW i \in 1..Len(r) PROVE r[i].n <= request + 1
    BY <1>2, <1>5
  <2>2. DOMAIN r = 1..Len(r)
    BY <1>2
  <2> QED
    BY <2>1, <2>2 DEF ToSet
<1>9. Bounded(f, request + 1)
  <2>1. base.run.n <= request + 1
    BY <1>4 DEF Bounded
  <2>2. \A m \in ToSet(p) \cup ToSet(base.channel) : m.n <= request + 1
    <3>1. ToSet(p) \subseteq Messages /\ ToSet(base.channel) \subseteq Messages
      BY <1>3, EngineFields, MemberSet
    <3> QED
      BY <1>4, <3>1 DEF Bounded, p
  <2>3. \A l \in ToSet(base.lines) : l.n <= request + 1
    <3>1. ToSet(base.lines) \subseteq Lines
      BY EngineFields, MemberSet
    <3>2. \A l \in Lines : l.n \in Nat
      BY DEF Lines
    <3> QED
      BY <3>1, <3>2 DEF Bounded
  <2> QED
    BY <1>1, <1>6, <1>8, <2>1, <2>2, <2>3 DEF Bounded
<1>10. Told(f)
  BY <1>7 DEF Told
<1>11. ASSUME First(base), known => Told(base) PROVE First(f)
  <2>1. CASE p = <<>> /\ base.channel = <<>>
    BY <1>1, <1>2, <1>5, <1>7, <1>11, <2>1 DEF First, Told, p
  <2>2. CASE ~(p = <<>> /\ base.channel = <<>>)
    BY <1>1, <1>7, <1>11, <2>2 DEF First, p
  <2> QED
    BY <2>1, <2>2
<1> QED
  BY <1>1, <1>9, <1>10, <1>11

LEMMA BoundedMore ==
    ASSUME NEW e \in Engines, NEW n \in Nat, Bounded(e, n) PROVE Bounded(e, n + 1)
<1>1. /\ e.run.n \in Nat /\ \A m \in ToSet(e.pipe) \cup ToSet(e.channel) : m.n \in Nat
      /\ \A l \in ToSet(e.lines) : l.n \in Nat
  <2>1. ToSet(e.pipe) \subseteq Messages /\ ToSet(e.channel) \subseteq Messages /\ ToSet(e.lines) \subseteq Lines
    BY EngineFields, MemberSet
  <2>2. (\A m \in Messages : m.n \in Nat) /\ (\A l \in Lines : l.n \in Nat)
    BY DEF Messages, Lines
  <2> QED
    BY <2>1, <2>2, EngineFields
<1> QED
  BY <1>1 DEF Bounded

\* What a handler with a pump at its end needs for the base invariant.
LEMMA PumpBase ==
    ASSUME BaseInv, TypeInv',
           NEW st \in [Docs -> Statuses], NEW q \in Seq(Docs), Waits(st, q),
           NEW cur \in Docs \cup {None},
           NEW pend \in [Docs -> Nat], NEW eng \in [Children -> Engines], Drained(eng),
           Pump(st, q, cur, pend, eng),
           (app' = app /\ app # "down") \/ (app = "down" /\ app' = "up"),
           disowned' = disowned,
           sidecar.timer => app = "up",
           cur # None => /\ cur = current /\ st[cur] # "done"
                         /\ st[cur] = "absent" => cur \in disowned
    PROVE  BaseInv'
<1>1. TypeOK /\ request \in Nat /\ asked \in [Docs -> Nat] /\ sidecar \in Sidecars
  BY DEF BaseInv, TypeInv, TypeOK
<1>2. \A c \in Children : eng[c].life = engine[c].life
  BY DrainedBase
<1>3. \A c \in Children : eng[c].life = "alive" => First(eng[c])
  BY DrainedBase
<1>4. \A c \in Children : Bounded(eng[c], request)
  BY DrainedBase
<1>5. \A c \in Children : Told(engine[c]) => Told(eng[c])
  BY DrainedBase
<1>k. None \notin Docs /\ None \notin Children
  BY ConstantsAssumption DEF ConstantsAssumption
<1>d. /\ app = "down" => /\ sidecar = NoSidecar /\ current = None
                         /\ \A c \in Children : engine[c].life = "none"
      /\ app' = app \/ (app = "down" /\ app' = "up")
      /\ app' # "down"
  BY DEF BaseInv, LifeInv, NoEngine
<1>n. /\ NoSidecar.state = "stopped" /\ NoSidecar.child = None /\ NoSidecar.timer = FALSE
      /\ NoSidecar.stopped = FALSE
  BY DEF NoSidecar
<1>i. LifeInv /\ SidecarInv /\ QueueInv /\ ConfInv
  BY DEF BaseInv
<1>w. ASSUME engine' = eng, sidecar' = sidecar, request' = request, configured' = configured
      PROVE  LifeInv' /\ ConfInv' /\ NumInv'
  <2>1. \A c \in Children : engine'[c].life = engine[c].life
    BY <1>2, <1>w
  <2>2. sidecar.child = None \/ sidecar.child \in Children
    BY <1>1 DEF Sidecars
  <2>3. LifeInv'
    BY <1>d, <1>n, <1>i, <1>w, <2>1, <2>2 DEF LifeInv, Has
  <2>4. ConfInv'
    BY <1>3, <1>5, <1>i, <1>w, <2>1, <2>2 DEF ConfInv, Alive
  <2>5. NumInv'
    BY <1>4, <1>w DEF NumInv
  <2> QED
    BY <2>3, <2>4, <2>5
<1>6. CASE PumpStays(st, q, cur, pend, eng)
  <2>1. /\ cur # None \/ q = <<>>
        /\ status' = st /\ queue' = q /\ current' = cur /\ engine' = eng
        /\ configured' = configured /\ sidecar' = sidecar /\ request' = request /\ asked' = asked
    BY <1>6 DEF PumpStays
  <2>2. LifeInv' /\ ConfInv' /\ NumInv'
    BY <1>w, <2>1
  <2>3. SidecarInv'
    BY <1>d, <1>n, <1>i, <2>1 DEF SidecarInv
  <2>4. QueueInv'
    BY <1>d, <1>i, <2>1 DEF QueueInv
  <2> QED
    BY <2>2, <2>3, <2>4 DEF BaseInv
<1>7. CASE PumpFails(st, q, cur, pend, eng)
  <2>1. /\ queue' = <<>> /\ current' = None /\ engine' = eng /\ sidecar.state = "running"
        /\ configured' = configured /\ sidecar' = sidecar /\ request' = request
    BY <1>7 DEF PumpFails
  <2>2. LifeInv' /\ ConfInv' /\ NumInv'
    BY <1>w, <2>1
  <2>3. SidecarInv'
    BY <1>d, <1>n, <1>i, <2>1 DEF SidecarInv
  <2>4. QueueInv'
    BY <2>1 DEF QueueInv
  <2> QED
    BY <2>2, <2>3, <2>4 DEF BaseInv
<1>8. ASSUME NEW c \in Children, NEW base \in Engines, NEW known \in BOOLEAN,
             PumpSends(st, q, cur, pend, eng, c, base, known)
      PROVE  BaseInv'
  <2> DEFINE d == Head(q)
             f == engine'[c]
  <2>1. /\ cur = None /\ q # <<>> /\ d \in Docs
        /\ Receives(eng, c, base, known)
        /\ sidecar'.state = "running" /\ sidecar'.child = c /\ sidecar'.timer = sidecar.timer
        /\ status' = [st EXCEPT ![d] = "running"]
        /\ queue' = Tail(q) /\ current' = d /\ configured' = TRUE
        /\ request' = request + 1 /\ asked' = [asked EXCEPT ![d] = request + 1]
        /\ f = [base EXCEPT !.pipe = @ \o Requests(d, pend[d], known)]
        /\ \A b \in Children : b # c => engine'[b] = eng[b]
    BY <1>8 DEF PumpSends
  <2> HIDE DEF d, f
  <2>2. pend[d] \in Nat /\ c # None /\ d # None
    BY <1>k, <2>1
  <2>3. \/ /\ sidecar.state = "running" /\ sidecar.child = c /\ base = eng[c] /\ known = configured
           /\ sidecar'.stopped = sidecar.stopped
        \/ /\ sidecar.state # "running" /\ known = FALSE /\ sidecar'.stopped = FALSE
           /\ base = Spawned(sidecar.lastConfigure)
    BY <2>1 DEF Receives
  <2>4. f \in Engines
    BY DEF TypeInv, TypeOK, f
  <2>5. sidecar.lastConfigure \in BOOLEAN /\ Spawned(sidecar.lastConfigure).life = "alive"
    BY <1>1, NoEngineType DEF Sidecars
  <2>6. Bounded(base, request)
    BY <1>1, <1>4, <2>3, <2>5, EmptyBase
  <2>7. /\ f.life = base.life
        /\ Bounded(f, request + 1)
        /\ Told(f)
        /\ First(base) /\ (known => Told(base)) => First(f)
    <3> DEFINE edits == pend[d]
    <3>1. edits \in Nat /\ d \in Docs /\ GotRequests(base, f, d, edits, known)
      BY <2>1, <2>2 DEF GotRequests
    <3> HIDE DEF edits
    <3>2. request \in Nat /\ f \in Engines /\ Bounded(base, request)
      BY <1>1, <2>4, <2>6
    <3> QED
      BY <3>1, <3>2, ReceiverBase
  <2>8. ~sidecar.timer
    BY <1>i, <2>2, <2>3 DEF SidecarInv
  <2>9. SidecarInv'
    BY <1>d, <1>n, <1>i, <2>1, <2>3, <2>8 DEF SidecarInv
  <2>10. QueueInv'
    <3>1. asked'[d] = request' /\ status'[d] = "running"
      BY <1>1, <2>1
    <3> QED
      BY <2>1, <2>2, <3>1 DEF QueueInv
  <2>11. \A b \in Children : b # c => engine'[b].life = engine[b].life
    BY <1>2, <2>1
  <2>12. LifeInv'
    <3>1. f.life \in {"alive", "dead"}
      BY <1>2, <1>i, <2>2, <2>3, <2>5, <2>7 DEF LifeInv, Has
    <3>2. ASSUME app' = "up" \/ sidecar'.stopped, NEW b \in Children, b # c
          PROVE  engine[b].life \notin {"alive", "dead"}
      <4>1. CASE sidecar.state = "running"
        BY <1>d, <1>n, <1>i, <2>3, <3>2, <4>1 DEF LifeInv, Has
      <4>2. CASE sidecar.state # "running" /\ app = "down"
        BY <1>d, <4>2
      <4>3. CASE sidecar.state # "running" /\ app # "down"
        <5>1. app = "up"
          BY <1>d, <2>3, <3>2, <4>3
        <5>2. sidecar.child = None
          BY <1>1, <1>i, <4>3, <5>1 DEF SidecarInv, Sidecars
        <5> QED
          BY <1>i, <1>k, <5>1, <5>2 DEF LifeInv, Has
      <4> QED
        BY <4>1, <4>2, <4>3
    <3> QED
      BY <1>d, <2>1, <2>11, <3>1, <3>2 DEF LifeInv, Has, f
  <2>13. ConfInv'
    <3>1. ASSUME f.life = "alive" PROVE First(f)
      <4>1. CASE sidecar.state = "running"
        <5>1. base = eng[c] /\ engine[c].life = "alive" /\ sidecar.child = c /\ known = configured
          BY <1>2, <2>3, <2>7, <3>1, <4>1
        <5>2. First(base) /\ (known => Told(base))
          BY <1>3, <1>5, <1>i, <2>2, <2>7, <3>1, <5>1 DEF ConfInv, Alive
        <5> QED
          BY <2>7, <5>2
      <4>2. CASE sidecar.state # "running"
        BY <1>1, <2>3, <2>5, <2>7, <4>2, EmptyBase
      <4> QED
        BY <4>1, <4>2
    <3>2. ASSUME NEW b \in Children, b # c, engine'[b].life = "alive" PROVE First(engine'[b])
      BY <1>3, <2>1, <3>2
    <3> QED
      BY <2>1, <2>7, <3>1, <3>2 DEF ConfInv, Alive, f
  <2>14. NumInv'
    <3>1. ASSUME NEW b \in Children, b # c PROVE Bounded(engine'[b], request + 1)
      <4>1. engine'[b] = eng[b] /\ Bounded(eng[b], request) /\ eng[b] \in Engines
        BY <1>4, <2>1, <3>1
      <4> QED
        BY <1>1, <4>1, BoundedMore
    <3> QED
      BY <2>1, <2>7, <3>1 DEF NumInv, f
  <2> QED
    BY <2>9, <2>10, <2>12, <2>13, <2>14 DEF BaseInv
<1> QED
  BY <1>1, <1>6, <1>7, <1>8, PumpCases

\* A handler that changes statuses and the rest of the queue, or takes a line.
LEMMA QuietBase ==
    ASSUME BaseInv, TypeInv', Drained(engine'),
           UNCHANGED <<app, sidecar, configured, request, asked, current>>,
           disowned \subseteq disowned',
           current = None => queue' = queue,
           current # None => /\ status'[current] # "done"
                             /\ status'[current] = "absent" => current \in disowned',
           app = "down" => engine' = engine
    PROVE  BaseInv'
<1>1. /\ app' = app /\ sidecar' = sidecar /\ configured' = configured /\ request' = request
      /\ asked' = asked /\ current' = current
  OBVIOUS
<1>2. \A c \in Children : /\ engine'[c].life = engine[c].life
                          /\ Bounded(engine'[c], request)
                          /\ engine'[c].life = "alive" => First(engine'[c])
                          /\ Told(engine[c]) => Told(engine'[c])
  BY DrainedBase
<1>3. sidecar.child = None \/ sidecar.child \in Children
  BY DEF BaseInv, TypeInv, TypeOK, Sidecars
<1>4. LifeInv'
  BY <1>1, <1>2, <1>3 DEF BaseInv, LifeInv, Has
<1>5. SidecarInv'
  BY <1>1 DEF BaseInv, SidecarInv
<1>6. QueueInv'
  BY <1>1 DEF BaseInv, QueueInv
<1>7. ConfInv'
  BY <1>1, <1>2, <1>3 DEF BaseInv, ConfInv, Alive
<1>8. NumInv'
  BY <1>1, <1>2 DEF NumInv
<1> QED
  BY <1>4, <1>5, <1>6, <1>7, <1>8 DEF BaseInv

LEMMA SameDrained == Drained(engine)
  BY DEF Drained

LEMMA AddPaperBase == ASSUME BaseInv, NEW d \in Docs, AddPaper(d) PROVE BaseInv'
<1>1. TypeInv'
  BY AddPaperType DEF BaseInv
<1>2. /\ app = "up" /\ app' = app /\ disowned' = disowned /\ status[d] = "absent"
      /\ ~Queued(d)
  BY AbsentWaits DEF AddPaper, Ask, BaseInv
<1>3. /\ status \in [Docs -> Statuses] /\ pending \in [Docs -> Nat] /\ current \in Docs \cup {None}
      /\ engine \in [Children -> Engines] /\ TypeInv
      /\ current # None => /\ status[current] # "done"
                           /\ status[current] = "absent" => current \in disowned
  BY DEF BaseInv, TypeInv, TypeOK, QueueInv
<1>4. CASE /\ current = d /\ status' = [status EXCEPT ![d] = "new"]
           /\ UNCHANGED <<queue, current, pending, configured, sidecar, engine, request, asked>>
  <2>1. Drained(engine')
    BY <1>4, SameDrained
  <2>2. status'[current] = "new"
    BY <1>3, <1>4
  <2> QED
    BY <1>1, <1>2, <1>4, <2>1, <2>2, QuietBase
<1>5. CASE current # d /\ Pump([status EXCEPT ![d] = "queued"], Append(queue, d), current, pending, engine)
  <2> DEFINE st == [status EXCEPT ![d] = "queued"]
             q == Append(queue, d)
  <2>1. st \in [Docs -> Statuses] /\ q \in Seq(Docs) /\ Waits(st, q)
    BY <1>2, <1>3, QueuedWaits DEF Statuses
  <2>2. current # None => st[current] = status[current]
    BY <1>3, <1>5
  <2>3. Pump(st, q, current, pending, engine)
    BY <1>5
  <2> HIDE DEF st, q
  <2> QED
    BY <1>1, <1>2, <1>3, <2>1, <2>2, <2>3, SameDrained, PumpBase
<1> QED
  BY <1>4, <1>5 DEF AddPaper

LEMMA EnqueueBase == ASSUME BaseInv, NEW d \in Docs, Enqueue(d) PROVE BaseInv'
<1>1. TypeInv'
  BY EnqueueType DEF BaseInv
<1>2. /\ app = "up" /\ app' = app /\ disowned' = disowned /\ ~Queued(d) /\ current # d
  BY DEF Enqueue, Ask
<1>3. /\ status \in [Docs -> Statuses] /\ pending \in [Docs -> Nat] /\ current \in Docs \cup {None}
      /\ engine \in [Children -> Engines] /\ TypeInv
      /\ current # None => /\ status[current] # "done"
                           /\ status[current] = "absent" => current \in disowned
  BY DEF BaseInv, TypeInv, TypeOK, QueueInv
<1> DEFINE st == [status EXCEPT ![d] = "queued"]
           q == Append(queue, d)
<1>4. st \in [Docs -> Statuses] /\ q \in Seq(Docs) /\ Waits(st, q)
  BY <1>2, <1>3, QueuedWaits DEF Statuses
<1>5. current # None => st[current] = status[current]
  BY <1>2, <1>3
<1>6. Pump(st, q, current, pending, engine)
  BY DEF Enqueue
<1> HIDE DEF st, q
<1> QED
  BY <1>1, <1>2, <1>3, <1>4, <1>5, <1>6, SameDrained, PumpBase

LEMMA EditBase == ASSUME BaseInv, NEW d \in Docs, Edit(d) PROVE BaseInv'
<1> DEFINE edits == [pending EXCEPT ![d] = @ + 1]
<1>1. TypeInv'
  BY EditType DEF BaseInv
<1>2. /\ app = "up" /\ app' = app /\ disowned' = disowned /\ status[d] # "absent"
  BY DEF Edit, Ask
<1>3. /\ status \in [Docs -> Statuses] /\ edits \in [Docs -> Nat] /\ current \in Docs \cup {None}
      /\ engine \in [Children -> Engines] /\ TypeInv /\ queue \in Seq(Docs) /\ Waits(status, queue)
      /\ current # None => /\ status[current] # "done"
                           /\ status[current] = "absent" => current \in disowned
  BY DEF BaseInv, TypeInv, TypeOK, QueueInv
<1>4. CASE UNCHANGED <<status, queue, current, configured, sidecar, engine, request, asked>>
  <2>1. Drained(engine')
    BY <1>4, SameDrained
  <2> QED
    BY <1>1, <1>2, <1>3, <1>4, <2>1, QuietBase
<1>5. CASE ~Queued(d) /\ Pump(status, Append(queue, d), current, edits, engine)
  <2> DEFINE q == Append(queue, d)
  <2> HIDE DEF edits
  <2>1. q \in Seq(Docs) /\ Waits(status, q)
    BY <1>2, <1>3, <1>5, AppendWaits DEF Queued
  <2>2. Pump(status, q, current, edits, engine)
    BY <1>5
  <2> HIDE DEF q
  <2> QED
    BY <1>1, <1>2, <1>3, <2>1, <2>2, SameDrained, PumpBase
<1>6. CASE /\ ~Queued(d) /\ current # d
           /\ Pump([status EXCEPT ![d] = "queued"], Append(queue, d), current, edits, engine)
  <2> DEFINE st == [status EXCEPT ![d] = "queued"]
             q == Append(queue, d)
  <2> HIDE DEF edits
  <2>1. st \in [Docs -> Statuses] /\ q \in Seq(Docs) /\ Waits(st, q)
    BY <1>3, <1>6, QueuedWaits DEF Statuses
  <2>2. current # None => st[current] = status[current]
    BY <1>3, <1>6
  <2>3. Pump(st, q, current, edits, engine)
    BY <1>6
  <2> HIDE DEF st, q
  <2> QED
    BY <1>1, <1>2, <1>3, <2>1, <2>2, <2>3, SameDrained, PumpBase
<1> QED
  BY <1>4, <1>5, <1>6 DEF Edit

\* A cancel is added to the pipe.
CancelSent(e, f) == f = [e EXCEPT !.pipe = Append(@, Message("cancel", None, 0))]

LEMMA CancelSentFields ==
    ASSUME NEW e \in Engines, NEW f \in Engines, CancelSent(e, f)
    PROVE  /\ f.life = e.life /\ f.channel = e.channel /\ f.configure = e.configure
           /\ f.run = e.run /\ f.lines = e.lines /\ f.cancelled = e.cancelled /\ f.eof = e.eof
           /\ f.retained = e.retained /\ f.edited = e.edited
           /\ f.pipe # <<>> /\ f.pipe[1] = IF e.pipe = <<>> THEN Message("cancel", None, 0) ELSE e.pipe[1]
           /\ ToSet(f.pipe) = ToSet(e.pipe) \cup {Message("cancel", None, 0)}
           /\ Len(e.pipe) \in Nat /\ Len(f.pipe) = Len(e.pipe) + 1
           /\ \A i \in 1..Len(e.pipe) : f.pipe[i] = e.pipe[i]
           /\ f.pipe[Len(e.pipe) + 1] = Message("cancel", None, 0)
           /\ Message("cancel", None, 0).type = "cancel" /\ Message("cancel", None, 0).n = 0
<1> DEFINE m == Message("cancel", None, 0)
           s == e.pipe
<1>1. /\ f.life = e.life /\ f.channel = e.channel /\ f.configure = e.configure
      /\ f.run = e.run /\ f.lines = e.lines /\ f.cancelled = e.cancelled /\ f.eof = e.eof
      /\ f.retained = e.retained /\ f.edited = e.edited
      /\ f.pipe = Append(s, m)
  BY DEF CancelSent, Engines
<1>2. m \in Messages /\ m.type = "cancel" /\ m.n = 0 /\ s \in Seq(Messages)
  BY EngineFields DEF Message, Messages
<1> HIDE DEF m, s
<1>3. /\ f.pipe \in Seq(Messages) /\ Len(s) \in Nat /\ Len(f.pipe) = Len(s) + 1
      /\ \A i \in 1..Len(s) : f.pipe[i] = s[i]
      /\ f.pipe[Len(s) + 1] = m
      /\ ToSet(f.pipe) = ToSet(s) \cup {m}
  BY <1>1, <1>2, AppendSet
<1>4. f.pipe # <<>>
  BY <1>3
<1>5. f.pipe[1] = IF s = <<>> THEN m ELSE s[1]
  BY <1>2, <1>3, MemberSet
<1> QED
  BY <1>1, <1>2, <1>3, <1>4, <1>5 DEF m, s

LEMMA CancelSentBase ==
    ASSUME NEW e \in Engines, NEW f \in Engines, CancelSent(e, f),
           NEW n \in Nat, Bounded(e, n)
    PROVE  /\ f.life = e.life /\ Bounded(f, n) /\ Told(f)
           /\ First(e) /\ Told(e) => First(f)
<1>1. /\ f.life = e.life /\ f.channel = e.channel /\ f.configure = e.configure
      /\ f.run = e.run /\ f.lines = e.lines
      /\ f.pipe # <<>> /\ (e.pipe # <<>> => f.pipe[1] = e.pipe[1])
      /\ ToSet(f.pipe) = ToSet(e.pipe) \cup {Message("cancel", None, 0)}
      /\ Message("cancel", None, 0).n = 0
  BY CancelSentFields
<1> QED
  BY <1>1 DEF Bounded, Told, First

\* The message of a cancel goes to the child, and nobody else hears of it.
LEMMA CancelToCases ==
    ASSUME BaseInv, app = "up", NEW d \in Docs, NEW st, CancelTo(d, st)
    PROVE  \/ /\ Queued(d) /\ queue' = RemoveFirst(queue, d) /\ status' = st /\ engine' = engine
           \/ /\ ~Queued(d) /\ current = d /\ status' = st /\ queue' = queue
              /\ sidecar.child \in Children /\ engine[sidecar.child] \in Engines
              /\ engine'[sidecar.child] \in Engines
              /\ CancelSent(engine[sidecar.child], engine'[sidecar.child])
              /\ \A b \in Children : b # sidecar.child => engine'[b] = engine[b]
<1>1. CASE Queued(d) /\ queue' = RemoveFirst(queue, d) /\ status' = st /\ engine' = engine
  BY <1>1
<1>2. CASE /\ ~Queued(d) /\ current = d /\ status' = st /\ queue' = queue
           /\ engine' = [engine EXCEPT ![sidecar.child].pipe = Append(@, Message("cancel", None, 0))]
  <2> DEFINE c == sidecar.child
             m == Message("cancel", None, 0)
  <2>1. c \in Children
    <3>1. d # None
      BY ConstantsAssumption DEF ConstantsAssumption
    <3>2. c # None
      BY <1>2, <3>1 DEF BaseInv, QueueInv
    <3> QED
      BY <3>2 DEF BaseInv, TypeInv, TypeOK, Sidecars
  <2>2. engine \in [Children -> Engines] /\ m \in Messages
    BY DEF BaseInv, TypeInv, TypeOK, Message, Messages
  <2>3. engine' = [engine EXCEPT ![c].pipe = Append(@, m)]
    BY <1>2
  <2> HIDE DEF m, c
  <2>4. Append(engine[c].pipe, m) \in Seq(Messages)
    BY <2>1, <2>2 DEF Engines
  <2>5. /\ engine'[c] = [engine[c] EXCEPT !.pipe = Append(@, m)] /\ engine'[c] \in Engines
        /\ \A b \in Children : b # c => engine'[b] = engine[b]
    BY <2>1, <2>2, <2>3, <2>4 DEF Engines
  <2>6. CancelSent(engine[c], engine'[c])
    BY <2>5 DEF CancelSent, m
  <2> QED
    BY <1>2, <2>1, <2>2, <2>5, <2>6 DEF c
<1> QED
  BY <1>1, <1>2 DEF CancelTo

LEMMA CancelToBase ==
    ASSUME BaseInv, TypeInv', app = "up", NEW d \in Docs, NEW x \in {"cancelled", "absent"},
           CancelTo(d, [status EXCEPT ![d] = x]),
           UNCHANGED <<app, current, configured, sidecar, request, asked>>,
           disowned \subseteq disowned', x = "absent" /\ current = d => d \in disowned'
    PROVE  BaseInv'
<1> DEFINE st == [status EXCEPT ![d] = x]
           c == sidecar.child
<1>1. /\ status \in [Docs -> Statuses] /\ engine \in [Children -> Engines] /\ request \in Nat
      /\ current \in Docs \cup {None} /\ sidecar.child \in Children \cup {None}
  BY DEF BaseInv, TypeInv, TypeOK, Sidecars
<1>2. ASSUME current # None
      PROVE  st[current] # "done" /\ (st[current] = "absent" => current \in disowned')
  <2>1. /\ status[current] # "done" /\ (status[current] = "absent" => current \in disowned)
    BY <1>2 DEF BaseInv, QueueInv
  <2>2. CASE current = d
    BY <1>1, <2>2
  <2>3. CASE current # d
    BY <1>1, <1>2, <2>1, <2>3
  <2> QED
    BY <2>2, <2>3
<1>3. CASE Queued(d) /\ queue' = RemoveFirst(queue, d) /\ status' = st /\ engine' = engine
  <2>1. current # None
    <3>1. current = None => queue = <<>> /\ Len(<<>>) = 0
      BY DEF BaseInv, QueueInv
    <3> QED
      BY <1>3, <3>1 DEF Queued
  <2>2. Drained(engine')
    BY <1>3, SameDrained
  <2> HIDE DEF st
  <2> QED
    BY <1>2, <1>3, <2>1, <2>2, QuietBase
<1>4. CASE /\ ~Queued(d) /\ current = d /\ status' = st /\ queue' = queue
           /\ c \in Children /\ engine[c] \in Engines /\ engine'[c] \in Engines
           /\ CancelSent(engine[c], engine'[c])
           /\ \A b \in Children : b # c => engine'[b] = engine[b]
  <2> HIDE DEF st
  <2>1. Bounded(engine[c], request) /\ c # None
    BY <1>4, ConstantsAssumption DEF BaseInv, NumInv, ConstantsAssumption
  <2>2. /\ engine'[c].life = engine[c].life /\ Bounded(engine'[c], request) /\ Told(engine'[c])
        /\ First(engine[c]) /\ Told(engine[c]) => First(engine'[c])
    BY <1>1, <1>4, <2>1, CancelSentBase
  <2>3. \A b \in Children : engine'[b].life = engine[b].life
    BY <1>4, <2>2
  <2>4. current # None
    BY <1>4, ConstantsAssumption DEF ConstantsAssumption
  <2>5. LifeInv'
    BY <1>1, <1>4, <2>3 DEF BaseInv, LifeInv, Has
  <2>6. SidecarInv'
    BY DEF BaseInv, SidecarInv
  <2>7. QueueInv'
    BY <1>2, <1>4, <2>4 DEF BaseInv, QueueInv
  <2>8. ConfInv'
    <3>1. engine[c].life = "alive" => First(engine[c]) /\ Told(engine[c])
      BY <1>4, <2>1, <2>4 DEF BaseInv, ConfInv, QueueInv, Alive
    <3> QED
      BY <1>4, <2>2, <2>3, <3>1 DEF BaseInv, ConfInv, Alive
  <2>9. NumInv'
    BY <1>4, <2>2 DEF BaseInv, NumInv
  <2> QED
    BY <2>5, <2>6, <2>7, <2>8, <2>9 DEF BaseInv
<1> QED
  BY <1>3, <1>4, CancelToCases

LEMMA CancelBase == ASSUME BaseInv, NEW d \in Docs, Cancel(d) PROVE BaseInv'
<1>1. TypeInv'
  BY CancelType DEF BaseInv
<1>2. /\ app = "up" /\ CancelTo(d, [status EXCEPT ![d] = "cancelled"])
      /\ UNCHANGED <<app, current, configured, sidecar, request, asked>> /\ disowned' = disowned
  BY DEF Cancel, Ask
<1> QED
  BY <1>1, <1>2, CancelToBase

LEMMA RemovePaperBase == ASSUME BaseInv, NEW d \in Docs, RemovePaper(d) PROVE BaseInv'
<1>1. TypeInv'
  BY RemovePaperType DEF BaseInv
<1>2. /\ app = "up" /\ UNCHANGED <<app, current, configured, sidecar, request, asked>>
      /\ disowned \subseteq disowned' /\ (current = d => d \in disowned')
  BY DEF RemovePaper, Ask
<1>3. CASE CancelTo(d, [status EXCEPT ![d] = "absent"])
  BY <1>1, <1>2, <1>3, CancelToBase
<1>4. CASE /\ current # d /\ status' = [status EXCEPT ![d] = "absent"]
           /\ UNCHANGED <<queue, engine>>
  <2>1. current # None => /\ status'[current] # "done"
                          /\ status'[current] = "absent" => current \in disowned'
    <3>1. status \in [Docs -> Statuses] /\ current \in Docs \cup {None}
      BY DEF BaseInv, TypeInv, TypeOK
    <3>2. current # None => status'[current] = status[current]
      BY <1>4, <3>1
    <3> QED
      BY <1>2, <3>2 DEF BaseInv, QueueInv
  <2>2. Drained(engine')
    BY <1>4, SameDrained
  <2> QED
    BY <1>1, <1>2, <1>4, <2>1, <2>2, QuietBase
<1> QED
  BY <1>3, <1>4 DEF RemovePaper

\* Taking a line.
LEMMA RestDrained ==
    ASSUME TypeOK, NEW c \in Children, engine[c].lines # <<>>
    PROVE  Drained([engine EXCEPT ![c].lines = Tail(@)])
<1> DEFINE rest == [engine EXCEPT ![c].lines = Tail(@)]
<1>1. /\ rest[c] = [engine[c] EXCEPT !.lines = Tail(@)]
      /\ \A b \in Children : b # c => rest[b] = engine[b]
  BY RestType
<1> HIDE DEF rest
<1> QED
  BY <1>1 DEF Drained, rest

LEMMA DeliverBase == ASSUME BaseInv, NEW c \in Children, Deliver(c) PROVE BaseInv'
<1> DEFINE line == Head(engine[c].lines)
           rest == [engine EXCEPT ![c].lines = Tail(@)]
<1>1. TypeInv'
  BY DeliverType DEF BaseInv
<1>2. /\ app # "down" /\ app' = app /\ disowned' = disowned /\ engine[c].lines # <<>>
  BY DEF Deliver, Serving
<1>3. /\ TypeInv /\ TypeOK /\ queue \in Seq(Docs) /\ pending \in [Docs -> Nat]
      /\ current \in Docs \cup {None} /\ sidecar.timer \in BOOLEAN
  BY DEF BaseInv, TypeInv, TypeOK, Sidecars
<1>4. line \in Lines /\ rest \in [Children -> Engines] /\ Drained(rest)
  BY <1>2, <1>3, RestType, RestDrained
<1>5. CASE /\ current # None /\ Pump(Booked(current, line.ok), queue, None, pending, rest)
  <2>1. line.ok \in BOOLEAN /\ current \in Docs
    BY <1>3, <1>4, <1>5 DEF Lines
  <2> DEFINE st == Booked(current, line.ok)
  <2> HIDE DEF rest, line
  <2>2. st \in [Docs -> Statuses] /\ Waits(st, queue)
    BY <1>3, <2>1, BookedType
  <2>3. Pump(st, queue, None, pending, rest)
    BY <1>5
  <2>4. ~sidecar.timer
    BY <1>5 DEF BaseInv, SidecarInv
  <2> HIDE DEF st
  <2> QED
    BY <1>1, <1>2, <1>3, <1>4, <2>2, <2>3, <2>4, PumpBase
<1>6. CASE /\ engine' = rest
           /\ UNCHANGED <<status, queue, current, pending, configured, sidecar, request, asked>>
  <2>1. current # None => /\ status[current] # "done"
                          /\ status[current] = "absent" => current \in disowned
    BY DEF BaseInv, QueueInv
  <2> HIDE DEF rest
  <2> QED
    BY <1>1, <1>2, <1>4, <1>6, <2>1, QuietBase
<1> QED
  BY <1>5, <1>6 DEF Deliver

\* The exit of a process: which of them it was, and what the manager does.
LEMMA ExitCases ==
    ASSUME BaseInv, NEW c \in Children, Exit(c)
    PROVE  /\ engine[c].life = "dead" /\ engine'[c] = [engine[c] EXCEPT !.life = "gone"]
           /\ engine'[c].life = "gone" /\ ToSet(engine'[c].lines) = ToSet(engine[c].lines)
           /\ engine'[c].lines = engine[c].lines
           /\ Bounded(engine'[c], request)
           /\ \A b \in Children : b # c => engine'[b] = engine[b]
           /\ app # "down" /\ app' = app /\ request' = request /\ asked' = asked
           /\ disowned' = disowned /\ published' = published /\ strayed' = strayed
           /\ stored' = stored /\ output' = output /\ unstarted' = unstarted
           /\ sidecar'.child = None /\ sidecar'.stopped = sidecar.stopped
           /\ app = "up" \/ sidecar.stopped => c = sidecar.child
           /\ \/ /\ sidecar.stopped /\ sidecar'.state = "exited" /\ sidecar'.timer = sidecar.timer
                 /\ UNCHANGED <<status, queue, current>>
              \/ /\ ~sidecar.stopped /\ CrashEvent
                 /\ \/ sidecar'.state = sidecar.state /\ sidecar'.timer = TRUE
                    \/ sidecar'.state = "exited" /\ sidecar'.timer = sidecar.timer
<1>1. /\ app # "down" /\ engine[c].life = "dead"
      /\ engine' = [engine EXCEPT ![c].life = "gone"]
      /\ app' = app /\ request' = request /\ asked' = asked /\ disowned' = disowned
      /\ published' = published /\ strayed' = strayed
      /\ stored' = stored /\ output' = output /\ unstarted' = unstarted
  BY DEF Exit, Serving, results
<1>2. engine \in [Children -> Engines] /\ sidecar \in Sidecars
  BY DEF BaseInv, TypeInv, TypeOK
<1>3. /\ engine'[c] = [engine[c] EXCEPT !.life = "gone"]
      /\ engine'[c].life = "gone" /\ engine'[c].lines = engine[c].lines
      /\ engine'[c].pipe = engine[c].pipe /\ engine'[c].channel = engine[c].channel
      /\ engine'[c].run = engine[c].run
      /\ \A b \in Children : b # c => engine'[b] = engine[b]
  BY <1>1, <1>2 DEF Engines
<1>4. Bounded(engine'[c], request)
  BY <1>3 DEF BaseInv, NumInv, Bounded
<1>5. app = "up" \/ sidecar.stopped => c = sidecar.child
  BY <1>1 DEF BaseInv, LifeInv, Has
<1>6. sidecar.state = "stopping" => sidecar.stopped
  BY DEF BaseInv, SidecarInv
<1>7. CASE /\ sidecar.state = "stopping" \/ sidecar.stopped
           /\ sidecar' = [sidecar EXCEPT !.child = None, !.state = "exited"]
           /\ UNCHANGED <<status, queue, current>>
  <2>1. /\ sidecar'.child = None /\ sidecar'.stopped = sidecar.stopped
        /\ sidecar'.state = "exited" /\ sidecar'.timer = sidecar.timer
    BY <1>2, <1>7 DEF Sidecars
  <2> QED
    BY <1>1, <1>3, <1>4, <1>5, <1>6, <1>7, <2>1
<1>8. CASE /\ ~sidecar.stopped /\ CrashEvent
           /\ sidecar' = [sidecar EXCEPT !.child = None, !.timer = TRUE, !.restarts = @ + 1]
  <2>1. /\ sidecar'.child = None /\ sidecar'.stopped = sidecar.stopped
        /\ sidecar'.state = sidecar.state /\ sidecar'.timer = TRUE
    BY <1>2, <1>8 DEF Sidecars
  <2> QED
    BY <1>1, <1>3, <1>4, <1>5, <1>8, <2>1
<1>9. CASE /\ ~sidecar.stopped /\ CrashEvent
           /\ sidecar' = [sidecar EXCEPT !.child = None, !.state = "exited"]
  <2>1. /\ sidecar'.child = None /\ sidecar'.stopped = sidecar.stopped
        /\ sidecar'.state = "exited" /\ sidecar'.timer = sidecar.timer
    BY <1>2, <1>9 DEF Sidecars
  <2> QED
    BY <1>1, <1>3, <1>4, <1>5, <1>9, <2>1
<1> QED
  BY <1>7, <1>8, <1>9 DEF Exit

LEMMA ExitBase == ASSUME BaseInv, NEW c \in Children, Exit(c) PROVE BaseInv'
<1>1. TypeInv'
  BY ExitType DEF BaseInv
<1>2. /\ engine[c].life = "dead" /\ engine'[c].life = "gone" /\ Bounded(engine'[c], request)
      /\ \A b \in Children : b # c => engine'[b] = engine[b]
      /\ app # "down" /\ app' = app /\ request' = request /\ asked' = asked
      /\ disowned' = disowned
      /\ sidecar'.child = None /\ sidecar'.stopped = sidecar.stopped
      /\ app = "up" \/ sidecar.stopped => c = sidecar.child
  BY ExitCases
<1>3. \/ /\ sidecar.stopped /\ sidecar'.state = "exited" /\ sidecar'.timer = sidecar.timer
         /\ UNCHANGED <<status, queue, current>>
      \/ /\ ~sidecar.stopped /\ CrashEvent
         /\ \/ sidecar'.state = sidecar.state /\ sidecar'.timer = TRUE
            \/ sidecar'.state = "exited" /\ sidecar'.timer = sidecar.timer
  BY ExitCases
<1>4. /\ LifeInv /\ SidecarInv /\ QueueInv /\ ConfInv /\ NumInv /\ c # None
      /\ app \in {"up", "quitting"}
      /\ sidecar.state \in {"stopped", "running", "stopping", "exited"}
  BY <1>2, ConstantsAssumption DEF BaseInv, ConstantsAssumption, TypeInv, TypeOK, Sidecars
<1>5. LifeInv'
  BY <1>2, <1>4 DEF LifeInv, Has
<1>6. CrashEvent => current' = None /\ queue' = <<>>
  BY <1>4 DEF CrashEvent, QueueInv
<1>7. SidecarInv'
  BY <1>2, <1>3, <1>4, <1>6 DEF SidecarInv
<1>8. QueueInv'
  BY <1>2, <1>3, <1>4, <1>6 DEF QueueInv, SidecarInv
<1>9. ConfInv'
  BY <1>2, <1>4 DEF ConfInv, Alive
<1>10. NumInv'
  BY <1>2, <1>4 DEF NumInv
<1> QED
  BY <1>1, <1>5, <1>7, <1>8, <1>9, <1>10 DEF BaseInv

\* A process the timer starts is new, and the paper that was current has failed.
LEMMA RespawnCases ==
    ASSUME BaseInv, Respawn
    PROVE  /\ app # "down" /\ current = None /\ queue = <<>>
           /\ UNCHANGED <<app, status, published, queue, current, pending, request, asked,
                          stored, output, unstarted, strayed, disowned>>
           /\ sidecar'.timer = FALSE /\ sidecar'.stopped = sidecar.stopped
           /\ \/ /\ sidecar.stopped /\ engine' = engine /\ configured' = configured
                 /\ sidecar'.state = sidecar.state /\ sidecar'.child = sidecar.child
              \/ /\ ~sidecar.stopped /\ configured' = FALSE /\ sidecar'.state = "running"
                 /\ app = "up" => sidecar.child = None
                 /\ \E c \in Children, b \in BOOLEAN :
                       /\ sidecar'.child = c /\ engine'[c] = Spawned(b)
                       /\ \A x \in Children : x # c => engine'[x] = engine[x]
<1>1. /\ app # "down" /\ sidecar.timer
      /\ UNCHANGED <<app, status, published, queue, current, pending, request, asked,
                     stored, output, unstarted, strayed, disowned>>
  BY DEF Respawn, Serving, results
<1>2. engine \in [Children -> Engines] /\ sidecar \in Sidecars
  BY DEF BaseInv, TypeInv, TypeOK
<1>3. current = None /\ queue = <<>> /\ (app = "up" => sidecar.child = None)
  BY <1>1 DEF BaseInv, SidecarInv, QueueInv
<1>4. CASE sidecar.stopped /\ sidecar' = [sidecar EXCEPT !.timer = FALSE]
           /\ engine' = engine /\ configured' = configured
  <2>1. /\ sidecar'.timer = FALSE /\ sidecar'.stopped = sidecar.stopped
        /\ sidecar'.state = sidecar.state /\ sidecar'.child = sidecar.child
    BY <1>2, <1>4 DEF Sidecars
  <2> QED
    BY <1>1, <1>3, <1>4, <2>1
<1>5. CASE /\ ~sidecar.stopped /\ SlotFree
           /\ engine' = [engine EXCEPT ![FreeSlot] = Spawned(sidecar.lastConfigure)]
           /\ sidecar' = [sidecar EXCEPT !.timer = FALSE, !.state = "running", !.child = FreeSlot]
           /\ configured' = FALSE
  <2> DEFINE c == FreeSlot
             b == sidecar.lastConfigure
  <2>1. c \in Children /\ b \in BOOLEAN
    BY <1>2, <1>5, FreeSlotType DEF Sidecars
  <2>2. /\ sidecar'.timer = FALSE /\ sidecar'.stopped = sidecar.stopped
        /\ sidecar'.state = "running" /\ sidecar'.child = c
    BY <1>2, <1>5 DEF Sidecars
  <2>3. engine'[c] = Spawned(b) /\ \A x \in Children : x # c => engine'[x] = engine[x]
    BY <1>2, <1>5, <2>1
  <2> HIDE DEF c, b
  <2>4. \E x \in Children, y \in BOOLEAN :
           /\ sidecar'.child = x /\ engine'[x] = Spawned(y)
           /\ \A z \in Children : z # x => engine'[z] = engine[z]
    BY <2>1, <2>2, <2>3
  <2> QED
    BY <1>1, <1>3, <1>5, <2>2, <2>4
<1> QED
  BY <1>4, <1>5 DEF Respawn

LEMMA RespawnBase == ASSUME BaseInv, Respawn PROVE BaseInv'
<1>1. TypeInv'
  BY RespawnType DEF BaseInv
<1>2. /\ app # "down" /\ current = None /\ queue = <<>>
      /\ UNCHANGED <<app, status, queue, current, request, asked, disowned>>
      /\ sidecar'.timer = FALSE /\ sidecar'.stopped = sidecar.stopped
  BY RespawnCases
<1>3. LifeInv /\ SidecarInv /\ QueueInv /\ ConfInv /\ NumInv /\ request \in Nat
      /\ sidecar.child \in Children \cup {None} /\ None \notin Children
      /\ app \in {"up", "quitting", "down"}
  BY ConstantsAssumption DEF BaseInv, ConstantsAssumption, TypeInv, TypeOK, Sidecars
<1>4. QueueInv'
  BY <1>2 DEF QueueInv
<1>5. CASE /\ sidecar.stopped /\ engine' = engine /\ configured' = configured
           /\ sidecar'.state = sidecar.state /\ sidecar'.child = sidecar.child
  <2>1. LifeInv'
    BY <1>2, <1>3, <1>5 DEF LifeInv, Has
  <2>2. SidecarInv'
    BY <1>2, <1>3, <1>5 DEF SidecarInv
  <2>3. ConfInv' /\ NumInv'
    BY <1>2, <1>3, <1>5 DEF ConfInv, NumInv, Alive
  <2> QED
    BY <1>1, <1>4, <2>1, <2>2, <2>3 DEF BaseInv
<1>6. ASSUME ~sidecar.stopped, configured' = FALSE, sidecar'.state = "running",
             app = "up" => sidecar.child = None,
             NEW c \in Children, NEW b \in BOOLEAN,
             sidecar'.child = c, engine'[c] = Spawned(b),
             \A x \in Children : x # c => engine'[x] = engine[x]
      PROVE  BaseInv'
  <2>1. /\ engine'[c].life = "alive" /\ Bounded(engine'[c], request) /\ First(engine'[c])
    BY <1>3, <1>6, NoEngineType, EmptyBase
  <2>2. LifeInv'
    BY <1>2, <1>3, <1>6, <2>1 DEF LifeInv, Has
  <2>3. SidecarInv'
    BY <1>2, <1>3, <1>6 DEF SidecarInv
  <2>4. ConfInv'
    BY <1>3, <1>6, <2>1 DEF ConfInv, Alive
  <2>5. NumInv'
    BY <1>2, <1>3, <1>6, <2>1 DEF NumInv
  <2> QED
    BY <1>1, <1>4, <2>2, <2>3, <2>4, <2>5 DEF BaseInv
<1> QED
  BY <1>5, <1>6, RespawnCases

\* stop() closes the pipe of the child, and nothing else of an engine.
LEMMA QuitCases ==
    ASSUME BaseInv, Quit
    PROVE  /\ app = "up" /\ app' = "quitting"
           /\ UNCHANGED <<status, published, queue, current, pending, request, asked,
                          stored, output, unstarted, strayed, disowned>>
           /\ sidecar'.stopped = TRUE /\ sidecar'.child = sidecar.child
           /\ sidecar'.timer = sidecar.timer
           /\ \/ sidecar.child = None /\ sidecar'.state = "exited" /\ configured' = FALSE
              \/ sidecar.child # None /\ sidecar'.state = "stopping" /\ configured' = configured
           /\ \A c \in Children :
                 /\ engine'[c].life = engine[c].life /\ engine'[c].pipe = engine[c].pipe
                 /\ engine'[c].channel = engine[c].channel /\ engine'[c].run = engine[c].run
                 /\ engine'[c].configure = engine[c].configure
                 /\ engine'[c].lines = engine[c].lines /\ engine'[c].eof = engine[c].eof
                 /\ engine'[c].cancelled = engine[c].cancelled
                 /\ engine'[c].retained = engine[c].retained /\ engine'[c].edited = engine[c].edited
<1>1. /\ app = "up" /\ app' = "quitting"
      /\ UNCHANGED <<status, published, queue, current, pending, request, asked,
                     stored, output, unstarted, strayed, disowned>>
  BY DEF Quit, results
<1>2. engine \in [Children -> Engines] /\ sidecar \in Sidecars
  BY DEF BaseInv, TypeInv, TypeOK
<1>3. CASE /\ sidecar.child = None
           /\ sidecar' = [sidecar EXCEPT !.state = "exited", !.stopped = TRUE]
           /\ configured' = FALSE /\ engine' = engine
  <2>1. /\ sidecar'.stopped = TRUE /\ sidecar'.child = sidecar.child
        /\ sidecar'.timer = sidecar.timer /\ sidecar'.state = "exited"
    BY <1>2, <1>3 DEF Sidecars
  <2> QED
    BY <1>1, <1>3, <2>1
<1>4. CASE /\ sidecar.child # None
           /\ sidecar' = [sidecar EXCEPT !.state = "stopping", !.stopped = TRUE]
           /\ engine' = [engine EXCEPT ![sidecar.child].open = FALSE]
           /\ configured' = configured
  <2>1. /\ sidecar'.stopped = TRUE /\ sidecar'.child = sidecar.child
        /\ sidecar'.timer = sidecar.timer /\ sidecar'.state = "stopping"
    BY <1>2, <1>4 DEF Sidecars
  <2>2. \A c \in Children :
           /\ engine'[c].life = engine[c].life /\ engine'[c].pipe = engine[c].pipe
           /\ engine'[c].channel = engine[c].channel /\ engine'[c].run = engine[c].run
           /\ engine'[c].configure = engine[c].configure
           /\ engine'[c].lines = engine[c].lines /\ engine'[c].eof = engine[c].eof
           /\ engine'[c].cancelled = engine[c].cancelled
           /\ engine'[c].retained = engine[c].retained /\ engine'[c].edited = engine[c].edited
    BY <1>2, <1>4 DEF Engines
  <2> QED
    BY <1>1, <1>4, <2>1, <2>2
<1> QED
  BY <1>3, <1>4 DEF Quit

LEMMA QuitBase == ASSUME BaseInv, Quit PROVE BaseInv'
<1>1. TypeInv'
  BY QuitType DEF BaseInv
<1>2. /\ app = "up" /\ app' = "quitting"
      /\ UNCHANGED <<status, queue, current, request, asked, disowned>>
      /\ sidecar'.stopped = TRUE /\ sidecar'.child = sidecar.child
      /\ sidecar'.timer = sidecar.timer
  BY QuitCases
<1>3. \/ sidecar.child = None /\ sidecar'.state = "exited" /\ configured' = FALSE
      \/ sidecar.child # None /\ sidecar'.state = "stopping" /\ configured' = configured
  BY QuitCases
<1>4. \A c \in Children :
         /\ engine'[c].life = engine[c].life /\ engine'[c].pipe = engine[c].pipe
         /\ engine'[c].channel = engine[c].channel /\ engine'[c].run = engine[c].run
         /\ engine'[c].configure = engine[c].configure
         /\ engine'[c].lines = engine[c].lines
  BY QuitCases
<1>5. LifeInv /\ SidecarInv /\ QueueInv /\ ConfInv /\ NumInv
      /\ sidecar.child \in Children \cup {None}
  BY DEF BaseInv, TypeInv, TypeOK, Sidecars
<1>6. LifeInv'
  BY <1>2, <1>4, <1>5 DEF LifeInv, Has
<1>7. SidecarInv'
  BY <1>2, <1>3, <1>5 DEF SidecarInv
<1>8. QueueInv'
  BY <1>2, <1>5 DEF QueueInv
<1>9. ConfInv'
  BY <1>2, <1>3, <1>4, <1>5 DEF ConfInv, Alive, First, Told
<1>10. NumInv'
  BY <1>2, <1>4, <1>5 DEF NumInv, Bounded
<1> QED
  BY <1>1, <1>6, <1>7, <1>8, <1>9, <1>10 DEF BaseInv

LEMMA AppExitBase == ASSUME BaseInv, AppExit PROVE BaseInv'
<1>1. TypeInv'
  BY AppExitType DEF BaseInv
<1>2. /\ \A c \in Children : engine'[c] = NoEngine
      /\ engine' = [c \in Children |-> NoEngine]
      /\ sidecar' = NoSidecar /\ current' = None /\ queue' = <<>> /\ app' = "down"
      /\ request' = request
  BY DEF AppExit
<1>3. NoEngine.life = "none" /\ request \in Nat
  BY DEF NoEngine, BaseInv, TypeInv, TypeOK
<1>4. LifeInv'
  BY <1>2, <1>3 DEF LifeInv, Has, NoSidecar
<1>5. SidecarInv'
  BY <1>2 DEF SidecarInv, NoSidecar
<1>6. QueueInv'
  BY <1>2 DEF QueueInv
<1>7. ConfInv'
  BY <1>2, <1>3 DEF ConfInv, Alive, NoSidecar
<1>8. NumInv'
  BY <1>2, <1>3, EmptyBase DEF NumInv
<1> QED
  BY <1>1, <1>4, <1>5, <1>6, <1>7, <1>8 DEF BaseInv

\* What a start queues again.
LEMMA StartCases ==
    ASSUME TypeInv, Start
    PROVE  \E st \in [Docs -> Statuses], q \in Seq(Docs) :
              /\ Waits(st, q) /\ Pump(st, q, None, pending, engine)
              /\ \A d \in Docs : st[d] \in {"queued", status[d]}
<1> DEFINE again == {d \in Docs : status[d] \in {"queued", "running"}}
           st == [d \in Docs |-> IF d \in again THEN "queued" ELSE status[d]]
           q == SetToSeq(again)
<1>1. Pump(st, q, None, pending, engine)
  BY DEF Start
<1>2. st \in [Docs -> Statuses] /\ (\A d \in again : st[d] # "absent")
      /\ \A d \in Docs : st[d] \in {"queued", status[d]}
  BY DEF TypeInv, TypeOK, Statuses
<1>3. q \in Seq(Docs) /\ Single(q) /\ \A i \in 1..Len(q) : q[i] \in again
  BY SetToSeqQueue
<1> HIDE DEF st, q, again
<1>4. Waits(st, q)
  BY <1>2, <1>3 DEF Waits
<1> QED
  BY <1>1, <1>2, <1>3, <1>4

LEMMA StartBase == ASSUME BaseInv, Start PROVE BaseInv'
<1>1. TypeInv'
  BY StartType DEF BaseInv
<1>2. PICK st \in [Docs -> Statuses], q \in Seq(Docs) :
         Waits(st, q) /\ Pump(st, q, None, pending, engine)
  BY StartCases DEF BaseInv
<1>3. /\ app = "down" /\ app' = "up" /\ disowned' = disowned
      /\ pending \in [Docs -> Nat] /\ engine \in [Children -> Engines]
  BY DEF Start, BaseInv, TypeInv, TypeOK
<1>4. ~sidecar.timer
  BY <1>3 DEF BaseInv, LifeInv, NoSidecar
<1> QED
  BY <1>1, <1>2, <1>3, <1>4, SameDrained, PumpBase

LEMMA BaseNext == BaseInv /\ [Next]_vars => BaseInv'
<1> SUFFICES ASSUME BaseInv, [Next]_vars PROVE BaseInv'
  OBVIOUS
<1>1. ASSUME NEW d \in Docs, AddPaper(d) \/ Enqueue(d) \/ Edit(d) \/ Cancel(d) \/ RemovePaper(d)
      PROVE  BaseInv'
  BY <1>1, AddPaperBase, EnqueueBase, EditBase, CancelBase, RemovePaperBase
<1>2. ASSUME NEW c \in Children, Deliver(c) \/ Exit(c) PROVE BaseInv'
  BY <1>2, DeliverBase, ExitBase
<1>3. CASE Respawn \/ Quit \/ AppExit \/ Start
  BY <1>3, RespawnBase, QuitBase, AppExitBase, StartBase
<1>4. ASSUME NEW c \in Children, Reader(c) \/ MainLoop(c) \/ Publish(c) \/ EngineEnd(c) PROVE BaseInv'
  BY <1>4, EngineBaseNext
<1>5. CASE UNCHANGED vars
  <2>1. UNCHANGED <<app, status, queue, current, configured, sidecar, engine, request, asked, disowned>>
    BY <1>5 DEF vars, main
  <2>2. TypeInv'
    BY <1>5, TypeNext DEF BaseInv
  <2>3. LifeInv' /\ SidecarInv' /\ QueueInv' /\ ConfInv' /\ NumInv'
    BY <2>1 DEF BaseInv, LifeInv, SidecarInv, QueueInv, ConfInv, NumInv, Has, Alive
  <2> QED
    BY <2>2, <2>3 DEF BaseInv
<1> QED
  BY <1>1, <1>2, <1>3, <1>4, <1>5 DEF Next

-----------------------------------------------------------------------------
(* The run of the current paper on its way *)

NoWork(s) == \A m \in ToSet(s) : m.type \notin {"edit", "run"}
NoFinish(s) == \A l \in ToSet(s) : l.type # "run_finished"
OnlyEdits(s, d) == \A m \in ToSet(s) : m.type # "run" /\ (m.type = "edit" => m.doc = d)
Without(s, n) == \A l \in ToSet(s) : l.n # n

\* The edits of paper d, then its run, then no work at all.
LastRun(s, d, n) ==
    \E k \in 1..Len(s) :
        /\ s[k].type = "run" /\ s[k].doc = d /\ s[k].n = n
        /\ \A i \in 1..Len(s) : i < k => s[i].type # "run" /\ (s[i].type = "edit" => s[i].doc = d)
        /\ \A i \in 1..Len(s) : i > k => s[i].type \notin {"edit", "run"}

OneFinish(s) ==
    \E k \in 1..Len(s) : /\ s[k].type = "run_finished"
                         /\ \A i \in 1..Len(s) : s[i].type = "run_finished" => i = k

Clean(e) == NoWork(e.pipe) /\ NoWork(e.channel) /\ e.run = NoRun /\ NoFinish(e.lines)

\* The run of d is in the pipe, in the channel, in progress, or its end is reported.
Sent(e, d, n) ==
    /\ LastRun(e.pipe, d, n) /\ OnlyEdits(e.channel, d) /\ e.run = NoRun
    /\ NoFinish(e.lines) /\ Without(e.lines, n)
Received(e, d, n) ==
    /\ NoWork(e.pipe) /\ LastRun(e.channel, d, n) /\ e.run = NoRun
    /\ NoFinish(e.lines) /\ Without(e.lines, n)
Running(e, d, n) ==
    /\ NoWork(e.pipe) /\ NoWork(e.channel)
    /\ e.run # NoRun /\ e.run.doc = d /\ e.run.n = n /\ NoFinish(e.lines)
Reported(e) == NoWork(e.pipe) /\ NoWork(e.channel) /\ e.run = NoRun /\ OneFinish(e.lines)
Carries(e, d, n) == Sent(e, d, n) \/ Received(e, d, n) \/ Running(e, d, n) \/ Reported(e)

OwnInv ==
    sidecar.child # None /\ Alive(sidecar.child) =>
        IF current = None THEN Clean(engine[sidecar.child])
        ELSE Carries(engine[sidecar.child], current, request)

\* Work of a process that is nobody's child any more: its papers are not done.
Uncancelled(e) == (\A m \in ToSet(e.pipe) : m.type # "cancel") /\ (e.cancelled => e.eof)
NotDone(d) == d \in Docs => status[d] # "done"
Orphan(e) ==
    /\ Uncancelled(e)
    /\ \A m \in ToSet(e.pipe) \cup ToSet(e.channel) : m.type \in {"edit", "run"} => NotDone(m.doc)
    /\ NotDone(e.run.doc)

SideInv ==
    \A c \in Children : Alive(c) /\ c # sidecar.child =>
        Clean(engine[c]) \/ (app = "quitting" /\ current = None /\ Orphan(engine[c]))

\* A cancel in the pipe with no run behind it reaches the run in progress, if any.
Aimed(s) == \E i \in 1..Len(s) : s[i].type = "cancel" /\ \A j \in 1..Len(s) : j > i => s[j].type # "run"
Hit(e) == Aimed(e.pipe) \/ (e.run # NoRun /\ e.cancelled /\ ~e.eof)
AimInv ==
    sidecar.child # None /\ Alive(sidecar.child) =>
        /\ current # None /\ Hit(engine[sidecar.child]) =>
              status[current] \in {"cancelled", "absent"} \/ current \in disowned
        /\ app = "quitting" /\ ~sidecar.stopped => Uncancelled(engine[sidecar.child])

HoldInv ==
    current # None /\ sidecar.child # None =>
        \A c \in Children : c # sidecar.child => Without(engine[c].lines, request)

FlowInv == OwnInv /\ SideInv /\ AimInv /\ HoldInv

-----------------------------------------------------------------------------
(* What a line of the current run says about its translation *)

Shown(d) ==
    output[d].run = asked[d] /\ (output[d].partial \/ output[d].edits = stored[d])

\* A line of run n, or a run in progress, that says that a translation was written.
Says(e, n) ==
    \/ \E l \in ToSet(e.lines) : l.n = n /\ (l.type = "document_finished" \/ l.ok)
    \/ e.life = "alive" /\ e.run # NoRun /\ e.run.published

LineInv ==
    current # None /\ current \notin disowned =>
        \A c \in Children : Says(engine[c], request) => Shown(current)

\* A mark that an earlier run of the paper left is wiped by run_started, which every
\* other line of a full run follows. The runs that are never started are set apart.
Begun(s, n) == \E l \in ToSet(s) : l.type = "run_started" /\ l.n = n
Begins(s, n) ==
    \A i \in 1..Len(s) : s[i].n = n => \E j \in 1..i : s[j].type = "run_started" /\ s[j].n = n
Wipes(e, n) ==
    /\ Begins(e.lines, n)
    /\ e.life = "alive" /\ e.run # NoRun => Begun(e.lines, n)

StaleInv ==
    /\ current # None /\ current \in published /\ current \notin disowned /\ ~Shown(current)
    /\ request \notin unstarted
    => \A c \in Children : Wipes(engine[c], request)

DoneInv ==
    \A d \in Docs : status[d] = "done" /\ d \notin disowned /\ asked[d] \notin unstarted
                        => Shown(d)

ShownInv == LineInv /\ StaleInv /\ DoneInv

-----------------------------------------------------------------------------
(* What the child retains of the run before *)

Mail(e) == ToSet(e.pipe) \cup ToSet(e.channel)
Busy == app = "up" \/ current # None

\* The run on its way is a full one: of another paper, or without an edit before it.
Leaves(e) ==
    \E m \in Mail(e) : /\ m.type = "run"
                       /\ \/ m.doc # e.retained.doc
                          \/ e.edited = 0 /\ \A x \in Mail(e) : x.type # "edit"

\* The retained state and the edits since are what the store of its paper holds.
Kept(e, st, sto, dis) ==
    e.retained.doc # None =>
        \/ e.retained.partial \/ e.retained.doc \in dis
        \/ sto[e.retained.doc] = e.retained.edits + e.edited
        \/ st[e.retained.doc] = "absent"
        \/ Leaves(e)

\* So is what a recompile is based on, and what a published run shows.
RunKept(e, sto, dis) ==
    e.run # NoRun /\ (e.run.pages \/ e.run.published) =>
        e.run.partial \/ e.run.doc \in dis \/ sto[e.run.doc] = e.run.edits

\* Edits are counted while the run behind them is on its way. A paper whose state is
\* retained is not marked, once the line that ends its run was taken.
Idle(e, cur, pub) ==
    /\ cur = None => e.edited = 0
    /\ e.run # NoRun => e.edited = 0 /\ e.retained = NotRetained
    /\ ~NoFinish(e.lines) => e.edited = 0 /\ e.retained.doc \in {None, cur}
    /\ NoFinish(e.lines) => e.retained.doc \notin pub

Keeps(e, cur, pub, st, sto, dis) == Idle(e, cur, pub) /\ Kept(e, st, sto, dis) /\ RunKept(e, sto, dis)

KeepInv ==
    Busy /\ sidecar.child # None /\ Alive(sidecar.child) =>
        Keeps(engine[sidecar.child], current, published, status, stored, disowned)

\* A paper without a row has no edits to send.
PendInv == \A d \in Docs : status[d] = "absent" => pending[d] = 0

LEMMA IndexSet ==
    ASSUME NEW S, NEW s \in Seq(S)
    PROVE  /\ \A m \in ToSet(s) : \E i \in 1..Len(s) : m = s[i]
           /\ \A i \in 1..Len(s) : s[i] \in ToSet(s)
           /\ Len(s) \in Nat
<1>1. DOMAIN s = 1..Len(s)
  OBVIOUS
<1> QED
  BY <1>1 DEF ToSet

LEMMA LastTail ==
    ASSUME NEW s \in Seq(Messages), s # <<>>, NEW d, NEW n, LastRun(s, d, n),
           Head(s).type # "run"
    PROVE  LastRun(Tail(s), d, n) /\ (Head(s).type = "edit" => Head(s).doc = d)
<1> DEFINE t == Tail(s)
           h == Head(s)
<1>1. /\ h = s[1] /\ Len(s) \in Nat \ {0} /\ Len(t) = Len(s) - 1
      /\ \A i \in 1..(Len(s) - 1) : t[i] = s[i + 1]
  BY TailSet
<1>2. PICK k \in 1..Len(s) :
        /\ s[k].type = "run" /\ s[k].doc = d /\ s[k].n = n
        /\ \A i \in 1..Len(s) : i < k => s[i].type # "run" /\ (s[i].type = "edit" => s[i].doc = d)
        /\ \A i \in 1..Len(s) : i > k => s[i].type \notin {"edit", "run"}
  BY DEF LastRun
<1>3. k # 1 /\ h.type # "run"
  BY <1>1, <1>2
<1> HIDE DEF t, h
<1>4. 1 \in 1..Len(s) /\ 1 < k
  BY <1>1, <1>2, <1>3
<1>5. h.type = "edit" => h.doc = d
  BY <1>1, <1>2, <1>4
<1>6. k - 1 \in 1..Len(t) /\ t[k - 1] = s[k]
  <2>1. k - 1 \in 1..(Len(s) - 1) /\ (k - 1) + 1 = k
    BY <1>1, <1>2, <1>4
  <2> QED
    BY <1>1, <2>1
<1>7. ASSUME NEW i \in 1..Len(t)
      PROVE  /\ i < k - 1 => t[i].type # "run" /\ (t[i].type = "edit" => t[i].doc = d)
             /\ i > k - 1 => t[i].type \notin {"edit", "run"}
  <2>1. i + 1 \in 1..Len(s) /\ t[i] = s[i + 1] /\ (i < k - 1 => i + 1 < k) /\ (i > k - 1 => i + 1 > k)
    BY <1>1, <1>2
  <2> QED
    BY <1>2, <2>1
<1>8. LastRun(t, d, n)
  BY <1>2, <1>6, <1>7 DEF LastRun
<1> QED
  BY <1>5, <1>8 DEF t, h

LEMMA LastHead ==
    ASSUME NEW s \in Seq(Messages), s # <<>>, NEW d, NEW n, LastRun(s, d, n),
           Head(s).type = "run"
    PROVE  Head(s).doc = d /\ Head(s).n = n /\ NoWork(Tail(s))
<1> DEFINE t == Tail(s)
           h == Head(s)
<1>1. /\ h = s[1] /\ Len(s) \in Nat \ {0} /\ Len(t) = Len(s) - 1 /\ t \in Seq(Messages)
      /\ \A i \in 1..(Len(s) - 1) : t[i] = s[i + 1]
  BY TailSet
<1>2. PICK k \in 1..Len(s) :
        /\ s[k].type = "run" /\ s[k].doc = d /\ s[k].n = n
        /\ \A i \in 1..Len(s) : i < k => s[i].type # "run"
        /\ \A i \in 1..Len(s) : i > k => s[i].type \notin {"edit", "run"}
  BY DEF LastRun
<1>3. h.type = "run"
  OBVIOUS
<1> HIDE DEF t, h
<1>4. k = 1
  <2>1. 1 \in 1..Len(s)
    BY <1>1
  <2> QED
    BY <1>1, <1>2, <1>3, <2>1
<1>5. ASSUME NEW m \in ToSet(t) PROVE m.type \notin {"edit", "run"}
  <2>1. PICK i \in 1..Len(t) : m = t[i]
    BY <1>1, IndexSet
  <2>2. i + 1 \in 1..Len(s) /\ t[i] = s[i + 1] /\ i + 1 > k
    BY <1>1, <1>4
  <2> QED
    BY <1>2, <2>1, <2>2
<1> QED
  BY <1>1, <1>2, <1>4, <1>5 DEF NoWork, t, h

LEMMA LastAppend ==
    ASSUME NEW s \in Seq(Messages), NEW m \in Messages, NEW d, NEW n, LastRun(s, d, n),
           m.type \notin {"edit", "run"}
    PROVE  LastRun(Append(s, m), d, n)
<1> DEFINE a == Append(s, m)
<1>1. /\ Len(s) \in Nat /\ Len(a) = Len(s) + 1
      /\ \A i \in 1..Len(s) : a[i] = s[i]
      /\ a[Len(s) + 1] = m
  BY AppendSet
<1>2. PICK k \in 1..Len(s) :
        /\ s[k].type = "run" /\ s[k].doc = d /\ s[k].n = n
        /\ \A i \in 1..Len(s) : i < k => s[i].type # "run" /\ (s[i].type = "edit" => s[i].doc = d)
        /\ \A i \in 1..Len(s) : i > k => s[i].type \notin {"edit", "run"}
  BY DEF LastRun
<1> HIDE DEF a
<1>3. k \in 1..Len(a) /\ a[k] = s[k]
  BY <1>1
<1>4. ASSUME NEW i \in 1..Len(a)
      PROVE  /\ i < k => a[i].type # "run" /\ (a[i].type = "edit" => a[i].doc = d)
             /\ i > k => a[i].type \notin {"edit", "run"}
  <2>1. CASE i \in 1..Len(s)
    BY <1>1, <1>2, <2>1
  <2>2. CASE i = Len(s) + 1
    BY <1>1, <1>2, <2>2
  <2> QED
    BY <1>1, <2>1, <2>2
<1>5. LastRun(a, d, n)
  BY <1>2, <1>3, <1>4 DEF LastRun
<1> QED
  BY <1>5 DEF a

LEMMA LastEdits ==
    ASSUME NEW s \in Seq(Messages), NEW m \in Messages, OnlyEdits(s, m.doc), m.type = "run"
    PROVE  LastRun(Append(s, m), m.doc, m.n)
<1> DEFINE a == Append(s, m)
<1>1. /\ Len(s) \in Nat /\ Len(a) = Len(s) + 1
      /\ \A i \in 1..Len(s) : a[i] = s[i]
      /\ a[Len(s) + 1] = m
  BY AppendSet
<1>2. \A i \in 1..Len(s) : s[i].type # "run" /\ (s[i].type = "edit" => s[i].doc = m.doc)
  BY IndexSet DEF OnlyEdits
<1> HIDE DEF a
<1> DEFINE k == Len(s) + 1
<1>3. k \in 1..Len(a) /\ a[k] = m
  BY <1>1
<1>4. ASSUME NEW i \in 1..Len(a)
      PROVE  /\ i < k => a[i].type # "run" /\ (a[i].type = "edit" => a[i].doc = m.doc)
             /\ ~(i > k)
  BY <1>1, <1>2
<1> HIDE DEF k
<1>5. LastRun(a, m.doc, m.n)
  BY <1>3, <1>4 DEF LastRun
<1> QED
  BY <1>5 DEF a

LEMMA LastWork ==
    ASSUME NEW s \in Seq(Messages), NEW d, NEW n, LastRun(s, d, n)
    PROVE  s # <<>> /\ \A m \in ToSet(s) : m.type \in {"edit", "run"} => m.doc = d
<1>1. PICK k \in 1..Len(s) :
        /\ s[k].type = "run" /\ s[k].doc = d /\ s[k].n = n
        /\ \A i \in 1..Len(s) : i < k => s[i].type # "run" /\ (s[i].type = "edit" => s[i].doc = d)
        /\ \A i \in 1..Len(s) : i > k => s[i].type \notin {"edit", "run"}
  BY DEF LastRun
<1>2. s # <<>>
  <2>1. Len(<<>>) = 0
    OBVIOUS
  <2> QED
    BY <1>1, <2>1
<1>3. ASSUME NEW m \in ToSet(s), m.type \in {"edit", "run"} PROVE m.doc = d
  <2>1. PICK i \in 1..Len(s) : m = s[i]
    BY IndexSet
  <2>2. i < k \/ i = k \/ i > k
    OBVIOUS
  <2> QED
    BY <1>1, <1>3, <2>1, <2>2
<1> QED
  BY <1>2, <1>3

\* A session that has no work gets the edits of a paper, and its run behind them.
LEMMA LastConcat ==
    ASSUME NEW p \in Seq(Messages), NEW r \in Seq(Messages), NoWork(p), r # <<>>,
           NEW d, NEW n, r[Len(r)].type = "run", r[Len(r)].doc = d, r[Len(r)].n = n,
           \A i \in 1..(Len(r) - 1) : r[i].type # "run" /\ (r[i].type = "edit" => r[i].doc = d)
    PROVE  /\ LastRun(p \o r, d, n) /\ ~Aimed(p \o r)
           /\ ToSet(p \o r) = ToSet(p) \cup ToSet(r)
<1> DEFINE a == p \o r
           k == Len(p) + Len(r)
<1>1. /\ Len(p) \in Nat /\ Len(r) \in Nat /\ Len(a) = k
      /\ \A i \in 1..Len(p) : a[i] = p[i]
      /\ \A i \in 1..Len(r) : a[Len(p) + i] = r[i]
      /\ ToSet(a) = ToSet(p) \cup ToSet(r)
  BY ConcatSet
<1>2. Len(r) # 0
  BY MemberSet
<1>3. \A i \in 1..Len(p) : p[i].type \notin {"edit", "run"}
  BY IndexSet DEF NoWork
<1> HIDE DEF a
<1>4. k \in 1..Len(a) /\ a[k] = r[Len(r)]
  <2>1. Len(r) \in 1..Len(r)
    BY <1>1, <1>2
  <2> QED
    BY <1>1, <2>1
<1>5. ASSUME NEW i \in 1..Len(a), i < k
      PROVE  a[i].type # "run" /\ (a[i].type = "edit" => a[i].doc = d)
  <2>1. CASE i <= Len(p)
    <3>1. i \in 1..Len(p)
      BY <1>1, <2>1
    <3> QED
      BY <1>1, <1>3, <3>1
  <2>2. CASE ~(i <= Len(p))
    <3>1. i - Len(p) \in 1..(Len(r) - 1) /\ i - Len(p) \in 1..Len(r) /\ Len(p) + (i - Len(p)) = i
      BY <1>1, <1>5, <2>2
    <3>2. a[i] = r[i - Len(p)]
      BY <1>1, <3>1
    <3> QED
      BY <3>1, <3>2
  <2> QED
    BY <2>1, <2>2
<1>6. \A i \in 1..Len(a) : ~(i > k)
  BY <1>1
<1>7. k \in Nat
  BY <1>1
<1> HIDE DEF k
<1>8. LastRun(a, d, n)
  BY <1>4, <1>5, <1>6 DEF LastRun
<1>9. ~Aimed(a)
  <2> SUFFICES ASSUME NEW i \in 1..Len(a), a[i].type = "cancel",
                      \A j \in 1..Len(a) : j > i => a[j].type # "run"
               PROVE  FALSE
    BY DEF Aimed
  <2>1. a[k].type = "run"
    BY <1>4
  <2>2. i # k
    BY <2>1
  <2>3. k > i
    BY <1>6, <1>7, <2>2
  <2> QED
    BY <1>4, <2>1, <2>3
<1> QED
  BY <1>1, <1>8, <1>9 DEF a

LEMMA AimedTail ==
    ASSUME NEW s \in Seq(Messages), s # <<>>
    PROVE  /\ Aimed(Tail(s)) => Aimed(s)
           /\ NoWork(s) /\ Head(s).type = "cancel" => Aimed(s)
<1> DEFINE t == Tail(s)
<1>1. /\ Head(s) = s[1] /\ Len(s) \in Nat \ {0} /\ Len(t) = Len(s) - 1
      /\ \A i \in 1..(Len(s) - 1) : t[i] = s[i + 1]
  BY TailSet
<1>2. ASSUME NoWork(s), Head(s).type = "cancel" PROVE Aimed(s)
  <2>1. \A i \in 1..Len(s) : s[i].type # "run"
    BY <1>2, IndexSet DEF NoWork
  <2>2. 1 \in 1..Len(s)
    BY <1>1
  <2> QED
    BY <1>1, <1>2, <2>1, <2>2 DEF Aimed
<1> HIDE DEF t
<1>3. ASSUME Aimed(t) PROVE Aimed(s)
  <2>1. PICK i \in 1..Len(t) : t[i].type = "cancel" /\ \A j \in 1..Len(t) : j > i => t[j].type # "run"
    BY <1>3 DEF Aimed
  <2>2. i + 1 \in 1..Len(s) /\ s[i + 1].type = "cancel"
    BY <1>1, <2>1
  <2>3. ASSUME NEW j \in 1..Len(s), j > i + 1 PROVE s[j].type # "run"
    <3>1. j - 1 \in 1..Len(t) /\ j - 1 > i /\ (j - 1) + 1 = j
      BY <1>1, <2>3
    <3>2. t[j - 1] = s[j]
      BY <1>1, <3>1
    <3> QED
      BY <2>1, <3>1, <3>2
  <2> QED
    BY <2>2, <2>3 DEF Aimed
<1> QED
  BY <1>2, <1>3 DEF t

\* Lines.
LEMMA OneAppend ==
    ASSUME NEW s \in Seq(Lines), NEW l \in Lines, NoFinish(s), l.type = "run_finished"
    PROVE  OneFinish(Append(s, l))
<1> DEFINE a == Append(s, l)
           k == Len(s) + 1
<1>1. /\ Len(s) \in Nat /\ Len(a) = k /\ a[k] = l
      /\ \A i \in 1..Len(s) : a[i] = s[i]
  BY AppendSet
<1>2. \A i \in 1..Len(s) : s[i].type # "run_finished"
  BY IndexSet DEF NoFinish
<1> HIDE DEF a
<1>3. k \in 1..Len(a) /\ \A i \in 1..Len(a) : i # k => i \in 1..Len(s)
  BY <1>1
<1> HIDE DEF k
<1>4. \A i \in 1..Len(a) : a[i].type = "run_finished" => i = k
  BY <1>1, <1>2, <1>3
<1>5. OneFinish(a)
  BY <1>1, <1>3, <1>4 DEF OneFinish
<1> QED
  BY <1>5 DEF a

LEMMA OneTail ==
    ASSUME NEW s \in Seq(Lines), s # <<>>, OneFinish(s)
    PROVE  /\ Head(s).type # "run_finished" => OneFinish(Tail(s))
           /\ Head(s).type = "run_finished" => NoFinish(Tail(s))
<1> DEFINE t == Tail(s)
           h == Head(s)
<1>1. /\ h = s[1] /\ Len(s) \in Nat \ {0} /\ Len(t) = Len(s) - 1 /\ t \in Seq(Lines)
      /\ \A i \in 1..(Len(s) - 1) : t[i] = s[i + 1]
  BY TailSet
<1>2. PICK k \in 1..Len(s) : /\ s[k].type = "run_finished"
                             /\ \A i \in 1..Len(s) : s[i].type = "run_finished" => i = k
  BY DEF OneFinish
<1> HIDE DEF t, h
<1>3. \A i \in 1..Len(t) : i + 1 \in 1..Len(s) /\ t[i] = s[i + 1]
  BY <1>1
<1>4. ASSUME h.type # "run_finished" PROVE OneFinish(t)
  <2>1. k # 1
    BY <1>1, <1>2, <1>4
  <2>2. k - 1 \in 1..Len(t) /\ (k - 1) + 1 = k
    BY <1>1, <1>2, <2>1
  <2>3. t[k - 1].type = "run_finished"
    BY <1>2, <1>3, <2>2
  <2>4. ASSUME NEW i \in 1..Len(t), t[i].type = "run_finished" PROVE i = k - 1
    <3>1. i + 1 = k
      BY <1>2, <1>3, <2>4
    <3> QED
      BY <1>1, <3>1
  <2> QED
    BY <2>2, <2>3, <2>4 DEF OneFinish
<1>5. ASSUME h.type = "run_finished" PROVE NoFinish(t)
  <2>1. k = 1
    <3>1. 1 \in 1..Len(s)
      BY <1>1
    <3> QED
      BY <1>1, <1>2, <1>5, <3>1
  <2>2. ASSUME NEW i \in 1..Len(t) PROVE t[i].type # "run_finished"
    <3>1. i + 1 # k
      BY <1>1, <2>1
    <3> QED
      BY <1>2, <1>3, <3>1
  <2> QED
    BY <1>1, <2>2, IndexSet DEF NoFinish
<1> QED
  BY <1>4, <1>5 DEF t, h

LEMMA BeginsLines ==
    ASSUME NEW s \in Seq(Lines), NEW n \in Nat
    PROVE  /\ Without(s, n) => Begins(s, n)
           /\ Begins(s, n) /\ s # <<>> /\ Head(s).n = n => Head(s).type = "run_started"
           /\ \A l \in Lines :
                 /\ Without(s, n) /\ l.type = "run_started" => Begins(Append(s, l), n)
                 /\ Begins(s, n) /\ Begun(s, n) => Begins(Append(s, l), n)
<1>1. \A i \in 1..Len(s) : s[i] \in ToSet(s)
  BY IndexSet
<1>2. Without(s, n) => Begins(s, n)
  BY <1>1 DEF Without, Begins
<1>3. ASSUME Begins(s, n), s # <<>>, Head(s).n = n PROVE Head(s).type = "run_started"
  <2>1. Head(s) = s[1] /\ Len(s) \in Nat \ {0}
    BY <1>3, TailSet
  <2>2. 1 \in 1..Len(s)
    BY <2>1
  <2>3. PICK j \in 1..1 : s[j].type = "run_started"
    BY <1>3, <2>1, <2>2 DEF Begins
  <2>4. j = 1
    OBVIOUS
  <2> QED
    BY <2>1, <2>3, <2>4
<1>4. ASSUME NEW l \in Lines PROVE
         /\ Without(s, n) /\ l.type = "run_started" => Begins(Append(s, l), n)
         /\ Begins(s, n) /\ Begun(s, n) => Begins(Append(s, l), n)
  <2> DEFINE a == Append(s, l)
             k == Len(s) + 1
  <2>1. /\ Len(s) \in Nat /\ Len(a) = k /\ a[k] = l
        /\ \A i \in 1..Len(s) : a[i] = s[i]
    BY AppendSet
  <2> HIDE DEF a
  <2>2. /\ k \in 1..Len(a) /\ \A i \in 1..Len(a) : i # k => i \in 1..Len(s)
        /\ \A i \in 1..Len(s) : i \in 1..k /\ i \in 1..Len(a) /\ \A j \in 1..i : j \in 1..Len(s)
        /\ k \in 1..k
    BY <2>1
  <2> HIDE DEF k
  <2>3. ASSUME Without(s, n), l.type = "run_started" PROVE Begins(a, n)
    <3>1. ASSUME NEW i \in 1..Len(a), a[i].n = n
          PROVE  \E j \in 1..i : a[j].type = "run_started" /\ a[j].n = n
      <4>1. i = k
        BY <1>1, <2>1, <2>2, <2>3, <3>1 DEF Without
      <4> QED
        BY <2>1, <2>2, <2>3, <3>1, <4>1
    <3> QED
      BY <3>1 DEF Begins
  <2>4. ASSUME Begins(s, n), Begun(s, n) PROVE Begins(a, n)
    <3>1. PICK b \in 1..Len(s) : s[b].type = "run_started" /\ s[b].n = n
      BY <2>4, IndexSet DEF Begun
    <3>2. ASSUME NEW i \in 1..Len(a), a[i].n = n
          PROVE  \E j \in 1..i : a[j].type = "run_started" /\ a[j].n = n
      <4>1. CASE i = k
        BY <2>1, <2>2, <3>1, <4>1
      <4>2. CASE i # k
        <5>1. i \in 1..Len(s) /\ s[i].n = n
          BY <2>1, <2>2, <3>2, <4>2
        <5>2. PICK j \in 1..i : s[j].type = "run_started" /\ s[j].n = n
          BY <2>4, <5>1 DEF Begins
        <5>3. a[j] = s[j]
          BY <2>1, <2>2, <5>1
        <5> QED
          BY <5>2, <5>3
      <4> QED
        BY <4>1, <4>2
    <3> QED
      BY <3>2 DEF Begins
  <2> QED
    BY <2>3, <2>4 DEF a
<1> QED
  BY <1>2, <1>3, <1>4

-----------------------------------------------------------------------------
(* Steps of an engine and the run it carries *)

\* An engine without work does nothing but read.
LEMMA MoveClean ==
    ASSUME NEW e \in Engines, NEW f \in Engines, Moves(e, f), Clean(e)
    PROVE  Clean(f) /\ f.lines = e.lines
<1>0. NoWork(e.pipe) /\ NoWork(e.channel) /\ e.run = NoRun /\ NoFinish(e.lines)
  BY DEF Clean
<1>1. CASE CancelRead(e, f)
  <2>1. /\ ToSet(f.pipe) \subseteq ToSet(e.pipe) /\ f.channel = e.channel /\ f.run = e.run
        /\ f.lines = e.lines
    BY <1>1, CancelReadFields
  <2> QED
    BY <1>0, <2>1 DEF Clean, NoWork
<1>2. CASE RequestRead(e, f)
  <2>1. /\ ToSet(f.pipe) \subseteq ToSet(e.pipe) /\ Head(e.pipe) \in ToSet(e.pipe)
        /\ ToSet(f.channel) = ToSet(e.channel) \cup {Head(e.pipe)} /\ f.run = e.run
        /\ f.lines = e.lines
    BY <1>2, RequestReadFields
  <2> QED
    BY <1>0, <2>1 DEF Clean, NoWork
<1>3. CASE EofRead(e, f)
  BY <1>0, <1>3, EofReadFields DEF Clean
<1>4. CASE ConfigureTaken(e, f)
  <2>1. /\ f.pipe = e.pipe /\ ToSet(f.channel) \subseteq ToSet(e.channel) /\ f.run = e.run
        /\ f.lines = e.lines
    BY <1>4, TakenFields, ConfigureTakenFields
  <2> QED
    BY <1>0, <2>1 DEF Clean, NoWork
<1>5. CASE EditTaken(e, f) \/ RunTaken(e, f) \/ RunMissed(e, f) \/ PagesTaken(e, f)
  <2>1. Head(e.channel) \in ToSet(e.channel)
    BY <1>5, TakenFields
  <2>2. Head(e.channel).type \in {"edit", "run"}
    BY <1>5, EditTakenFields, RunTakenFields, RunMissedFields, PagesTakenFields
  <2> QED
    BY <1>0, <2>1, <2>2 DEF NoWork
<1>6. CASE FellBack(e, f) \/ RunPublished(e, f) \/ RunFinished(e, f)
  BY <1>0, <1>6, FellBackFields, RunPublishedFields, RunFinishedFields
<1> QED
  BY <1>1, <1>2, <1>3, <1>4, <1>5, <1>6 DEF Moves

LEMMA MoveSent ==
    ASSUME NEW e \in Engines, NEW f \in Engines, Moves(e, f), NEW d \in Docs, NEW n \in Nat,
           Sent(e, d, n)
    PROVE  Sent(f, d, n) \/ Received(f, d, n)
<1>0. /\ LastRun(e.pipe, d, n) /\ OnlyEdits(e.channel, d) /\ e.run = NoRun
      /\ NoFinish(e.lines) /\ Without(e.lines, n)
      /\ e.pipe \in Seq(Messages) /\ e.channel \in Seq(Messages) /\ e.pipe # <<>>
  BY EngineFields, LastWork DEF Sent
<1>1. CASE CancelRead(e, f)
  <2>1. /\ f.pipe = Tail(e.pipe) /\ Head(e.pipe).type = "cancel"
        /\ f.channel = e.channel /\ f.run = e.run /\ f.lines = e.lines
    BY <1>1, CancelReadFields
  <2>2. LastRun(f.pipe, d, n)
    BY <1>0, <2>1, LastTail
  <2> QED
    BY <1>0, <2>1, <2>2 DEF Sent
<1>2. CASE RequestRead(e, f)
  <2> DEFINE h == Head(e.pipe)
  <2>1. /\ f.pipe = Tail(e.pipe) /\ h \in Messages
        /\ f.channel = Append(e.channel, h) /\ ToSet(f.channel) = ToSet(e.channel) \cup {h}
        /\ f.run = e.run /\ f.lines = e.lines
    BY <1>2, RequestReadFields
  <2>2. CASE h.type = "run"
    <3>1. h.doc = d /\ h.n = n /\ NoWork(f.pipe)
      BY <1>0, <2>1, <2>2, LastHead
    <3> HIDE DEF h
    <3>2. LastRun(Append(e.channel, h), h.doc, h.n)
      BY <1>0, <2>1, <2>2, <3>1, LastEdits
    <3> QED
      BY <1>0, <2>1, <3>1, <3>2 DEF Received
  <2>3. CASE h.type # "run"
    <3>1. LastRun(f.pipe, d, n) /\ (h.type = "edit" => h.doc = d)
      BY <1>0, <2>1, <2>3, LastTail
    <3> HIDE DEF h
    <3>2. OnlyEdits(f.channel, d)
      BY <1>0, <2>1, <2>3, <3>1 DEF OnlyEdits
    <3> QED
      BY <1>0, <2>1, <3>1, <3>2 DEF Sent
  <2> QED
    BY <2>2, <2>3
<1>3. CASE EofRead(e, f)
  BY <1>0, <1>3 DEF EofRead
<1>4. CASE ConfigureTaken(e, f) \/ EditTaken(e, f)
  <2>1. /\ f.pipe = e.pipe /\ ToSet(f.channel) \subseteq ToSet(e.channel)
        /\ f.run = e.run /\ f.lines = e.lines
    BY <1>4, TakenFields, ConfigureTakenFields, EditTakenFields
  <2> QED
    BY <1>0, <2>1 DEF Sent, OnlyEdits
<1>5. CASE RunTaken(e, f) \/ RunMissed(e, f) \/ PagesTaken(e, f)
  <2>1. Head(e.channel) \in ToSet(e.channel) /\ Head(e.channel).type = "run"
    BY <1>5, TakenFields, RunTakenFields, RunMissedFields, PagesTakenFields
  <2> QED
    BY <1>0, <2>1 DEF OnlyEdits
<1>6. CASE FellBack(e, f) \/ RunPublished(e, f) \/ RunFinished(e, f)
  BY <1>0, <1>6, FellBackFields, RunPublishedFields, RunFinishedFields
<1> QED
  BY <1>1, <1>2, <1>3, <1>4, <1>5, <1>6 DEF Moves

LEMMA MoveReceived ==
    ASSUME NEW e \in Engines, NEW f \in Engines, Moves(e, f), NEW d \in Docs, NEW n \in Nat,
           Received(e, d, n)
    PROVE  Received(f, d, n) \/ Running(f, d, n) \/ Reported(f)
<1>0. /\ NoWork(e.pipe) /\ LastRun(e.channel, d, n) /\ e.run = NoRun
      /\ NoFinish(e.lines) /\ Without(e.lines, n)
      /\ e.pipe \in Seq(Messages) /\ e.channel \in Seq(Messages) /\ e.channel # <<>>
  BY EngineFields, LastWork DEF Received
<1>1. CASE CancelRead(e, f)
  <2>1. /\ ToSet(f.pipe) \subseteq ToSet(e.pipe)
        /\ f.channel = e.channel /\ f.run = e.run /\ f.lines = e.lines
    BY <1>1, CancelReadFields
  <2> QED
    BY <1>0, <2>1 DEF Received, NoWork
<1>2. CASE RequestRead(e, f)
  <2> DEFINE h == Head(e.pipe)
  <2>1. /\ ToSet(f.pipe) \subseteq ToSet(e.pipe) /\ h \in Messages /\ h \in ToSet(e.pipe)
        /\ f.channel = Append(e.channel, h)
        /\ f.run = e.run /\ f.lines = e.lines
    BY <1>2, RequestReadFields
  <2> HIDE DEF h
  <2>2. NoWork(f.pipe) /\ h.type \notin {"edit", "run"}
    BY <1>0, <2>1 DEF NoWork
  <2>3. LastRun(f.channel, d, n)
    BY <1>0, <2>1, <2>2, LastAppend
  <2> QED
    BY <1>0, <2>1, <2>2, <2>3 DEF Received
<1>3. CASE EofRead(e, f)
  BY <1>0, <1>3, EofReadFields DEF Received
<1>4. CASE ConfigureTaken(e, f) \/ EditTaken(e, f)
  <2>1. /\ f.pipe = e.pipe /\ f.channel = Tail(e.channel) /\ Head(e.channel).type # "run"
        /\ f.run = e.run /\ f.lines = e.lines
    BY <1>4, TakenFields, ConfigureTakenFields, EditTakenFields
  <2>2. LastRun(f.channel, d, n)
    BY <1>0, <2>1, LastTail
  <2> QED
    BY <1>0, <2>1, <2>2 DEF Received
<1>5. CASE RunTaken(e, f)
  <2> DEFINE h == Head(e.channel)
             l == Line("run_started", h.n, FALSE)
  <2>1. /\ f.pipe = e.pipe /\ f.channel = Tail(e.channel) /\ h.type = "run"
        /\ f.run.doc = h.doc /\ f.run.n = h.n
        /\ ToSet(f.lines) = ToSet(e.lines) \cup {l} /\ l.type = "run_started"
    BY <1>5, TakenFields, RunTakenFields, ZenonT(60) DEF Adds
  <2>2. h.doc = d /\ h.n = n /\ NoWork(f.channel)
    BY <1>0, <2>1, LastHead
  <2> HIDE DEF h, l
  <2>3. f.run # NoRun
    BY <1>5, RunTakenFields
  <2>4. NoFinish(f.lines)
    BY <1>0, <2>1 DEF NoFinish
  <2> QED
    BY <1>0, <2>1, <2>2, <2>3, <2>4 DEF Running
<1>6. CASE FellBack(e, f) \/ RunPublished(e, f) \/ RunFinished(e, f)
  BY <1>0, <1>6, FellBackFields, RunPublishedFields, RunFinishedFields
<1>7. CASE RunMissed(e, f)
  <2> DEFINE h == Head(e.channel)
             l == Line("run_finished", h.n, FALSE)
  <2>1. /\ f.pipe = e.pipe /\ f.channel = Tail(e.channel) /\ h.type = "run" /\ f.run = NoRun
        /\ f.lines = Append(e.lines, l) /\ l \in Lines /\ l.type = "run_finished"
    BY <1>7, TakenFields, RunMissedFields, ZenonT(60) DEF Adds
  <2>2. NoWork(f.channel)
    BY <1>0, <2>1, LastHead
  <2> HIDE DEF h, l
  <2>3. OneFinish(f.lines)
    <3>1. e.lines \in Seq(Lines)
      BY EngineFields
    <3> QED
      BY <1>0, <2>1, <3>1, OneAppend
  <2> QED
    BY <1>0, <2>1, <2>2, <2>3 DEF Reported
<1>8. CASE PagesTaken(e, f)
  <2> DEFINE h == Head(e.channel)
  <2>1. /\ f.pipe = e.pipe /\ f.channel = Tail(e.channel) /\ h.type = "run"
        /\ f.run.doc = h.doc /\ f.run.n = h.n /\ f.run # NoRun /\ f.lines = e.lines
    BY <1>8, TakenFields, PagesTakenFields
  <2>2. h.doc = d /\ h.n = n /\ NoWork(f.channel)
    BY <1>0, <2>1, LastHead
  <2> HIDE DEF h
  <2> QED
    BY <1>0, <2>1, <2>2 DEF Running
<1> QED
  BY <1>1, <1>2, <1>3, <1>4, <1>5, <1>6, <1>7, <1>8 DEF Moves

LEMMA MoveRunning ==
    ASSUME NEW e \in Engines, NEW f \in Engines, Moves(e, f), NEW d \in Docs, NEW n \in Nat,
           Running(e, d, n)
    PROVE  Running(f, d, n) \/ Reported(f)
<1>0. /\ NoWork(e.pipe) /\ NoWork(e.channel)
      /\ e.run # NoRun /\ e.run.doc = d /\ e.run.n = n /\ NoFinish(e.lines)
      /\ e.pipe \in Seq(Messages) /\ e.channel \in Seq(Messages) /\ e.lines \in Seq(Lines)
  BY EngineFields DEF Running
<1>1. CASE CancelRead(e, f)
  <2>1. /\ ToSet(f.pipe) \subseteq ToSet(e.pipe)
        /\ f.channel = e.channel /\ f.run = e.run /\ f.lines = e.lines
    BY <1>1, CancelReadFields
  <2> QED
    BY <1>0, <2>1 DEF Running, NoWork
<1>2. CASE RequestRead(e, f)
  <2>1. /\ ToSet(f.pipe) \subseteq ToSet(e.pipe) /\ Head(e.pipe) \in ToSet(e.pipe)
        /\ ToSet(f.channel) = ToSet(e.channel) \cup {Head(e.pipe)}
        /\ f.run = e.run /\ f.lines = e.lines
    BY <1>2, RequestReadFields
  <2> QED
    BY <1>0, <2>1 DEF Running, NoWork
<1>3. CASE EofRead(e, f)
  BY <1>0, <1>3, EofReadFields DEF Running
<1>4. CASE \/ ConfigureTaken(e, f) \/ EditTaken(e, f) \/ RunTaken(e, f) \/ RunMissed(e, f)
           \/ PagesTaken(e, f)
  BY <1>0, <1>4, TakenFields
<1>5. CASE RunPublished(e, f)
  <2> DEFINE l == Line("document_finished", e.run.n, FALSE)
  <2>1. /\ f.run # NoRun /\ f.pipe = e.pipe /\ f.channel = e.channel
        /\ f.run.doc = e.run.doc /\ f.run.n = e.run.n
        /\ ToSet(f.lines) = ToSet(e.lines) \cup {l} /\ l.type = "document_finished"
    BY <1>5, RunPublishedFields DEF Adds
  <2> HIDE DEF l
  <2>2. NoFinish(f.lines)
    BY <1>0, <2>1 DEF NoFinish
  <2> QED
    BY <1>0, <2>1, <2>2 DEF Running
<1>6. CASE RunFinished(e, f)
  <2>1. /\ f.run = NoRun /\ f.pipe = e.pipe /\ f.channel = e.channel
    BY <1>6, RunFinishedFields
  <2>2. PICK ok \in BOOLEAN : Adds(e, f, "run_finished", e.run.n, ok)
    BY <1>6, RunFinishedFields
  <2> DEFINE l == Line("run_finished", e.run.n, ok)
  <2>3. f.lines = Append(e.lines, l) /\ l \in Lines /\ l.type = "run_finished"
    BY <2>2 DEF Adds
  <2> HIDE DEF l
  <2>4. OneFinish(f.lines)
    BY <1>0, <2>3, OneAppend
  <2> QED
    BY <1>0, <2>1, <2>4 DEF Reported
<1>7. CASE FellBack(e, f)
  <2> DEFINE l == Line("run_started", e.run.n, FALSE)
  <2>1. /\ f.run # NoRun /\ f.pipe = e.pipe /\ f.channel = e.channel
        /\ f.run.doc = e.run.doc /\ f.run.n = e.run.n
        /\ ToSet(f.lines) = ToSet(e.lines) \cup {l} /\ l.type = "run_started"
    BY <1>7, FellBackFields DEF Adds
  <2> HIDE DEF l
  <2>2. NoFinish(f.lines)
    BY <1>0, <2>1 DEF NoFinish
  <2> QED
    BY <1>0, <2>1, <2>2 DEF Running
<1> QED
  BY <1>1, <1>2, <1>3, <1>4, <1>5, <1>6, <1>7 DEF Moves

LEMMA MoveReported ==
    ASSUME NEW e \in Engines, NEW f \in Engines, Moves(e, f), Reported(e)
    PROVE  Reported(f)
<1>0. NoWork(e.pipe) /\ NoWork(e.channel) /\ e.run = NoRun /\ OneFinish(e.lines)
  BY DEF Reported
<1>1. CASE CancelRead(e, f)
  <2>1. /\ ToSet(f.pipe) \subseteq ToSet(e.pipe) /\ f.channel = e.channel /\ f.run = e.run
        /\ f.lines = e.lines
    BY <1>1, CancelReadFields
  <2> QED
    BY <1>0, <2>1 DEF Reported, NoWork
<1>2. CASE RequestRead(e, f)
  <2>1. /\ ToSet(f.pipe) \subseteq ToSet(e.pipe) /\ Head(e.pipe) \in ToSet(e.pipe)
        /\ ToSet(f.channel) = ToSet(e.channel) \cup {Head(e.pipe)} /\ f.run = e.run
        /\ f.lines = e.lines
    BY <1>2, RequestReadFields
  <2> QED
    BY <1>0, <2>1 DEF Reported, NoWork
<1>3. CASE EofRead(e, f)
  BY <1>0, <1>3, EofReadFields DEF Reported
<1>4. CASE ConfigureTaken(e, f)
  <2>1. /\ f.pipe = e.pipe /\ ToSet(f.channel) \subseteq ToSet(e.channel) /\ f.run = e.run
        /\ f.lines = e.lines
    BY <1>4, TakenFields, ConfigureTakenFields
  <2> QED
    BY <1>0, <2>1 DEF Reported, NoWork
<1>5. CASE EditTaken(e, f) \/ RunTaken(e, f) \/ RunMissed(e, f) \/ PagesTaken(e, f)
  <2>1. Head(e.channel) \in ToSet(e.channel)
    BY <1>5, TakenFields
  <2>2. Head(e.channel).type \in {"edit", "run"}
    BY <1>5, EditTakenFields, RunTakenFields, RunMissedFields, PagesTakenFields
  <2> QED
    BY <1>0, <2>1, <2>2 DEF NoWork
<1>6. CASE FellBack(e, f) \/ RunPublished(e, f) \/ RunFinished(e, f)
  BY <1>0, <1>6, FellBackFields, RunPublishedFields, RunFinishedFields
<1> QED
  BY <1>1, <1>2, <1>3, <1>4, <1>5, <1>6 DEF Moves

LEMMA MoveCarries ==
    ASSUME NEW e \in Engines, NEW f \in Engines, Moves(e, f), NEW d \in Docs, NEW n \in Nat,
           Carries(e, d, n)
    PROVE  Carries(f, d, n)
  BY MoveSent, MoveReceived, MoveRunning, MoveReported DEF Carries

\* No step makes a cancel reach a run it did not reach before.
LEMMA MoveHit ==
    ASSUME NEW e \in Engines, NEW f \in Engines, Moves(e, f),
           e.run # NoRun => NoWork(e.pipe), Hit(f)
    PROVE  Hit(e)
<1>0. e.pipe \in Seq(Messages)
  BY EngineFields
<1>1. CASE CancelRead(e, f)
  <2>1. /\ e.pipe # <<>> /\ Head(e.pipe).type = "cancel" /\ f.pipe = Tail(e.pipe)
        /\ f.run = e.run /\ f.eof = e.eof
    BY <1>1, CancelReadFields
  <2>2. (Aimed(f.pipe) => Aimed(e.pipe)) /\ (NoWork(e.pipe) => Aimed(e.pipe))
    BY <1>0, <2>1, AimedTail
  <2> QED
    BY <2>1, <2>2 DEF Hit
<1>2. CASE RequestRead(e, f)
  <2>1. /\ e.pipe # <<>> /\ f.pipe = Tail(e.pipe)
        /\ f.run = e.run /\ f.eof = e.eof /\ f.cancelled = e.cancelled
    BY <1>2, RequestReadFields
  <2>2. Aimed(f.pipe) => Aimed(e.pipe)
    BY <1>0, <2>1, AimedTail
  <2> QED
    BY <2>1, <2>2 DEF Hit
<1>3. CASE EofRead(e, f)
  BY <1>3, EofReadFields DEF Hit
<1>4. CASE ConfigureTaken(e, f) \/ EditTaken(e, f)
  BY <1>4, TakenFields, ConfigureTakenFields, EditTakenFields, ZenonT(60) DEF Hit
<1>5. CASE RunTaken(e, f)
  BY <1>5, TakenFields, RunTakenFields DEF Hit
<1>6. CASE RunPublished(e, f)
  BY <1>6, RunPublishedFields DEF Hit
<1>7. CASE RunFinished(e, f)
  BY <1>7, RunFinishedFields DEF Hit
<1>8. CASE RunMissed(e, f) \/ PagesTaken(e, f)
  BY <1>8, TakenFields, RunMissedFields, PagesTakenFields DEF Hit
<1>9. CASE FellBack(e, f)
  BY <1>9, FellBackFields DEF Hit
<1> QED
  BY <1>1, <1>2, <1>3, <1>4, <1>5, <1>6, <1>7, <1>8, <1>9 DEF Moves

LEMMA MoveUncancelled ==
    ASSUME NEW e \in Engines, NEW f \in Engines, Moves(e, f), Uncancelled(e)
    PROVE  Uncancelled(f)
<1>0. (\A m \in ToSet(e.pipe) : m.type # "cancel") /\ (e.cancelled => e.eof)
  BY DEF Uncancelled
<1>1. CASE CancelRead(e, f)
  BY <1>0, <1>1, CancelReadFields
<1>2. CASE RequestRead(e, f)
  <2>1. ToSet(f.pipe) \subseteq ToSet(e.pipe) /\ f.eof = e.eof /\ f.cancelled = e.cancelled
    BY <1>2, RequestReadFields
  <2> QED
    BY <1>0, <2>1 DEF Uncancelled
<1>3. CASE EofRead(e, f)
  BY <1>0, <1>3, EofReadFields DEF Uncancelled
<1>4. CASE ConfigureTaken(e, f) \/ EditTaken(e, f)
  BY <1>0, <1>4, TakenFields, ConfigureTakenFields, EditTakenFields, ZenonT(60) DEF Uncancelled
<1>5. CASE RunTaken(e, f)
  BY <1>0, <1>5, TakenFields, RunTakenFields DEF Uncancelled
<1>6. CASE RunPublished(e, f)
  BY <1>0, <1>6, RunPublishedFields DEF Uncancelled
<1>7. CASE RunFinished(e, f)
  BY <1>0, <1>7, RunFinishedFields DEF Uncancelled
<1>8. CASE RunMissed(e, f) \/ PagesTaken(e, f)
  BY <1>0, <1>8, TakenFields, RunMissedFields, PagesTakenFields DEF Uncancelled
<1>9. CASE FellBack(e, f)
  BY <1>0, <1>9, FellBackFields DEF Uncancelled
<1> QED
  BY <1>1, <1>2, <1>3, <1>4, <1>5, <1>6, <1>7, <1>8, <1>9 DEF Moves

LEMMA MoveOrphan ==
    ASSUME NEW e \in Engines, NEW f \in Engines, Moves(e, f), Orphan(e)
    PROVE  Orphan(f)
<1>0. /\ \A m \in ToSet(e.pipe) \cup ToSet(e.channel) : m.type \in {"edit", "run"} => NotDone(m.doc)
      /\ NotDone(e.run.doc)
  BY DEF Orphan
<1>u. Uncancelled(f)
  BY MoveUncancelled DEF Orphan
<1>1. CASE CancelRead(e, f)
  <2>1. ToSet(f.pipe) \subseteq ToSet(e.pipe) /\ f.channel = e.channel /\ f.run = e.run
    BY <1>1, CancelReadFields
  <2> QED
    BY <1>0, <1>u, <2>1 DEF Orphan
<1>2. CASE RequestRead(e, f)
  <2>1. /\ ToSet(f.pipe) \subseteq ToSet(e.pipe) /\ Head(e.pipe) \in ToSet(e.pipe)
        /\ ToSet(f.channel) = ToSet(e.channel) \cup {Head(e.pipe)} /\ f.run = e.run
    BY <1>2, RequestReadFields
  <2> QED
    BY <1>0, <1>u, <2>1 DEF Orphan
<1>3. CASE EofRead(e, f)
  BY <1>0, <1>u, <1>3, EofReadFields DEF Orphan
<1>4. CASE ConfigureTaken(e, f) \/ EditTaken(e, f)
  <2>1. f.pipe = e.pipe /\ ToSet(f.channel) \subseteq ToSet(e.channel) /\ f.run = e.run
    BY <1>4, TakenFields, ConfigureTakenFields, EditTakenFields
  <2> QED
    BY <1>0, <1>u, <2>1 DEF Orphan
<1>5. CASE RunTaken(e, f) \/ PagesTaken(e, f)
  <2>1. /\ f.pipe = e.pipe /\ ToSet(f.channel) \subseteq ToSet(e.channel)
        /\ Head(e.channel) \in ToSet(e.channel) /\ Head(e.channel).type = "run"
        /\ f.run.doc = Head(e.channel).doc
    BY <1>5, TakenFields, RunTakenFields, PagesTakenFields
  <2> QED
    BY <1>0, <1>u, <2>1 DEF Orphan
<1>6. CASE RunPublished(e, f)
  BY <1>0, <1>u, <1>6, RunPublishedFields DEF Orphan
<1>7. CASE RunFinished(e, f)
  <2>1. f.pipe = e.pipe /\ f.channel = e.channel /\ f.run = NoRun
    BY <1>7, RunFinishedFields
  <2>2. NotDone(NoRun.doc)
    BY ConstantsAssumption DEF NoRun, NotDone, ConstantsAssumption
  <2> QED
    BY <1>0, <1>u, <2>1, <2>2 DEF Orphan
<1>8. CASE RunMissed(e, f)
  <2>1. f.pipe = e.pipe /\ ToSet(f.channel) \subseteq ToSet(e.channel) /\ f.run = NoRun
    BY <1>8, TakenFields, RunMissedFields
  <2>2. NotDone(NoRun.doc)
    BY ConstantsAssumption DEF NoRun, NotDone, ConstantsAssumption
  <2> QED
    BY <1>0, <1>u, <2>1, <2>2 DEF Orphan
<1>9. CASE FellBack(e, f)
  BY <1>0, <1>u, <1>9, FellBackFields DEF Orphan
<1> QED
  BY <1>1, <1>2, <1>3, <1>4, <1>5, <1>6, <1>7, <1>8, <1>9 DEF Moves

-----------------------------------------------------------------------------
(* Steps of an engine keep the flow of runs *)

LEMMA CarriesRun ==
    ASSUME NEW e \in Engines, NEW d, NEW n, Carries(e, d, n)
    PROVE  /\ e.run # NoRun => Running(e, d, n) /\ NoWork(e.pipe)
           /\ \A m \in ToSet(e.pipe) \cup ToSet(e.channel) : m.type \in {"edit", "run"} => m.doc = d
           /\ (\E m \in ToSet(e.channel) : m.type \in {"edit", "run"}) =>
                 e.run = NoRun /\ Without(e.lines, n) /\ (Sent(e, d, n) \/ Received(e, d, n))
<1>0. e.pipe \in Seq(Messages) /\ e.channel \in Seq(Messages)
  BY EngineFields
<1>1. CASE Sent(e, d, n)
  <2>1. \A m \in ToSet(e.pipe) : m.type \in {"edit", "run"} => m.doc = d
    BY <1>0, <1>1, LastWork DEF Sent
  <2> QED
    BY <1>1, <2>1 DEF Sent, OnlyEdits
<1>2. CASE Received(e, d, n)
  <2>1. \A m \in ToSet(e.channel) : m.type \in {"edit", "run"} => m.doc = d
    BY <1>0, <1>2, LastWork DEF Received
  <2> QED
    BY <1>2, <2>1 DEF Received, NoWork
<1>3. CASE Running(e, d, n)
  BY <1>3 DEF Running, NoWork
<1>4. CASE Reported(e)
  BY <1>4 DEF Reported, NoWork
<1> QED
  BY <1>1, <1>2, <1>3, <1>4 DEF Carries

LEMMA EngineFlow ==
    ASSUME BaseInv, FlowInv, NEW c \in Children,
           Reader(c) \/ MainLoop(c) \/ Publish(c) \/ EngineEnd(c)
    PROVE  FlowInv'
<1> DEFINE k == sidecar.child
           e == engine[c]
           f == engine'[c]
<1>1. /\ UNCHANGED <<app, status, queue, current, sidecar, request, asked, disowned>>
      /\ e \in Engines /\ f \in Engines /\ e.life = "alive"
      /\ \A b \in Children : b # c => engine'[b] = engine[b]
  <2>1. Only(c)
    BY EngineSteps
  <2>2. UNCHANGED <<app, status, queue, current, sidecar, request, asked, disowned>>
    BY <2>1 DEF Only, EngineOnly, main
  <2> QED
    BY <2>1, <2>2 DEF Only, Alive
<1>2. Moves(e, f) \/ Ended(e, f)
  BY EngineSteps
<1>3. /\ k \in Children \cup {None} /\ request \in Nat /\ current \in Docs \cup {None}
      /\ None \notin Children /\ None \notin Docs
  BY ConstantsAssumption DEF BaseInv, TypeInv, TypeOK, Sidecars, ConstantsAssumption
<1>4. OwnInv /\ SideInv /\ AimInv /\ HoldInv
  BY DEF FlowInv
<1> HIDE DEF k, e, f
<1>5. CASE Moves(e, f)
  <2>1. f.life = "alive"
    <3>1. First(e) /\ Bounded(e, request)
      BY <1>1 DEF BaseInv, ConfInv, NumInv, Alive, e
    <3> QED
      BY <1>1, <1>3, <1>5, <3>1, MoveBase
  <2>2. \A b \in Children : engine'[b].life = engine[b].life
    BY <1>1, <2>1 DEF e, f
  <2>3. OwnInv'
    <3>1. CASE c # k
      BY <1>1, <1>3, <1>4, <3>1 DEF OwnInv, Alive, k
    <3>2. CASE c = k
      <4>1. IF current = None THEN Clean(e) ELSE Carries(e, current, request)
        BY <1>1, <1>3, <1>4, <3>2 DEF OwnInv, Alive, k, e
      <4>2. IF current = None THEN Clean(f) ELSE Carries(f, current, request)
        BY <1>1, <1>3, <1>5, <4>1, MoveClean, MoveCarries
      <4> QED
        BY <1>1, <3>2, <4>2 DEF OwnInv, k, f
    <3> QED
      BY <3>1, <3>2
  <2>4. SideInv'
    <3> SUFFICES ASSUME NEW b \in Children, engine'[b].life = "alive", b # k
                 PROVE  Clean(engine'[b]) \/ (app = "quitting" /\ current = None /\ Orphan(engine'[b]))
      BY <1>1 DEF SideInv, Alive, Orphan, NotDone, k
    <3>1. Clean(engine[b]) \/ (app = "quitting" /\ current = None /\ Orphan(engine[b]))
      BY <1>4, <2>2 DEF SideInv, Alive, k
    <3>2. CASE b # c
      BY <1>1, <3>1, <3>2
    <3>3. CASE b = c
      BY <1>1, <1>5, <3>1, <3>3, MoveClean, MoveOrphan DEF e, f
    <3> QED
      BY <3>2, <3>3
  <2>5. AimInv'
    <3>1. CASE c # k
      BY <1>1, <1>3, <1>4, <3>1 DEF AimInv, Alive, k
    <3>2. CASE c = k
      <4>1. current # None => (e.run # NoRun => NoWork(e.pipe))
        <5>1. current # None => Carries(e, current, request)
          BY <1>1, <1>3, <1>4, <3>2 DEF OwnInv, Alive, k, e
        <5> QED
          BY <1>1, <5>1, CarriesRun
      <4>2. current # None => (Hit(f) => Hit(e))
        BY <1>1, <1>5, <4>1, MoveHit
      <4>3. Uncancelled(e) => Uncancelled(f)
        BY <1>1, <1>5, MoveUncancelled
      <4>4. /\ current # None /\ Hit(e) =>
                  status[current] \in {"cancelled", "absent"} \/ current \in disowned
            /\ app = "quitting" /\ ~sidecar.stopped => Uncancelled(e)
        BY <1>1, <1>3, <1>4, <3>2 DEF AimInv, Alive, k, e
      <4> QED
        BY <1>1, <3>2, <4>2, <4>3, <4>4 DEF AimInv, k, f
    <3> QED
      BY <3>1, <3>2
  <2>6. HoldInv'
    <3> SUFFICES ASSUME current # None, k # None, NEW b \in Children, b # k
                 PROVE  Without(engine'[b].lines, request)
      BY <1>1 DEF HoldInv, k
    <3>1. Without(engine[b].lines, request)
      BY <1>4 DEF HoldInv, k
    <3>2. CASE b # c
      BY <1>1, <3>1, <3>2
    <3>3. CASE b = c
      <4>1. Clean(e)
        BY <1>1, <1>4, <3>3 DEF SideInv, Alive, k, e
      <4>2. f.lines = e.lines
        BY <1>1, <1>5, <4>1, MoveClean
      <4> QED
        BY <3>1, <3>3, <4>2 DEF e, f
    <3> QED
      BY <3>2, <3>3
  <2> QED
    BY <2>3, <2>4, <2>5, <2>6 DEF FlowInv
<1>6. CASE Ended(e, f)
  <2>1. f.life = "dead" /\ f.lines = e.lines
    BY <1>6, EndedFields
  <2>2. OwnInv' /\ AimInv'
    <3>1. CASE c # k
      BY <1>1, <1>3, <1>4, <3>1 DEF OwnInv, AimInv, Alive, k
    <3>2. CASE c = k
      BY <1>1, <2>1, <3>2 DEF OwnInv, AimInv, Alive, k, f
    <3> QED
      BY <3>1, <3>2
  <2>3. SideInv'
    BY <1>1, <1>4, <2>1 DEF SideInv, Alive, Orphan, NotDone, f
  <2>4. HoldInv'
    BY <1>1, <1>4, <2>1 DEF HoldInv, e, f
  <2> QED
    BY <2>2, <2>3, <2>4 DEF FlowInv
<1> QED
  BY <1>2, <1>5, <1>6

-----------------------------------------------------------------------------
(* Steps of an engine and what its lines say *)

\* An engine that says nothing of run n.
Silent(e, n) == Without(e.lines, n) /\ (e.life = "alive" => e.run = NoRun)

LEMMA SilentSays ==
    ASSUME NEW e \in Engines, NEW n \in Nat, Silent(e, n)
    PROVE  ~Says(e, n) /\ Wipes(e, n)
<1>1. e.lines \in Seq(Lines)
  BY EngineFields
<1>2. Begins(e.lines, n)
  BY <1>1, BeginsLines DEF Silent
<1> QED
  BY <1>2 DEF Silent, Says, Wipes, Without

\* The steps that write neither an edit nor a translation, and leave no mark behind.
Quiets(e, f) ==
    \/ CancelRead(e, f) \/ RequestRead(e, f) \/ EofRead(e, f)
    \/ ConfigureTaken(e, f) \/ RunTaken(e, f) \/ FellBack(e, f) \/ RunFinished(e, f)

LEMMA QuietMoves == ASSUME NEW e, NEW f, Quiets(e, f) PROVE Moves(e, f)
  BY DEF Quiets, Moves

LEMMA QuietSays ==
    ASSUME NEW e \in Engines, NEW f \in Engines, Quiets(e, f), e.life = "alive",
           NEW n \in Nat, Says(f, n)
    PROVE  Says(e, n)
<1>1. CASE CancelRead(e, f)
  BY <1>1, CancelReadFields DEF Says
<1>2. CASE RequestRead(e, f)
  BY <1>2, RequestReadFields DEF Says
<1>3. CASE EofRead(e, f)
  BY <1>3, EofReadFields DEF Says
<1>4. CASE ConfigureTaken(e, f)
  <2>1. f.lines = e.lines /\ f.run = e.run
    BY <1>4, ConfigureTakenFields
  <2> QED
    BY <2>1 DEF Says
<1>5. CASE RunTaken(e, f)
  <2> DEFINE l == Line("run_started", Head(e.channel).n, FALSE)
  <2>1. /\ f.run # NoRun => f.run.published = FALSE
        /\ ToSet(f.lines) = ToSet(e.lines) \cup {l} /\ l.type = "run_started" /\ l.ok = FALSE
    BY <1>5, RunTakenFields DEF Adds
  <2> HIDE DEF l
  <2> QED
    BY <2>1 DEF Says
<1>6. CASE RunFinished(e, f)
  <2>1. e.run # NoRun /\ f.run = NoRun
    BY <1>6, RunFinishedFields
  <2>2. PICK ok \in BOOLEAN : (ok => e.run.published) /\ Adds(e, f, "run_finished", e.run.n, ok)
    BY <1>6, RunFinishedFields
  <2> DEFINE l == Line("run_finished", e.run.n, ok)
  <2>3. ToSet(f.lines) = ToSet(e.lines) \cup {l} /\ l.type = "run_finished" /\ l.ok = ok
    BY <2>2 DEF Adds
  <2> HIDE DEF l
  <2> QED
    BY <2>1, <2>2, <2>3 DEF Says
<1>7. CASE FellBack(e, f)
  <2> DEFINE l == Line("run_started", e.run.n, FALSE)
  <2>1. /\ f.run.published = FALSE
        /\ ToSet(f.lines) = ToSet(e.lines) \cup {l} /\ l.type = "run_started" /\ l.ok = FALSE
    BY <1>7, FellBackFields DEF Adds
  <2> HIDE DEF l
  <2> QED
    BY <2>1 DEF Says
<1> QED
  BY <1>1, <1>2, <1>3, <1>4, <1>5, <1>6, <1>7 DEF Quiets

LEMMA QuietWipes ==
    ASSUME NEW e \in Engines, NEW f \in Engines, Quiets(e, f), e.life = "alive",
           NEW d \in Docs, NEW n \in Nat, Carries(e, d, n), Wipes(e, n)
    PROVE  Wipes(f, n)
<1>0. /\ Begins(e.lines, n) /\ (e.run # NoRun => Begun(e.lines, n)) /\ e.lines \in Seq(Lines)
  BY EngineFields DEF Wipes
<1>1. CASE CancelRead(e, f)
  BY <1>0, <1>1, CancelReadFields DEF Wipes
<1>2. CASE RequestRead(e, f)
  BY <1>0, <1>2, RequestReadFields DEF Wipes
<1>3. CASE EofRead(e, f)
  BY <1>0, <1>3, EofReadFields DEF Wipes
<1>4. CASE ConfigureTaken(e, f)
  <2>1. f.lines = e.lines /\ f.run = e.run
    BY <1>4, ConfigureTakenFields
  <2> QED
    BY <1>0, <2>1 DEF Wipes
<1>5. CASE RunTaken(e, f)
  <2> DEFINE h == Head(e.channel)
             l == Line("run_started", h.n, FALSE)
  <2>1. /\ h \in ToSet(e.channel) /\ h.type = "run" /\ f.run.doc = h.doc /\ f.run.n = h.n
        /\ f.lines = Append(e.lines, l) /\ l \in Lines /\ l.type = "run_started" /\ l.n = h.n
        /\ ToSet(f.lines) = ToSet(e.lines) \cup {l}
    BY <1>5, TakenFields, RunTakenFields DEF Adds
  <2>2. /\ Without(e.lines, n)
        /\ \A m \in ToSet(e.channel) : m.type \in {"edit", "run"} => m.doc = d
    BY <2>1, CarriesRun
  <2>3. Carries(f, d, n)
    BY <1>5, MoveCarries DEF Moves
  <2> HIDE DEF h, l
  <2>4. f.run # NoRun
    BY <1>5, RunTakenFields
  <2>5. f.run.n = n
    BY <2>3, <2>4, CarriesRun DEF Running
  <2>6. Begun(f.lines, n)
    BY <2>1, <2>5 DEF Begun
  <2>7. Begins(f.lines, n)
    BY <1>0, <2>1, <2>2, BeginsLines
  <2> QED
    BY <2>6, <2>7 DEF Wipes
<1>6. CASE RunFinished(e, f)
  <2>1. e.run # NoRun /\ f.run = NoRun
    BY <1>6, RunFinishedFields
  <2>2. PICK ok \in BOOLEAN : Adds(e, f, "run_finished", e.run.n, ok)
    BY <1>6, RunFinishedFields
  <2> DEFINE l == Line("run_finished", e.run.n, ok)
  <2>3. f.lines = Append(e.lines, l) /\ l \in Lines
    BY <2>2 DEF Adds
  <2> HIDE DEF l
  <2>4. Begins(f.lines, n)
    BY <1>0, <2>1, <2>3, BeginsLines
  <2> QED
    BY <2>1, <2>4 DEF Wipes
<1>7. CASE FellBack(e, f)
  <2> DEFINE l == Line("run_started", e.run.n, FALSE)
  <2>1. /\ e.run # NoRun /\ f.lines = Append(e.lines, l) /\ l \in Lines
        /\ ToSet(f.lines) = ToSet(e.lines) \cup {l}
    BY <1>7, FellBackFields DEF Adds
  <2> HIDE DEF l
  <2>2. Begun(e.lines, n)
    BY <1>0, <2>1
  <2>3. Begins(f.lines, n)
    BY <1>0, <2>1, <2>2, BeginsLines
  <2> QED
    BY <2>1, <2>2, <2>3 DEF Wipes, Begun
<1> QED
  BY <1>1, <1>2, <1>3, <1>4, <1>5, <1>6, <1>7 DEF Quiets

\* One step of an engine, with what it writes.
LEMMA EngineKinds ==
    ASSUME BaseInv, NEW c \in Children, Reader(c) \/ MainLoop(c) \/ Publish(c) \/ EngineEnd(c)
    PROVE  \/ /\ Quiets(engine[c], engine'[c]) \/ Ended(engine[c], engine'[c])
              /\ stored' = stored /\ output' = output /\ unstarted \subseteq unstarted'
           \/ /\ EditTaken(engine[c], engine'[c]) /\ output' = output /\ unstarted' = unstarted
              /\ \A d \in Docs : d # Head(engine[c].channel).doc => stored'[d] = stored[d]
              /\ \E saved \in {0, 1} :
                    /\ EditSaved(engine[c], engine'[c], saved)
                    /\ \A d \in Docs : d = Head(engine[c].channel).doc =>
                                           stored'[d] = stored[d] + saved
           \/ /\ RunPublished(engine[c], engine'[c])
              /\ stored' = stored /\ unstarted' = unstarted
              /\ engine'[c].run.edits = IF engine[c].run.pages THEN engine[c].run.edits
                                        ELSE stored[engine[c].run.doc]
              /\ engine[c].run.partial => engine'[c].run.partial
              /\ \A d \in Docs : output'[d] =
                    IF d = engine[c].run.doc
                    THEN [run |-> engine[c].run.n, edits |-> engine'[c].run.edits,
                          partial |-> engine'[c].run.partial]
                    ELSE output[d]
           \/ /\ RunMissed(engine[c], engine'[c]) /\ stored' = stored /\ output' = output
              /\ unstarted' = unstarted \cup (IF Head(engine[c].channel).doc \in published
                                              THEN {Head(engine[c].channel).n} ELSE {})
           \/ /\ PagesTaken(engine[c], engine'[c])
              /\ stored' = stored /\ output' = output /\ unstarted' = unstarted
<1> TypeOK
  BY DEF BaseInv, TypeInv
<1>1. CASE Reader(c)
  BY <1>1, ReadCancelStep, ReadStep, ReadEofStep DEF Reader, Quiets, results
<1>2. CASE TakeConfigure(c) \/ Fail(c) \/ Finish(c)
  BY <1>2, TakeConfigureStep, FinishStep DEF Quiets, results
<1>3. CASE TakeRun(c)
  <2>1. Only(c) /\ stored' = stored /\ output' = output
    BY <1>3, TakeRunStep
  <2>2. ~RunRefused(engine[c], engine'[c])
    BY <2>1, NoRefusal DEF BaseInv, ConfInv, Only
  <2>3. \/ RunTaken(engine[c], engine'[c]) /\ unstarted' = unstarted
        \/ /\ RunMissed(engine[c], engine'[c])
           /\ unstarted' = unstarted \cup (IF Head(engine[c].channel).doc \in published
                                           THEN {Head(engine[c].channel).n} ELSE {})
    BY <1>3, <2>2, TakeRunStep
  <2> QED
    BY <2>1, <2>3 DEF Quiets
<1>4. CASE TakeEdit(c)
  BY <1>4, TakeEditStep
<1>5. CASE Publish(c)
  BY <1>5, PublishStep
<1>6. CASE EngineEnd(c)
  BY <1>6, EngineEndStep DEF results
<1>7. CASE TakePages(c)
  BY <1>7, TakePagesStep DEF results
<1>8. CASE FallBack(c)
  BY <1>8, FallBackStep DEF Quiets
<1> QED
  BY <1>1, <1>2, <1>3, <1>4, <1>5, <1>6, <1>7, <1>8 DEF MainLoop

\* Whose work an engine does: the current paper's, or that of papers that are not done.
LEMMA WorkOf ==
    ASSUME BaseInv, FlowInv, NEW c \in Children, engine[c].life = "alive"
    PROVE  /\ current # None =>
                 \/ Clean(engine[c])
                 \/ c = sidecar.child /\ Carries(engine[c], current, request)
           /\ current = None => Clean(engine[c]) \/ Orphan(engine[c])
<1>1. CASE c = sidecar.child
  <2>1. sidecar.child # None
    BY <1>1, ConstantsAssumption DEF ConstantsAssumption
  <2> QED
    BY <1>1, <2>1 DEF FlowInv, OwnInv, Alive
<1>2. CASE c # sidecar.child
  BY <1>2 DEF FlowInv, SideInv, Alive
<1> QED
  BY <1>1, <1>2

\* The doc a running engine writes to.
LEMMA WorkNotDone ==
    ASSUME BaseInv, FlowInv, NEW c \in Children, engine[c].life = "alive"
    PROVE  /\ engine[c].run # NoRun => NotDone(engine[c].run.doc)
           /\ \A m \in ToSet(engine[c].channel) : m.type = "edit" => NotDone(m.doc)
<1>1. engine[c] \in Engines
  BY DEF BaseInv, TypeInv, TypeOK
<1>2. CASE Clean(engine[c])
  BY <1>2 DEF Clean, NoWork
<1>3. CASE Orphan(engine[c])
  BY <1>3 DEF Orphan
<1>4. CASE current # None /\ Carries(engine[c], current, request)
  <2>1. NotDone(current)
    BY <1>4 DEF NotDone, BaseInv, QueueInv
  <2>2. /\ engine[c].run # NoRun => engine[c].run.doc = current
        /\ \A m \in ToSet(engine[c].channel) : m.type = "edit" => m.doc = current
    BY <1>1, <1>4, CarriesRun DEF Running
  <2> QED
    BY <2>1, <2>2
<1> QED
  BY <1>2, <1>3, <1>4, WorkOf

LEMMA EngineShown ==
    ASSUME BaseInv, FlowInv, KeepInv, ShownInv, NEW c \in Children,
           Reader(c) \/ MainLoop(c) \/ Publish(c) \/ EngineEnd(c)
    PROVE  ShownInv'
<1> DEFINE e == engine[c]
           f == engine'[c]
<1>1. /\ UNCHANGED <<app, status, published, queue, current, sidecar, request, asked, disowned>>
      /\ e \in Engines /\ f \in Engines /\ e.life = "alive"
      /\ \A b \in Children : b # c => engine'[b] = engine[b]
      /\ \A b \in Children : engine[b] \in Engines /\ engine'[b] \in Engines
  <2>1. Only(c)
    BY EngineSteps
  <2>2. UNCHANGED <<app, status, published, queue, current, sidecar, request, asked, disowned>>
    BY <2>1 DEF Only, EngineOnly, main
  <2>3. \A b \in Children : engine[b] \in Engines /\ engine'[b] \in Engines
    BY <2>1 DEF Only, BaseInv, TypeInv, TypeOK
  <2> QED
    BY <2>1, <2>2, <2>3 DEF Only, Alive
<1>2. /\ request \in Nat /\ current \in Docs \cup {None}
      /\ None \notin Children /\ None \notin Docs
      /\ current # None => asked[current] = request /\ status[current] # "done"
  BY ConstantsAssumption DEF BaseInv, TypeInv, TypeOK, QueueInv, ConstantsAssumption
<1>3. LineInv /\ StaleInv /\ DoneInv
  BY DEF ShownInv
<1>w. current # None => Clean(e) \/ (c = sidecar.child /\ Carries(e, current, request))
  BY <1>1, WorkOf
<1>k. current # None /\ c = sidecar.child => Keeps(e, current, published, status, stored, disowned)
  BY <1>1, <1>2 DEF KeepInv, Busy, Alive
<1> HIDE DEF e, f
<1>4. CASE /\ Quiets(e, f) \/ Ended(e, f)
           /\ stored' = stored /\ output' = output /\ unstarted \subseteq unstarted'
  <2>1. \A d \in Docs : Shown(d)' <=> Shown(d)
    BY <1>1, <1>4 DEF Shown
  <2>2. Says(f, request) => Says(e, request)
    <3>1. CASE Quiets(e, f)
      BY <1>1, <1>2, <3>1, QuietSays
    <3>2. CASE Ended(e, f)
      BY <3>2, EndedFields DEF Says
    <3> QED
      BY <1>4, <3>1, <3>2
  <2>3. current # None /\ Wipes(e, request) => Wipes(f, request)
    <3> SUFFICES ASSUME current # None, Wipes(e, request) PROVE Wipes(f, request)
      OBVIOUS
    <3>1. CASE Quiets(e, f) /\ Clean(e)
      <4>1. Clean(f) /\ f.lines = e.lines
        BY <1>1, <3>1, QuietMoves, MoveClean
      <4> QED
        BY <4>1 DEF Wipes, Clean
    <3>2. CASE Quiets(e, f) /\ Carries(e, current, request)
      BY <1>1, <1>2, <3>2, QuietWipes
    <3>3. CASE Ended(e, f)
      BY <3>3, EndedFields DEF Wipes
    <3> QED
      BY <1>4, <1>w, <3>1, <3>2, <3>3
  <2>4. LineInv'
    BY <1>1, <1>2, <1>3, <2>1, <2>2 DEF LineInv, e, f
  <2>5. StaleInv'
    BY <1>1, <1>2, <1>3, <1>4, <2>1, <2>3 DEF StaleInv, e, f
  <2>6. DoneInv'
    BY <1>1, <1>3, <1>4, <2>1 DEF DoneInv
  <2> QED
    BY <2>4, <2>5, <2>6 DEF ShownInv
<1>5. CASE /\ EditTaken(e, f) /\ output' = output /\ unstarted' = unstarted
           /\ \A d \in Docs : d # Head(e.channel).doc => stored'[d] = stored[d]
  <2> DEFINE h == Head(e.channel)
  <2>1. h \in ToSet(e.channel) /\ h.type = "edit" /\ f.run = NoRun /\ f.lines = e.lines
    BY <1>1, <1>5, TakenFields, EditTakenFields
  <2>2. NotDone(h.doc)
    BY <1>1, <2>1, WorkNotDone DEF e
  <2>3. \A d \in Docs : d # h.doc => (Shown(d)' <=> Shown(d))
    BY <1>1, <1>5 DEF Shown
  <2> HIDE DEF h
  <2>4. DoneInv'
    BY <1>1, <1>3, <1>5, <2>2, <2>3 DEF DoneInv, NotDone
  <2>5. ASSUME current # None, NEW b \in Children PROVE Silent(engine'[b], request)
    <3>1. c = sidecar.child /\ Carries(e, current, request)
      BY <1>w, <2>1, <2>5 DEF Clean, NoWork
    <3>2. CASE b = c
      <4>1. Without(e.lines, request)
        BY <1>1, <2>1, <3>1, CarriesRun
      <4> QED
        BY <2>1, <3>2, <4>1 DEF Silent, f
    <3>3. CASE b # c
      <4>1. Without(engine[b].lines, request)
        BY <1>2, <2>5, <3>1, <3>3 DEF FlowInv, HoldInv
      <4>2. engine[b].life = "alive" => engine[b].run = NoRun
        BY <2>5, <3>1, <3>3, WorkOf DEF Clean
      <4> QED
        BY <1>1, <3>3, <4>1, <4>2 DEF Silent
    <3> QED
      BY <3>2, <3>3
  <2>6. current # None => \A b \in Children : ~Says(engine'[b], request) /\ Wipes(engine'[b], request)
    BY <1>1, <1>2, <2>5, SilentSays
  <2>7. LineInv' /\ StaleInv'
    BY <1>1, <2>6 DEF LineInv, StaleInv
  <2> QED
    BY <2>4, <2>7 DEF ShownInv
<1>6. CASE /\ RunPublished(e, f) /\ stored' = stored /\ unstarted' = unstarted
           /\ f.run.edits = IF e.run.pages THEN e.run.edits ELSE stored[e.run.doc]
           /\ e.run.partial => f.run.partial
           /\ \A d \in Docs : output'[d] =
                 IF d = e.run.doc
                 THEN [run |-> e.run.n, edits |-> f.run.edits, partial |-> f.run.partial]
                 ELSE output[d]
  <2>1. e.run # NoRun
    BY <1>6 DEF RunPublished
  <2>2. NotDone(e.run.doc)
    BY <1>1, <2>1, WorkNotDone DEF e
  <2>3. \A d \in Docs : d # e.run.doc => (Shown(d)' <=> Shown(d))
    BY <1>1, <1>6 DEF Shown
  <2>4. DoneInv'
    BY <1>1, <1>3, <1>6, <2>2, <2>3 DEF DoneInv, NotDone
  <2>5. current # None /\ current \notin disowned => Shown(current)'
    <3> SUFFICES ASSUME current # None, current \notin disowned PROVE Shown(current)'
      OBVIOUS
    <3>1. c = sidecar.child /\ Carries(e, current, request)
      BY <1>w, <2>1 DEF Clean
    <3>2. e.run.doc = current /\ e.run.n = request
      BY <1>1, <2>1, <3>1, CarriesRun DEF Running
    <3>3. /\ output'[current].run = request
          /\ output'[current].edits = f.run.edits /\ output'[current].partial = f.run.partial
      BY <1>2, <1>6, <3>2
    <3>4. e.run.pages => e.run.partial \/ stored[current] = e.run.edits
      BY <1>k, <2>1, <3>1, <3>2 DEF Keeps, RunKept
    <3>5. f.run.partial \/ f.run.edits = stored[current]
      BY <1>6, <3>2, <3>4
    <3> QED
      BY <1>1, <1>2, <1>6, <3>3, <3>5 DEF Shown
  <2>6. LineInv' /\ StaleInv'
    BY <1>1, <2>5 DEF LineInv, StaleInv
  <2> QED
    BY <2>4, <2>6 DEF ShownInv
<1>7. CASE /\ RunMissed(e, f) /\ stored' = stored /\ output' = output
           /\ unstarted' = unstarted \cup (IF Head(e.channel).doc \in published
                                           THEN {Head(e.channel).n} ELSE {})
  <2> DEFINE h == Head(e.channel)
             l == Line("run_finished", h.n, FALSE)
  <2>1. \A d \in Docs : Shown(d)' <=> Shown(d)
    BY <1>1, <1>7 DEF Shown
  <2>2. /\ e.run = NoRun /\ f.run = NoRun /\ h \in ToSet(e.channel) /\ h.type = "run"
        /\ ToSet(f.lines) = ToSet(e.lines) \cup {l} /\ l.type = "run_finished" /\ l.ok = FALSE
        /\ e.channel \in Seq(Messages) /\ e.channel # <<>>
    BY <1>1, <1>7, TakenFields, RunMissedFields, EngineFields, ZenonT(60) DEF Adds
  <2>3. unstarted' = unstarted \cup (IF h.doc \in published THEN {h.n} ELSE {})
    BY <1>7
  <2> HIDE DEF l
  <2>4. Says(f, request) => Says(e, request)
    BY <2>2 DEF Says
  <2>5. LineInv'
    BY <1>1, <1>2, <1>3, <2>1, <2>4 DEF LineInv, e, f
  <2>6. StaleInv'
    <3>1. current # None => Received(e, current, request)
      <4>1. current # None => Carries(e, current, request)
        BY <1>w, <2>2 DEF Clean, NoWork
      <4>2. current # None => Sent(e, current, request) \/ Received(e, current, request)
        BY <1>1, <2>2, <4>1, CarriesRun
      <4> QED
        BY <2>2, <4>2 DEF Sent, OnlyEdits
    <3>2. current # None => h.doc = current /\ h.n = request
      BY <1>2, <2>2, <3>1, LastHead DEF Received
    <3>3. current # None /\ current \in published => request \in unstarted'
      BY <2>3, <3>2
    <3> QED
      BY <1>1, <3>3 DEF StaleInv
  <2>7. DoneInv'
    BY <1>1, <1>3, <2>1, <2>3 DEF DoneInv
  <2> QED
    BY <2>5, <2>6, <2>7 DEF ShownInv
<1>8. CASE PagesTaken(e, f) /\ stored' = stored /\ output' = output /\ unstarted' = unstarted
  <2> DEFINE h == Head(e.channel)
  <2>1. \A d \in Docs : Shown(d)' <=> Shown(d)
    BY <1>1, <1>8 DEF Shown
  <2>2. /\ e.run = NoRun /\ f.run.published = FALSE /\ h \in ToSet(e.channel)
        /\ h.type = "run" /\ f.lines = e.lines /\ e.retained.doc = h.doc
    BY <1>1, <1>8, TakenFields, PagesTakenFields DEF PagesTaken
  <2> HIDE DEF h
  <2>3. Says(f, request) => Says(e, request)
    BY <2>2 DEF Says
  <2>4. LineInv'
    BY <1>1, <1>2, <1>3, <2>1, <2>3 DEF LineInv, e, f
  <2>5. StaleInv'
    <3>1. current # None => c = sidecar.child /\ Carries(e, current, request)
      BY <1>w, <2>2 DEF Clean, NoWork
    <3>2. current # None => h.doc = current /\ NoFinish(e.lines)
      BY <1>1, <2>2, <3>1, CarriesRun DEF Sent, Received
    <3>3. current # None => current \notin published
      BY <1>k, <2>2, <3>1, <3>2 DEF Keeps, Idle
    <3> QED
      BY <1>1, <3>3 DEF StaleInv
  <2>6. DoneInv'
    BY <1>1, <1>3, <1>8, <2>1 DEF DoneInv
  <2> QED
    BY <2>4, <2>5, <2>6 DEF ShownInv
<1> QED
  BY <1>4, <1>5, <1>6, <1>7, <1>8, EngineKinds DEF e, f

-----------------------------------------------------------------------------
(* A run request is sent when no engine has work *)

AllClean(eng) == \A c \in Children : eng[c].life = "alive" => Clean(eng[c])

LEMMA DrainedClean ==
    ASSUME BaseInv, NEW eng, Drained(eng), NEW c \in Children
    PROVE  /\ Clean(engine[c]) => Clean(eng[c])
           /\ Uncancelled(engine[c]) => Uncancelled(eng[c])
<1>1. /\ eng[c].pipe = engine[c].pipe /\ eng[c].channel = engine[c].channel
      /\ eng[c].run = engine[c].run /\ eng[c].cancelled = engine[c].cancelled
      /\ eng[c].eof = engine[c].eof /\ ToSet(eng[c].lines) \subseteq ToSet(engine[c].lines)
  BY DrainedFields DEF BaseInv, TypeInv
<1> QED
  BY <1>1 DEF Clean, NoFinish, Uncancelled

\* What the receiver of a request carries then.
LEMMA ReceiverFlow ==
    ASSUME request \in Nat, NEW base \in Engines, NEW f \in Engines, NEW d \in Docs,
           NEW edits \in Nat, NEW known \in BOOLEAN,
           GotRequests(base, f, d, edits, known),
           Bounded(base, request), Clean(base)
    PROVE  /\ Carries(f, d, request + 1) /\ ~Hit(f) /\ f.run = NoRun
           /\ Without(f.lines, request + 1)
           /\ Uncancelled(base) => Uncancelled(f)
<1> DEFINE r == Requests(d, edits, known)
           p == base.pipe
           n == request + 1
<1>1. /\ f.channel = base.channel /\ f.run = base.run /\ f.lines = base.lines
      /\ f.cancelled = base.cancelled /\ f.eof = base.eof /\ f.pipe = p \o r
  BY DEF Engines, GotRequests
<1>2. /\ r \in Seq(Messages)
      /\ Len(r) = (IF known THEN 0 ELSE 1) + edits + 1
      /\ r[Len(r)] = Message("run", d, n)
      /\ \A i \in 1..(Len(r) - 1) : r[i] \in {Configure, Message("edit", d, 0)}
  BY RequestsType
<1>3. /\ Message("run", d, n).type = "run" /\ Message("run", d, n).doc = d
      /\ Message("run", d, n).n = n
      /\ Message("edit", d, 0).type = "edit" /\ Message("edit", d, 0).doc = d
      /\ Configure.type = "configure"
  BY DEF Message, Configure
<1>4. p \in Seq(Messages) /\ NoWork(p) /\ NoWork(base.channel) /\ base.run = NoRun /\ NoFinish(base.lines)
  BY EngineFields DEF Clean
<1> HIDE DEF r, p
<1>5. r # <<>>
  <2>1. Len(r) # 0
    BY <1>2
  <2> QED
    BY <2>1
<1> HIDE DEF n
<1>6. /\ \A i \in 1..(Len(r) - 1) : r[i].type # "run" /\ (r[i].type = "edit" => r[i].doc = d)
      /\ \A m \in ToSet(r) : m.type # "cancel"
  <2>1. \A i \in 1..(Len(r) - 1) : r[i].type # "run" /\ r[i].type # "cancel" /\ (r[i].type = "edit" => r[i].doc = d)
    BY <1>2, <1>3
  <2>2. ASSUME NEW m \in ToSet(r) PROVE m.type # "cancel"
    <3>1. Len(r) \in Nat
      BY <1>2
    <3>2. PICK i \in 1..Len(r) : m = r[i]
      BY <1>2, IndexSet
    <3>3. i = Len(r) \/ i \in 1..(Len(r) - 1)
      BY <3>1
    <3> QED
      BY <1>2, <1>3, <2>1, <3>2, <3>3
  <2> QED
    BY <2>1, <2>2
<1>7. /\ LastRun(f.pipe, d, n) /\ ~Aimed(f.pipe)
      /\ ToSet(f.pipe) = ToSet(p) \cup ToSet(r)
  <2>1. /\ r[Len(r)].type = "run" /\ r[Len(r)].doc = d /\ r[Len(r)].n = n
    BY <1>2, <1>3
  <2>2. /\ LastRun(p \o r, d, n) /\ ~Aimed(p \o r)
        /\ ToSet(p \o r) = ToSet(p) \cup ToSet(r)
    BY <1>2, <1>4, <1>5, <1>6, <2>1, LastConcat, ZenonT(60)
  <2> QED
    BY <1>1, <2>2
<1>8. Without(f.lines, n)
  <2>1. \A l \in ToSet(f.lines) : l.n \in Nat /\ l.n <= request
    <3>1. f.lines \in Seq(Lines) /\ f.lines = base.lines
      BY <1>1, EngineFields
    <3>2. ToSet(f.lines) \subseteq Lines
      BY <3>1, MemberSet
    <3> QED
      BY <3>1, <3>2 DEF Lines, Bounded
  <2>2. \A l \in ToSet(f.lines) : l.n # request + 1
    BY <2>1
  <2> QED
    BY <2>2 DEF Without, n
<1>9. OnlyEdits(f.channel, d)
  BY <1>1, <1>4 DEF OnlyEdits, NoWork
<1>10. Sent(f, d, n)
  BY <1>1, <1>4, <1>7, <1>8, <1>9 DEF Sent
<1>11. Uncancelled(base) => Uncancelled(f)
  BY <1>1, <1>6, <1>7 DEF Uncancelled, p
<1> QED
  BY <1>1, <1>4, <1>7, <1>8, <1>10, <1>11 DEF Carries, Hit, n

LEMMA BoundedWithout ==
    ASSUME NEW e \in Engines, NEW n \in Nat, Bounded(e, n) PROVE Without(e.lines, n + 1)
<1>1. ToSet(e.lines) \subseteq Lines
  BY EngineFields, MemberSet
<1>2. \A l \in ToSet(e.lines) : l.n \in Nat /\ l.n <= n
  BY <1>1 DEF Bounded, Lines
<1>3. \A l \in ToSet(e.lines) : l.n # n + 1
  BY <1>2
<1> QED
  BY <1>3 DEF Without

\* The same when no paper is current after the handler.
PumpIdles(st, q, pend, eng) ==
    \/ PumpStays(st, q, None, pend, eng)
    \/ PumpFails(st, q, None, pend, eng)
    \/ \E c \in Children, base \in Engines, known \in BOOLEAN :
          PumpSends(st, q, None, pend, eng, c, base, known)

LEMMA PumpIdle ==
    ASSUME TypeOK,
           NEW st \in [Docs -> Statuses], NEW q \in Seq(Docs), Waits(st, q),
           NEW pend \in [Docs -> Nat], NEW eng \in [Children -> Engines],
           Pump(st, q, None, pend, eng)
    PROVE  PumpIdles(st, q, pend, eng)
<1>1. None \in Docs \cup {None}
  OBVIOUS
<1> QED
  BY <1>1, PumpCases DEF PumpIdles

LEMMA SpawnedClean ==
    ASSUME NEW b \in BOOLEAN PROVE Clean(Spawned(b)) /\ Uncancelled(Spawned(b))
<1> DEFINE s == Spawned(b)
<1>1. /\ s.pipe = (IF b THEN <<Configure>> ELSE <<>>)
      /\ s.channel = <<>> /\ s.run = NoRun /\ s.lines = <<>> /\ s.cancelled = FALSE
  BY NoEngineType
<1>2. \A m \in ToSet(s.pipe) : m.type = "configure"
  BY EmptyBase
<1>3. ToSet(<<>>) = {}
  BY EmptySet
<1> HIDE DEF s
<1>4. Clean(s) /\ Uncancelled(s)
  BY <1>1, <1>2, <1>3 DEF Clean, NoWork, NoFinish, Uncancelled
<1> QED
  BY <1>4 DEF s

LEMMA PumpFlow ==
    ASSUME BaseInv, BaseInv', AimInv,
           NEW st \in [Docs -> Statuses], NEW q \in Seq(Docs), Waits(st, q),
           NEW pend \in [Docs -> Nat], NEW eng \in [Children -> Engines], Drained(eng),
           Pump(st, q, None, pend, eng), AllClean(eng),
           app' = app \/ (app = "down" /\ app' = "up"),
           disowned' = disowned, stored' = stored, output' = output, unstarted' = unstarted,
           \A d \in Docs : st[d] = "done" /\ d \notin disowned /\ asked[d] \notin unstarted => Shown(d)
    PROVE  FlowInv' /\ ShownInv'
<1>1. /\ TypeOK /\ request \in Nat /\ asked \in [Docs -> Nat]
      /\ sidecar.child \in Children \cup {None}
      /\ None \notin Children /\ None \notin Docs
  BY ConstantsAssumption DEF BaseInv, TypeInv, TypeOK, Sidecars, ConstantsAssumption
<1>2. \A c \in Children : eng[c].life = engine[c].life /\ Bounded(eng[c], request)
  BY DrainedBase
<1>3. \A c \in Children : Uncancelled(engine[c]) => Uncancelled(eng[c])
  BY DrainedClean
<1>4. \A c \in Children : eng[c].life = "alive" => Clean(eng[c])
  BY DEF AllClean
<1>5. app' = "quitting" => app = "quitting"
  OBVIOUS
<1>w. ASSUME engine' = eng, sidecar' = sidecar, current' = None, asked' = asked,
             \A d \in Docs : status'[d] = "done" => st[d] = "done"
      PROVE  FlowInv' /\ ShownInv'
  <2>1. OwnInv' /\ SideInv'
    BY <1>1, <1>4, <1>w DEF OwnInv, SideInv, Alive
  <2>2. AimInv'
    BY <1>1, <1>2, <1>3, <1>5, <1>w DEF AimInv, Alive
  <2>3. HoldInv' /\ LineInv' /\ StaleInv'
    BY <1>w DEF HoldInv, LineInv, StaleInv
  <2>4. DoneInv'
    BY <1>w DEF DoneInv, Shown
  <2> QED
    BY <2>1, <2>2, <2>3, <2>4 DEF FlowInv, ShownInv
<1>6. CASE PumpStays(st, q, None, pend, eng)
  <2>1. /\ engine' = eng /\ sidecar' = sidecar /\ current' = None /\ asked' = asked /\ status' = st
    BY <1>6 DEF PumpStays
  <2> QED
    BY <1>w, <2>1
<1>7. CASE PumpFails(st, q, None, pend, eng)
  <2>1. /\ engine' = eng /\ sidecar' = sidecar /\ current' = None /\ asked' = asked
        /\ status' = FailAll(st, q)
    BY <1>7 DEF PumpFails
  <2>2. \A d \in Docs : status'[d] = "done" => st[d] = "done"
    BY <2>1, FailAllType
  <2> QED
    BY <1>w, <2>1, <2>2
<1>8. ASSUME NEW c \in Children, NEW base \in Engines, NEW known \in BOOLEAN,
             PumpSends(st, q, None, pend, eng, c, base, known)
      PROVE  FlowInv' /\ ShownInv'
  <2> DEFINE d == Head(q)
             f == engine'[c]
  <2>1. /\ d \in Docs
        /\ Receives(eng, c, base, known)
        /\ sidecar'.child = c
        /\ status' = [st EXCEPT ![d] = "running"]
        /\ current' = d
        /\ request' = request + 1 /\ asked' = [asked EXCEPT ![d] = request + 1]
        /\ f = [base EXCEPT !.pipe = @ \o Requests(d, pend[d], known)]
        /\ \A b \in Children : b # c => engine'[b] = eng[b]
    BY <1>8 DEF PumpSends
  <2> HIDE DEF d, f
  <2>2. pend[d] \in Nat /\ c # None /\ d # None
    BY <1>1, <2>1
  <2>3. \/ /\ sidecar.state = "running" /\ sidecar.child = c /\ base = eng[c]
           /\ sidecar'.stopped = sidecar.stopped
        \/ base = Spawned(sidecar.lastConfigure)
    BY <2>1 DEF Receives
  <2>4. f \in Engines
    BY DEF BaseInv, TypeInv, TypeOK, f
  <2>5. sidecar.lastConfigure \in BOOLEAN
    BY <1>1 DEF TypeOK, Sidecars
  <2>6. Bounded(base, request)
    BY <1>1, <1>2, <2>3, <2>5, EmptyBase
  <2>7. f.life = base.life
    BY <2>1 DEF Engines
  <2>8. base.life = "alive" => Clean(base)
    <3> QED
      BY <1>4, <2>3, <2>5, SpawnedClean
  <2>9. f.life = "alive" =>
           /\ Carries(f, d, request + 1) /\ ~Hit(f) /\ f.run = NoRun
           /\ Uncancelled(base) => Uncancelled(f)
    <3> SUFFICES ASSUME f.life = "alive"
                 PROVE  /\ Carries(f, d, request + 1) /\ ~Hit(f) /\ f.run = NoRun
                        /\ Uncancelled(base) => Uncancelled(f)
      OBVIOUS
    <3> DEFINE edits == pend[d]
    <3>1. edits \in Nat /\ d \in Docs /\ GotRequests(base, f, d, edits, known)
      BY <2>1, <2>2 DEF GotRequests
    <3> HIDE DEF edits
    <3>2. request \in Nat /\ f \in Engines /\ Bounded(base, request) /\ Clean(base)
      BY <1>1, <2>4, <2>6, <2>7, <2>8
    <3> QED
      BY <3>1, <3>2, ReceiverFlow
  <2>10. app = "quitting" /\ ~sidecar'.stopped /\ f.life = "alive" => Uncancelled(base)
    <3>1. Uncancelled(Spawned(sidecar.lastConfigure))
      BY <2>5, SpawnedClean
    <3>2. CASE /\ sidecar.child = c /\ base = eng[c] /\ sidecar'.stopped = sidecar.stopped
      <4>1. app = "quitting" /\ ~sidecar.stopped /\ engine[c].life = "alive" => Uncancelled(engine[c])
        BY <2>2, <3>2 DEF AimInv, Alive
      <4> QED
        BY <1>2, <1>3, <2>7, <3>2, <4>1
    <3> QED
      BY <2>3, <3>1, <3>2
  <2>11. OwnInv'
    BY <2>1, <2>2, <2>9 DEF OwnInv, Alive, f
  <2>12. SideInv'
    BY <1>4, <2>1 DEF SideInv, Alive
  <2>13. AimInv'
    BY <1>5, <2>1, <2>9, <2>10 DEF AimInv, Alive, f
  <2>14. \A b \in Children : b # c => Without(engine'[b].lines, request + 1)
    BY <1>1, <1>2, <2>1, BoundedWithout
  <2>15. HoldInv'
    BY <2>1, <2>14 DEF HoldInv
  <2>16. ASSUME NEW b \in Children PROVE Silent(engine'[b], request + 1)
    <3>1. CASE b # c
      BY <1>4, <2>1, <2>14, <3>1 DEF Silent, Clean
    <3>2. CASE b = c
      <4>1. f.lines = base.lines
        BY <2>1 DEF Engines
      <4>2. Without(f.lines, request + 1)
        BY <1>1, <2>6, <4>1, BoundedWithout
      <4> QED
        BY <2>9, <3>2, <4>2 DEF Silent, f
    <3> QED
      BY <3>1, <3>2
  <2>17. \A b \in Children : ~Says(engine'[b], request + 1) /\ Wipes(engine'[b], request + 1)
    <3>1. \A b \in Children : engine'[b] \in Engines
      BY DEF BaseInv, TypeInv, TypeOK
    <3>2. request + 1 \in Nat
      BY <1>1
    <3> QED
      BY <2>16, <3>1, <3>2, SilentSays
  <2>18. LineInv' /\ StaleInv'
    BY <2>1, <2>17 DEF LineInv, StaleInv
  <2>19. DoneInv'
    <3> SUFFICES ASSUME NEW x \in Docs, status'[x] = "done", x \notin disowned,
                        asked'[x] \notin unstarted
                 PROVE  Shown(x)'
      BY DEF DoneInv
    <3>1. x # d /\ st[x] = "done"
      BY <2>1
    <3>2. asked'[x] = asked[x]
      BY <1>1, <2>1, <3>1
    <3>3. Shown(x)
      BY <3>1, <3>2
    <3> QED
      BY <3>2, <3>3 DEF Shown
  <2> QED
    BY <2>11, <2>12, <2>13, <2>15, <2>18, <2>19 DEF FlowInv, ShownInv
<1>9. PumpIdles(st, q, pend, eng)
  <2>1. TypeOK
    BY <1>1
  <2> QED
    BY <2>1, PumpIdle
<1> QED
  BY <1>6, <1>7, <1>8, <1>9 DEF PumpIdles
-----------------------------------------------------------------------------
(* The main process keeps them *)

\* A handler that changes statuses of papers, and the output of those it removes.
LEMMA QuietFlow ==
    ASSUME BaseInv, FlowInv, ShownInv,
           UNCHANGED <<app, published, current, request, asked, unstarted>>, engine' = engine,
           sidecar'.child = sidecar.child, sidecar'.stopped = sidecar.stopped,
           disowned \subseteq disowned',
           current # None => \/ status'[current] = status[current]
                             \/ status'[current] \in {"cancelled", "absent"}
                             \/ current \in disowned',
           \A d \in Docs : status'[d] = "done" => status[d] = "done",
           \A d \in Docs : d \notin disowned' /\ (d = current \/ status'[d] = "done") =>
                               output'[d] = output[d] /\ stored'[d] = stored[d]
    PROVE  FlowInv' /\ ShownInv'
<1>1. current \in Docs \cup {None} /\ None \notin Docs
  BY ConstantsAssumption DEF BaseInv, TypeInv, TypeOK, ConstantsAssumption
<1>2. OwnInv'
  BY DEF FlowInv, OwnInv, Alive
<1>3. SideInv'
  BY DEF FlowInv, SideInv, Alive, Orphan, NotDone
<1>4. AimInv'
  BY DEF FlowInv, AimInv, Alive
<1>5. HoldInv'
  BY DEF FlowInv, HoldInv
<1>6. \A d \in Docs : d \notin disowned' /\ (d = current \/ status'[d] = "done") =>
                          Shown(d)' = Shown(d)
  BY DEF Shown
<1>7. LineInv'
  BY <1>1, <1>6 DEF ShownInv, LineInv
<1>8. StaleInv'
  BY <1>1, <1>6 DEF ShownInv, StaleInv
<1>9. DoneInv'
  BY <1>6 DEF ShownInv, DoneInv
<1> QED
  BY <1>2, <1>3, <1>4, <1>5, <1>7, <1>8, <1>9 DEF FlowInv, ShownInv

\* While the app is up no engine has work unless a paper is current.
LEMMA IdleClean ==
    ASSUME BaseInv, FlowInv, app # "quitting", current = None
    PROVE  AllClean(engine)
<1> SUFFICES ASSUME NEW c \in Children, engine[c].life = "alive" PROVE Clean(engine[c])
  BY DEF AllClean
<1>1. OwnInv /\ SideInv /\ c # None
  BY ConstantsAssumption DEF FlowInv, ConstantsAssumption
<1> QED
  BY <1>1 DEF OwnInv, SideInv, Alive

LEMMA PumpUpFlow ==
    ASSUME BaseInv, BaseInv', FlowInv, ShownInv, app = "up",
           UNCHANGED <<app, published, disowned, stored, output, unstarted>>,
           NEW st \in [Docs -> Statuses], NEW q \in Seq(Docs), Waits(st, q),
           NEW pend \in [Docs -> Nat], Pump(st, q, current, pend, engine),
           \A d \in Docs : st[d] = "done" => status[d] = "done",
           current # None => st[current] = status[current]
    PROVE  FlowInv' /\ ShownInv'
<1>1. CASE current # None
  <2>1. status' = st /\ engine' = engine /\ UNCHANGED <<current, sidecar, request, asked>>
    BY <1>1 DEF Pump
  <2> QED
    BY <1>1, <2>1, QuietFlow
<1>2. CASE current = None
  <2>1. Pump(st, q, None, pend, engine)
    BY <1>2
  <2>2. AllClean(engine) /\ Drained(engine) /\ engine \in [Children -> Engines] /\ AimInv
    BY <1>2, IdleClean, SameDrained DEF BaseInv, TypeInv, TypeOK, FlowInv
  <2>3. \A d \in Docs : st[d] = "done" /\ d \notin disowned /\ asked[d] \notin unstarted => Shown(d)
    BY DEF ShownInv, DoneInv
  <2>4. app' = app \/ (app = "down" /\ app' = "up")
    OBVIOUS
  <2>5. disowned' = disowned /\ stored' = stored /\ output' = output /\ unstarted' = unstarted
    OBVIOUS
  <2> QED
    BY <2>1, <2>2, <2>3, <2>4, <2>5, PumpFlow
<1> QED
  BY <1>1, <1>2

LEMMA AddPaperFlow ==
    ASSUME BaseInv, FlowInv, ShownInv, NEW d \in Docs, AddPaper(d) PROVE FlowInv' /\ ShownInv'
<1>1. BaseInv'
  BY AddPaperBase
<1>2. /\ app = "up" /\ UNCHANGED <<app, published, disowned, stored, output, unstarted>>
      /\ status[d] = "absent" /\ ~Queued(d)
  BY AbsentWaits DEF AddPaper, Ask, BaseInv, results
<1>3. /\ status \in [Docs -> Statuses] /\ pending \in [Docs -> Nat] /\ current \in Docs \cup {None}
      /\ TypeInv /\ None \notin Docs
      /\ current # None /\ status[current] = "absent" => current \in disowned
  BY ConstantsAssumption DEF BaseInv, TypeInv, TypeOK, QueueInv, ConstantsAssumption
<1>4. CASE /\ current = d /\ status' = [status EXCEPT ![d] = "new"]
           /\ UNCHANGED <<queue, current, pending, configured, sidecar, engine, request, asked>>
  <2>1. /\ \A b \in Docs : status'[b] = "done" => status[b] = "done"
        /\ current \in disowned'
    BY <1>2, <1>3, <1>4
  <2> QED
    BY <1>2, <1>4, <2>1, QuietFlow
<1>5. CASE current # d /\ Pump([status EXCEPT ![d] = "queued"], Append(queue, d), current, pending, engine)
  <2> DEFINE st == [status EXCEPT ![d] = "queued"]
             q == Append(queue, d)
  <2>1. st \in [Docs -> Statuses] /\ q \in Seq(Docs) /\ Waits(st, q)
    BY <1>2, <1>3, QueuedWaits DEF Statuses
  <2>2. /\ current # None => st[current] = status[current]
        /\ \A b \in Docs : st[b] = "done" => status[b] = "done"
    BY <1>3, <1>5
  <2>3. Pump(st, q, current, pending, engine)
    BY <1>5
  <2> HIDE DEF st, q
  <2> QED
    BY <1>1, <1>2, <1>3, <2>1, <2>2, <2>3, PumpUpFlow
<1> QED
  BY <1>4, <1>5 DEF AddPaper

LEMMA EnqueueFlow ==
    ASSUME BaseInv, FlowInv, ShownInv, NEW d \in Docs, Enqueue(d) PROVE FlowInv' /\ ShownInv'
<1>1. BaseInv'
  BY EnqueueBase
<1>2. /\ app = "up" /\ UNCHANGED <<app, published, disowned, stored, output, unstarted>>
      /\ ~Queued(d) /\ current # d
  BY DEF Enqueue, Ask, results
<1>3. /\ status \in [Docs -> Statuses] /\ pending \in [Docs -> Nat] /\ current \in Docs \cup {None}
      /\ TypeInv
  BY DEF BaseInv, TypeInv, TypeOK
<1> DEFINE st == [status EXCEPT ![d] = "queued"]
           q == Append(queue, d)
<1>4. st \in [Docs -> Statuses] /\ q \in Seq(Docs) /\ Waits(st, q)
  BY <1>2, <1>3, QueuedWaits DEF Statuses
<1>5. /\ current # None => st[current] = status[current]
      /\ \A b \in Docs : st[b] = "done" => status[b] = "done"
  BY <1>2, <1>3
<1>6. Pump(st, q, current, pending, engine)
  BY DEF Enqueue
<1> HIDE DEF st, q
<1> QED
  BY <1>1, <1>2, <1>3, <1>4, <1>5, <1>6, PumpUpFlow

LEMMA EditFlow ==
    ASSUME BaseInv, FlowInv, ShownInv, NEW d \in Docs, Edit(d) PROVE FlowInv' /\ ShownInv'
<1> DEFINE edits == [pending EXCEPT ![d] = @ + 1]
<1>1. BaseInv'
  BY EditBase
<1>2. /\ app = "up" /\ UNCHANGED <<app, published, disowned, stored, output, unstarted>>
      /\ status[d] # "absent"
  BY DEF Edit, Ask, results
<1>3. /\ status \in [Docs -> Statuses] /\ edits \in [Docs -> Nat] /\ current \in Docs \cup {None}
      /\ TypeInv /\ queue \in Seq(Docs) /\ Waits(status, queue)
  BY SMTT(30) DEF BaseInv, TypeInv, TypeOK
<1>4. CASE UNCHANGED <<status, queue, current, configured, sidecar, engine, request, asked>>
  BY <1>2, <1>4, QuietFlow
<1>5. CASE ~Queued(d) /\ Pump(status, Append(queue, d), current, edits, engine)
  <2> DEFINE q == Append(queue, d)
  <2> HIDE DEF edits
  <2>1. q \in Seq(Docs) /\ Waits(status, q)
    BY <1>2, <1>3, <1>5, AppendWaits DEF Queued
  <2>2. Pump(status, q, current, edits, engine)
    BY <1>5
  <2> HIDE DEF q
  <2> QED
    BY <1>1, <1>2, <1>3, <2>1, <2>2, PumpUpFlow
<1>6. CASE /\ ~Queued(d) /\ current # d
           /\ Pump([status EXCEPT ![d] = "queued"], Append(queue, d), current, edits, engine)
  <2> DEFINE st == [status EXCEPT ![d] = "queued"]
             q == Append(queue, d)
  <2> HIDE DEF edits
  <2>1. st \in [Docs -> Statuses] /\ q \in Seq(Docs) /\ Waits(st, q)
    BY <1>3, <1>6, QueuedWaits DEF Statuses
  <2>2. /\ current # None => st[current] = status[current]
        /\ \A b \in Docs : st[b] = "done" => status[b] = "done"
    BY <1>3, <1>6
  <2>3. Pump(st, q, current, edits, engine)
    BY <1>6
  <2> HIDE DEF st, q
  <2> QED
    BY <1>1, <1>2, <1>3, <2>1, <2>2, <2>3, PumpUpFlow
<1> QED
  BY <1>4, <1>5, <1>6 DEF Edit

\* A cancel in the pipe leaves the run where it is.
LEMMA CancelCarries ==
    ASSUME NEW e \in Engines, NEW f \in Engines, CancelSent(e, f), NEW d, NEW n, Carries(e, d, n)
    PROVE  Carries(f, d, n)
<1> DEFINE m == Message("cancel", None, 0)
<1>1. /\ f.channel = e.channel /\ f.run = e.run /\ f.lines = e.lines
      /\ ToSet(f.pipe) = ToSet(e.pipe) \cup {m}
      /\ m.type = "cancel"
  BY CancelSentFields
<1>2. f.pipe = Append(e.pipe, m)
  BY DEF CancelSent, Engines
<1>3. m \in Messages /\ e.pipe \in Seq(Messages)
  BY EngineFields DEF Message, Messages
<1> HIDE DEF m
<1>4. LastRun(e.pipe, d, n) => LastRun(f.pipe, d, n)
  <2>1. m.type \notin {"edit", "run"}
    BY <1>1
  <2> QED
    BY <1>2, <1>3, <2>1, LastAppend
<1>5. NoWork(e.pipe) => NoWork(f.pipe)
  BY <1>1 DEF NoWork
<1> QED
  BY <1>1, <1>4, <1>5 DEF Carries, Sent, Received, Running, Reported

LEMMA CancelToFlow ==
    ASSUME BaseInv, FlowInv, ShownInv, app = "up", NEW d \in Docs, NEW x \in {"cancelled", "absent"},
           CancelTo(d, [status EXCEPT ![d] = x]),
           UNCHANGED <<app, current, published, sidecar, request, asked, unstarted>>,
           disowned \subseteq disowned', x = "absent" /\ current = d => d \in disowned',
           \A b \in Docs : b # d \/ x = "cancelled" => output'[b] = output[b] /\ stored'[b] = stored[b]
    PROVE  FlowInv' /\ ShownInv'
<1> DEFINE st == [status EXCEPT ![d] = x]
           c == sidecar.child
<1>1. /\ status \in [Docs -> Statuses] /\ current \in Docs \cup {None} /\ None \notin Docs
      /\ None \notin Children
  BY ConstantsAssumption DEF BaseInv, TypeInv, TypeOK, ConstantsAssumption
<1>2. /\ st[d] = x /\ \A b \in Docs : b # d => st[b] = status[b]
      /\ \A b \in Docs : st[b] = "done" => b # d /\ status[b] = "done"
  BY <1>1
<1> HIDE DEF st
<1>3. ASSUME status' = st
      PROVE  \A b \in Docs : b \notin disowned' /\ (b = current \/ status'[b] = "done") =>
                                 output'[b] = output[b] /\ stored'[b] = stored[b]
  BY <1>2, <1>3
<1>4. CASE Queued(d) /\ queue' = RemoveFirst(queue, d) /\ status' = st /\ engine' = engine
  <2>1. current # None => \/ status'[current] = status[current]
                          \/ status'[current] \in {"cancelled", "absent"}
                          \/ current \in disowned'
    BY <1>1, <1>2, <1>4
  <2>2. \A b \in Docs : status'[b] = "done" => status[b] = "done"
    BY <1>2, <1>4
  <2>3. \A b \in Docs : b \notin disowned' /\ (b = current \/ status'[b] = "done") =>
                                 output'[b] = output[b] /\ stored'[b] = stored[b]
    BY <1>3, <1>4
  <2>4. engine' = engine
    BY <1>4
  <2> QED
    BY <2>1, <2>2, <2>3, <2>4, QuietFlow
<1>5. CASE /\ ~Queued(d) /\ current = d /\ status' = st /\ queue' = queue
           /\ c \in Children /\ engine[c] \in Engines /\ engine'[c] \in Engines
           /\ CancelSent(engine[c], engine'[c])
           /\ \A b \in Children : b # c => engine'[b] = engine[b]
  <2>1. \A b \in Children : /\ engine'[b].life = engine[b].life /\ engine'[b].run = engine[b].run
                            /\ engine'[b].lines = engine[b].lines
    <3>1. /\ engine'[c].life = engine[c].life /\ engine'[c].run = engine[c].run
          /\ engine'[c].lines = engine[c].lines
      BY <1>5, CancelSentFields
    <3> QED
      BY <1>5, <3>1
  <2>2. current # None /\ c # None
    BY <1>1, <1>5
  <2>3. OwnInv'
    <3>1. engine[c].life = "alive" => Carries(engine[c], current, request)
      BY <1>5, <2>2 DEF FlowInv, OwnInv, Alive
    <3>2. Carries(engine[c], current, request) => Carries(engine'[c], current, request)
      BY <1>5, CancelCarries
    <3> QED
      BY <1>5, <2>1, <2>2, <3>1, <3>2 DEF OwnInv, Alive
  <2>4. SideInv'
    BY <1>5, <2>1 DEF FlowInv, SideInv, Alive
  <2>5. AimInv'
    <3>1. status'[current] \in {"cancelled", "absent"}
      BY <1>2, <1>5
    <3> QED
      BY <3>1 DEF AimInv
  <2>6. HoldInv'
    BY <1>5 DEF FlowInv, HoldInv
  <2>7. \A b \in Docs : b \notin disowned' /\ (b = current \/ status'[b] = "done") =>
                            Shown(b)' = Shown(b)
    BY <1>3, <1>5 DEF Shown
  <2>8. \A b \in Children : /\ Says(engine'[b], request) = Says(engine[b], request)
                            /\ Wipes(engine'[b], request) = Wipes(engine[b], request)
    BY <2>1 DEF Says, Wipes
  <2>9. LineInv'
    BY <1>1, <2>2, <2>7, <2>8 DEF ShownInv, LineInv
  <2>10. StaleInv'
    BY <1>1, <2>2, <2>7, <2>8 DEF ShownInv, StaleInv
  <2>11. DoneInv'
    BY <1>2, <1>5, <2>7 DEF ShownInv, DoneInv
  <2> QED
    BY <2>3, <2>4, <2>5, <2>6, <2>9, <2>10, <2>11 DEF FlowInv, ShownInv
<1>6. CancelTo(d, st)
  BY DEF st
<1> QED
  BY <1>4, <1>5, <1>6, CancelToCases

LEMMA CancelFlow ==
    ASSUME BaseInv, FlowInv, ShownInv, NEW d \in Docs, Cancel(d) PROVE FlowInv' /\ ShownInv'
<1>1. /\ app = "up" /\ CancelTo(d, [status EXCEPT ![d] = "cancelled"])
      /\ UNCHANGED <<app, current, published, sidecar, request, asked, unstarted>> /\ disowned' = disowned
      /\ output' = output /\ stored' = stored
  BY DEF Cancel, Ask, results
<1> QED
  BY <1>1, CancelToFlow

LEMMA RemovePaperFlow ==
    ASSUME BaseInv, FlowInv, ShownInv, NEW d \in Docs, RemovePaper(d) PROVE FlowInv' /\ ShownInv'
<1>1. /\ app = "up"
      /\ UNCHANGED <<app, current, published, sidecar, request, asked, unstarted>>
      /\ disowned \subseteq disowned' /\ (current = d => d \in disowned')
      /\ stored' = [stored EXCEPT ![d] = 0] /\ output' = [output EXCEPT ![d] = NoOutput]
  BY DEF RemovePaper, Ask
<1>2. /\ stored \in [Docs -> Nat] /\ output \in [Docs -> Outputs]
      /\ status \in [Docs -> Statuses] /\ current \in Docs \cup {None} /\ None \notin Docs
  BY ConstantsAssumption DEF BaseInv, TypeInv, TypeOK, ConstantsAssumption
<1>3. \A b \in Docs : b # d => output'[b] = output[b] /\ stored'[b] = stored[b]
  BY <1>1, <1>2
<1>4. CASE CancelTo(d, [status EXCEPT ![d] = "absent"])
  <2>1. \A b \in Docs : b # d \/ "absent" = "cancelled" => output'[b] = output[b] /\ stored'[b] = stored[b]
    BY <1>3
  <2> QED
    BY <1>1, <1>4, <2>1, CancelToFlow
<1>5. CASE /\ current # d /\ status' = [status EXCEPT ![d] = "absent"]
           /\ UNCHANGED <<queue, engine>>
  <2>1. /\ current # None => status'[current] = status[current]
        /\ \A b \in Docs : status'[b] = "done" => b # d /\ status[b] = "done"
    BY <1>2, <1>5
  <2>2. \A b \in Docs : b \notin disowned' /\ (b = current \/ status'[b] = "done") =>
                            output'[b] = output[b] /\ stored'[b] = stored[b]
    BY <1>3, <1>5, <2>1
  <2> QED
    BY <1>1, <1>5, <2>1, <2>2, QuietFlow
<1> QED
  BY <1>4, <1>5 DEF RemovePaper

\* An engine whose line was taken.
LineTaken(eng, c) == eng = [engine EXCEPT ![c].lines = Tail(@)]

OnlyLines(eng, c) ==
    \A b \in Children :
        /\ eng[b].life = engine[b].life /\ eng[b].pipe = engine[b].pipe
        /\ eng[b].channel = engine[b].channel /\ eng[b].run = engine[b].run
        /\ eng[b].cancelled = engine[b].cancelled /\ eng[b].eof = engine[b].eof
        /\ eng[b].retained = engine[b].retained /\ eng[b].edited = engine[b].edited
        /\ ToSet(eng[b].lines) \subseteq ToSet(engine[b].lines)
        /\ eng[b].lines = IF b = c THEN Tail(engine[b].lines) ELSE engine[b].lines

LEMMA TakenLine ==
    ASSUME TypeOK, NEW c \in Children, engine[c].lines # <<>>, NEW eng, LineTaken(eng, c)
    PROVE  OnlyLines(eng, c)
<1>1. Drained(eng)
  BY RestDrained DEF LineTaken
<1>2. /\ eng[c] = [engine[c] EXCEPT !.lines = Tail(@)]
      /\ \A b \in Children : b # c => eng[b] = engine[b]
  BY RestType DEF LineTaken
<1>3. engine[c] \in Engines
  BY DEF TypeOK
<1>4. eng[c].lines = Tail(engine[c].lines)
  BY <1>2, <1>3 DEF Engines
<1>5. ASSUME NEW b \in Children
      PROVE  eng[b].lines = IF b = c THEN Tail(engine[b].lines) ELSE engine[b].lines
  BY <1>2, <1>4
<1>6. ASSUME NEW b \in Children
      PROVE  /\ eng[b].life = engine[b].life /\ eng[b].pipe = engine[b].pipe
             /\ eng[b].channel = engine[b].channel /\ eng[b].run = engine[b].run
             /\ eng[b].cancelled = engine[b].cancelled /\ eng[b].eof = engine[b].eof
             /\ eng[b].retained = engine[b].retained /\ eng[b].edited = engine[b].edited
             /\ ToSet(eng[b].lines) \subseteq ToSet(engine[b].lines)
  BY <1>1, DrainedFields
<1> QED
  BY <1>5, <1>6 DEF OnlyLines

\* The line that is taken is of the current run: its engine is the child, if there is one.
LEMMA LineOfChild ==
    ASSUME BaseInv, FlowInv, current # None, NEW c \in Children, engine[c].lines # <<>>,
           Head(engine[c].lines).n = request
    PROVE  /\ Head(engine[c].lines) \in ToSet(engine[c].lines)
           /\ sidecar.child = None \/ c = sidecar.child
<1>1. engine[c].lines \in Seq(Lines)
  BY EngineFields DEF BaseInv, TypeInv, TypeOK
<1>2. Head(engine[c].lines) \in ToSet(engine[c].lines)
  BY <1>1, TailSet
<1> QED
  BY <1>2 DEF FlowInv, HoldInv, Without

LEMMA FinishedFlow ==
    ASSUME BaseInv, BaseInv', FlowInv, ShownInv, NEW c \in Children, engine[c].lines # <<>>,
           current # None, Head(engine[c].lines).n = request,
           Head(engine[c].lines).type = "run_finished",
           UNCHANGED <<app, disowned, stored, output, unstarted>>,
           Pump(Booked(current, Head(engine[c].lines).ok), queue, None, pending,
                [engine EXCEPT ![c].lines = Tail(@)])
    PROVE  FlowInv' /\ ShownInv'
<1> DEFINE line == Head(engine[c].lines)
           rest == [engine EXCEPT ![c].lines = Tail(@)]
           s == engine[c].lines
<1>1. /\ TypeInv /\ TypeOK /\ queue \in Seq(Docs) /\ pending \in [Docs -> Nat]
      /\ current \in Docs /\ None \notin Children /\ request \in Nat
      /\ \A b \in Children : engine[b] \in Engines
  BY ConstantsAssumption DEF BaseInv, TypeInv, TypeOK, ConstantsAssumption
<1>2. line \in Lines /\ rest \in [Children -> Engines] /\ Drained(rest)
  BY <1>1, RestType, RestDrained
<1>3. line.ok \in BOOLEAN /\ line.n = request /\ line.type = "run_finished"
  BY <1>2 DEF Lines
<1>4. /\ s \in Seq(Lines) /\ s # <<>> /\ line \in ToSet(s)
      /\ sidecar.child = None \/ c = sidecar.child
  <2>1. s \in Seq(Lines)
    BY <1>1, EngineFields
  <2>2. /\ line \in ToSet(s)
        /\ sidecar.child = None \/ c = sidecar.child
    BY LineOfChild
  <2> QED
    BY <2>1, <2>2
<1>t. OnlyLines(rest, c)
  BY <1>1, TakenLine DEF LineTaken
<1> HIDE DEF rest
<1>5. rest[c].lines = Tail(s) /\ \A b \in Children : rest[b].life = engine[b].life
  BY <1>t DEF OnlyLines
<1>6. ASSUME NEW b \in Children, Clean(engine[b]) PROVE Clean(rest[b])
  BY <1>2, <1>6, DrainedClean
<1>7. Reported(engine[c]) => Clean(rest[c])
  <2>1. /\ rest[c].pipe = engine[c].pipe /\ rest[c].channel = engine[c].channel
        /\ rest[c].run = engine[c].run
    BY <1>t DEF OnlyLines
  <2>2. OneFinish(s) => NoFinish(Tail(s))
    BY <1>3, <1>4, OneTail
  <2>3. NoFinish(rest[c].lines) = NoFinish(Tail(s))
    BY <1>5
  <2>4. Reported(engine[c]) => OneFinish(s)
    BY DEF Reported
  <2> HIDE DEF s
  <2> QED
    BY <2>1, <2>2, <2>3, <2>4 DEF Reported, Clean
<1>8. engine[c].life = "alive" /\ ~Clean(engine[c]) => Reported(engine[c])
  <2>1. ~NoFinish(s)
    BY <1>3, <1>4 DEF NoFinish
  <2>2. engine[c].life = "alive" /\ ~Clean(engine[c]) => Carries(engine[c], current, request)
    BY WorkOf
  <2> QED
    BY <2>1, <2>2 DEF Carries, Sent, Received, Running, s
<1>9. \A b \in Children : engine[b].life = "alive" => Clean(engine[b]) \/ b = c
  BY <1>1, <1>4, WorkOf
<1>10. AllClean(rest)
  BY <1>5, <1>6, <1>7, <1>8, <1>9 DEF AllClean
<1> DEFINE st == Booked(current, line.ok)
<1>11. /\ st \in [Docs -> Statuses] /\ Waits(st, queue)
       /\ \A b \in Docs : b # current => st[b] = status[b]
       /\ st[current] = IF status[current] = "absent" THEN "absent" ELSE Verdict(current, line.ok)
  BY <1>1, <1>3, BookedType
<1>12. Verdict(current, line.ok) = "done" => current \in published \/ line.ok
  BY DEF Verdict
<1>13. ASSUME current \notin disowned, request \notin unstarted, current \in published \/ line.ok
       PROVE  Shown(current)
  <2>1. CASE line.ok
    <3>1. Says(engine[c], request)
      BY <1>3, <1>4, <2>1 DEF Says
    <3> QED
      BY <1>13, <3>1 DEF ShownInv, LineInv
  <2>2. CASE current \in published /\ ~Shown(current)
    <3>1. Begins(s, request)
      BY <1>13, <2>2 DEF ShownInv, StaleInv, Wipes
    <3>2. line.type = "run_started"
      BY <1>1, <1>3, <1>4, <3>1, BeginsLines
    <3> QED
      BY <1>3, <3>2
  <2> QED
    BY <1>13, <2>1, <2>2
<1>14. Pump(st, queue, None, pending, rest)
  BY DEF rest
<1> HIDE DEF st, line, s
<1>15. \A d \in Docs : st[d] = "done" /\ d \notin disowned /\ asked[d] \notin unstarted => Shown(d)
  <2> SUFFICES ASSUME NEW d \in Docs, st[d] = "done", d \notin disowned,
                      asked[d] \notin unstarted
               PROVE  Shown(d)
    OBVIOUS
  <2>1. CASE d = current
    <3>1. asked[current] = request
      BY <1>1 DEF BaseInv, QueueInv
    <3> QED
      BY <1>11, <1>12, <1>13, <2>1, <3>1
  <2>2. CASE d # current
    BY <1>11, <2>2 DEF ShownInv, DoneInv
  <2> QED
    BY <2>1, <2>2
<1>16. /\ AimInv
       /\ app' = app \/ (app = "down" /\ app' = "up")
       /\ disowned' = disowned /\ stored' = stored /\ output' = output /\ unstarted' = unstarted
  BY DEF FlowInv
<1> QED
  BY <1>1, <1>2, <1>10, <1>11, <1>14, <1>15, <1>16, PumpFlow

LEMMA OtherLineFlow ==
    ASSUME BaseInv, FlowInv, ShownInv, NEW c \in Children, engine[c].lines # <<>>,
           current # None => /\ Head(engine[c].lines).n = request
                             /\ Head(engine[c].lines).type # "run_finished"
                             /\ published' = Marked(Head(engine[c].lines).type),
           UNCHANGED <<app, disowned, stored, output, unstarted>>,
           engine' = [engine EXCEPT ![c].lines = Tail(@)],
           UNCHANGED <<status, queue, current, pending, configured, sidecar, request, asked>>
    PROVE  FlowInv' /\ ShownInv'
<1> DEFINE line == Head(engine[c].lines)
<1>1. /\ TypeOK /\ current \in Docs \cup {None} /\ None \notin Children
      /\ sidecar.child \in Children \cup {None}
      /\ \A b \in Children : engine[b] \in Engines
  BY ConstantsAssumption DEF BaseInv, TypeInv, TypeOK, Sidecars, ConstantsAssumption
<1>t. TypeOK /\ LineTaken(engine', c)
  BY DEF LineTaken, BaseInv, TypeInv
<1>o. OnlyLines(engine', c)
  BY <1>t, TakenLine
<1>2. \A b \in Children :
         /\ engine'[b].life = engine[b].life /\ engine'[b].pipe = engine[b].pipe
         /\ engine'[b].channel = engine[b].channel /\ engine'[b].run = engine[b].run
         /\ engine'[b].cancelled = engine[b].cancelled /\ engine'[b].eof = engine[b].eof
         /\ ToSet(engine'[b].lines) \subseteq ToSet(engine[b].lines)
         /\ engine'[b].lines = IF b = c THEN Tail(engine[b].lines) ELSE engine[b].lines
  BY <1>o DEF OnlyLines
<1>3. engine[c].lines \in Seq(Lines)
  BY <1>1, EngineFields
<1>4. current # None => line \in ToSet(engine[c].lines) /\ line.n = request
  BY LineOfChild
<1> HIDE DEF line
<1>5. \A b \in Children : Clean(engine[b]) => Clean(engine'[b])
  BY <1>2 DEF Clean, NoFinish
<1>6. \A b \in Children : Orphan(engine[b]) => Orphan(engine[b])'
  BY <1>2 DEF Orphan, Uncancelled, NotDone
<1>7. ASSUME current # None, NEW b \in Children, Carries(engine[b], current, request)
      PROVE  Carries(engine'[b], current, request)
  <2> DEFINE e == engine[b]
             f == engine'[b]
  <2>1. OneFinish(e.lines) => OneFinish(f.lines)
    BY <1>2, <1>3, <1>7, OneTail
  <2>2. f.pipe = e.pipe /\ f.channel = e.channel /\ f.run = e.run
    BY <1>2
  <2>3. /\ NoFinish(e.lines) => NoFinish(f.lines)
        /\ Without(e.lines, request) => Without(f.lines, request)
    BY <1>2 DEF NoFinish, Without
  <2>4. Carries(e, current, request)
    BY <1>7
  <2> HIDE DEF e, f
  <2>5. Carries(f, current, request)
    BY <2>1, <2>2, <2>3, <2>4 DEF Carries, Sent, Received, Running, Reported
  <2> QED
    BY <2>5 DEF f
<1>8. OwnInv'
  <2>1. OwnInv
    BY DEF FlowInv
  <2> QED
    BY <1>1, <1>2, <1>5, <1>7, <2>1, SMTT(30) DEF OwnInv, Alive
<1>9. SideInv'
  BY <1>2, <1>5, <1>6 DEF FlowInv, SideInv, Alive
<1>10. AimInv'
  BY <1>2 DEF FlowInv, AimInv, Alive, Hit, Uncancelled
<1>11. HoldInv'
  BY <1>2 DEF FlowInv, HoldInv, Without
<1>12. \A d \in Docs : Shown(d)' = Shown(d)
  BY DEF Shown
<1>13. \A b \in Children : Says(engine'[b], request) => Says(engine[b], request)
  BY <1>2 DEF Says
<1>14. LineInv'
  BY <1>1, <1>12, <1>13 DEF ShownInv, LineInv
<1>15. StaleInv'
  <2> SUFFICES ASSUME current # None, current \in published', current \notin disowned, ~Shown(current)
               PROVE  FALSE
    BY <1>1, <1>12 DEF StaleInv
  <2>1. line.type = "document_finished"
    BY DEF Marked, line
  <2>2. Says(engine[c], request)
    BY <1>4, <2>1 DEF Says
  <2> QED
    BY <2>2 DEF ShownInv, LineInv
<1>16. DoneInv'
  BY <1>12 DEF ShownInv, DoneInv
<1> QED
  BY <1>8, <1>9, <1>10, <1>11, <1>14, <1>15, <1>16 DEF FlowInv, ShownInv

LEMMA DeliverFlow ==
    ASSUME BaseInv, FlowInv, ShownInv, NEW c \in Children, Deliver(c), ~strayed'
    PROVE  FlowInv' /\ ShownInv'
<1> DEFINE line == Head(engine[c].lines)
           rest == [engine EXCEPT ![c].lines = Tail(@)]
<1>1. BaseInv'
  BY DeliverBase
<1>2. /\ engine[c].lines # <<>> /\ (current # None => line.n = request)
      /\ UNCHANGED <<app, disowned, stored, output, unstarted>>
  BY DEF Deliver, results
<1>3. \/ /\ line.type = "run_finished" /\ current # None
         /\ Pump(Booked(current, line.ok), queue, None, pending, rest)
      \/ /\ line.type # "run_finished" \/ current = None
         /\ published' = IF current = None THEN published ELSE Marked(line.type)
         /\ engine' = rest
         /\ UNCHANGED <<status, queue, current, pending, configured, sidecar, request, asked>>
  BY DEF Deliver
<1>4. CASE line.type = "run_finished" /\ current # None
           /\ Pump(Booked(current, line.ok), queue, None, pending, rest)
  BY <1>1, <1>2, <1>4, FinishedFlow
<1>5. CASE /\ line.type # "run_finished" \/ current = None
           /\ published' = IF current = None THEN published ELSE Marked(line.type)
           /\ engine' = rest
           /\ UNCHANGED <<status, queue, current, pending, configured, sidecar, request, asked>>
  <2>1. current # None => line.n = request /\ line.type # "run_finished" /\ published' = Marked(line.type)
    BY <1>2, <1>5
  <2> QED
    BY <1>2, <1>5, <2>1, OtherLineFlow
<1> QED
  BY <1>3, <1>4, <1>5

\* After the exit of a process no paper is current, or the manager was stopped.
LEMMA ExitFlow ==
    ASSUME BaseInv, FlowInv, ShownInv, NEW c \in Children, Exit(c) PROVE FlowInv' /\ ShownInv'
<1>1. /\ engine[c].life = "dead" /\ engine'[c].life = "gone" /\ engine'[c].lines = engine[c].lines
      /\ \A b \in Children : b # c => engine'[b] = engine[b]
      /\ app # "down" /\ app' = app /\ request' = request /\ asked' = asked
      /\ disowned' = disowned /\ published' = published
      /\ stored' = stored /\ output' = output /\ unstarted' = unstarted
      /\ sidecar'.child = None
      /\ app = "up" \/ sidecar.stopped => c = sidecar.child
  BY ExitCases
<1>2. \/ /\ sidecar.stopped
         /\ UNCHANGED <<status, queue, current>>
      \/ /\ ~sidecar.stopped /\ CrashEvent
  BY ExitCases
<1>3. /\ status \in [Docs -> Statuses] /\ current \in Docs \cup {None} /\ None \notin Docs
      /\ None \notin Children /\ app \in {"up", "quitting", "down"}
      /\ \A b \in Children : engine[b] \in Engines
  BY ConstantsAssumption DEF BaseInv, TypeInv, TypeOK, ConstantsAssumption
<1>4. /\ \A d \in Docs : status'[d] = "done" => status[d] = "done"
      /\ current' # None => current' = current /\ sidecar.stopped
      /\ current # None /\ ~sidecar.stopped => current' = None /\ status'[current] # "done"
  <2>1. CASE UNCHANGED <<status, current>> /\ (sidecar.stopped \/ current = None)
    BY <2>1
  <2>2. CASE /\ ~sidecar.stopped /\ current # None /\ current' = None
             /\ status' = FailAll([d \in Docs |-> IF d = current /\ status[d] # "absent"
                                                  THEN "failed" ELSE status[d]], queue)
    <3> DEFINE st == [d \in Docs |-> IF d = current /\ status[d] # "absent"
                                     THEN "failed" ELSE status[d]]
    <3>1. /\ st \in [Docs -> Statuses]
          /\ \A d \in Docs : st[d] \in {"failed", status[d]}
          /\ current \in Docs /\ st[current] # "done"
      BY <1>3, <2>2 DEF Statuses
    <3> HIDE DEF st
    <3>2. status' = FailAll(st, queue)
      BY <2>2 DEF st
    <3>3. \A d \in Docs : status'[d] \in {"failed", st[d]}
      BY <3>1, <3>2, FailAllType
    <3> QED
      BY <2>2, <3>1, <3>3
  <2> QED
    BY <1>2, <2>1, <2>2 DEF CrashEvent
<1>5. OwnInv' /\ AimInv' /\ HoldInv'
  BY <1>1 DEF OwnInv, AimInv, HoldInv
<1>6. SideInv'
  <2> SUFFICES ASSUME NEW b \in Children, engine'[b].life = "alive"
               PROVE  Clean(engine'[b]) \/ (app' = "quitting" /\ current' = None /\ Orphan(engine[b])' )
    BY DEF SideInv, Alive
  <2>1. b # c /\ engine'[b] = engine[b] /\ engine[b].life = "alive"
    BY <1>1
  <2>2. app = "quitting" /\ ~sidecar.stopped
    <3>1. app = "up" \/ sidecar.stopped => b = sidecar.child
      BY <2>1 DEF BaseInv, LifeInv, Has
    <3> QED
      BY <1>1, <1>3, <2>1, <3>1
  <2>3. current' = None
    BY <1>4, <2>2
  <2>4. ASSUME Orphan(engine[b]) PROVE Orphan(engine[b])'
    BY <1>4, <2>1, <2>4 DEF Orphan, NotDone
  <2>5. CASE Clean(engine[b]) \/ Orphan(engine[b])
    BY <1>1, <2>1, <2>2, <2>3, <2>4, <2>5
  <2>6. CASE current # None /\ b = sidecar.child /\ Carries(engine[b], current, request)
    <3>1. /\ engine[b].run # NoRun => engine[b].run.doc = current
          /\ \A m \in ToSet(engine[b].pipe) \cup ToSet(engine[b].channel) :
                m.type \in {"edit", "run"} => m.doc = current
      BY <1>3, <2>6, CarriesRun DEF Running
    <3>2. Uncancelled(engine[b])
      BY <1>3, <2>1, <2>2, <2>6 DEF FlowInv, AimInv, Alive
    <3>3. current \in Docs /\ status'[current] # "done"
      BY <1>3, <1>4, <2>2, <2>6
    <3>4. NoRun.doc = None
      BY DEF NoRun
    <3>5. Orphan(engine[b])'
      BY <1>3, <2>1, <3>1, <3>2, <3>3, <3>4 DEF Orphan, NotDone
    <3> QED
      BY <1>1, <2>2, <2>3, <3>5
  <2> QED
    BY <2>1, <2>5, <2>6, WorkOf
<1>7. \A b \in Children : /\ Says(engine'[b], request) => Says(engine[b], request)
                          /\ Wipes(engine[b], request) => Wipes(engine'[b], request)
  <2>1. /\ Says(engine'[c], request) => Says(engine[c], request)
        /\ Wipes(engine[c], request) => Wipes(engine'[c], request)
    BY <1>1 DEF Says, Wipes
  <2> QED
    BY <1>1, <2>1
<1>8. \A d \in Docs : Shown(d)' = Shown(d)
  BY <1>1 DEF Shown
<1>9. LineInv'
  BY <1>1, <1>3, <1>4, <1>7, <1>8 DEF ShownInv, LineInv
<1>10. StaleInv'
  BY <1>1, <1>3, <1>4, <1>7, <1>8 DEF ShownInv, StaleInv
<1>11. DoneInv'
  BY <1>1, <1>4, <1>8 DEF ShownInv, DoneInv
<1> QED
  BY <1>5, <1>6, <1>9, <1>10, <1>11 DEF FlowInv, ShownInv

LEMMA RespawnFlow ==
    ASSUME BaseInv, FlowInv, ShownInv, Respawn PROVE FlowInv' /\ ShownInv'
<1>1. /\ current = None
      /\ UNCHANGED <<app, status, published, current, request, asked,
                     stored, output, unstarted, strayed, disowned>>
      /\ sidecar'.stopped = sidecar.stopped
  BY RespawnCases
<1>2. CASE engine' = engine /\ sidecar'.child = sidecar.child
  BY <1>1, <1>2, QuietFlow
<1>3. ASSUME NEW c \in Children, NEW b \in BOOLEAN,
             sidecar'.child = c, engine'[c] = Spawned(b),
             \A x \in Children : x # c => engine'[x] = engine[x]
      PROVE  FlowInv' /\ ShownInv'
  <2>1. Clean(engine'[c]) /\ Uncancelled(engine'[c])
    BY <1>3, SpawnedClean
  <2>2. OwnInv'
    BY <1>1, <1>3, <2>1 DEF OwnInv
  <2>3. SideInv'
    <3> SUFFICES ASSUME NEW x \in Children, x # c, engine'[x].life = "alive"
                 PROVE  Clean(engine'[x]) \/ (app' = "quitting" /\ current' = None /\ Orphan(engine[x])')
      BY <1>3 DEF SideInv, Alive
    <3>1. engine'[x] = engine[x] /\ engine[x].life = "alive"
      BY <1>3
    <3>2. Orphan(engine[x]) => Orphan(engine[x])'
      BY <1>1, <3>1 DEF Orphan, NotDone
    <3>3. x # sidecar.child => Clean(engine[x]) \/ (app = "quitting" /\ Orphan(engine[x]))
      BY <3>1 DEF FlowInv, SideInv, Alive
    <3>4. x = sidecar.child => Clean(engine[x])
      <4>1. x # None
        BY ConstantsAssumption DEF ConstantsAssumption
      <4> QED
        BY <1>1, <3>1, <4>1 DEF FlowInv, OwnInv, Alive
    <3> QED
      BY <1>1, <3>1, <3>2, <3>3, <3>4
  <2>4. AimInv'
    BY <1>1, <1>3, <2>1 DEF AimInv
  <2>5. HoldInv' /\ LineInv' /\ StaleInv'
    BY <1>1 DEF HoldInv, LineInv, StaleInv
  <2>6. DoneInv'
    BY <1>1 DEF ShownInv, DoneInv, Shown
  <2> QED
    BY <2>2, <2>3, <2>4, <2>5, <2>6 DEF FlowInv, ShownInv
<1> QED
  BY <1>2, <1>3, RespawnCases

LEMMA QuitFlow ==
    ASSUME BaseInv, FlowInv, ShownInv, Quit PROVE FlowInv' /\ ShownInv'
<1>1. /\ app = "up" /\ app' = "quitting"
      /\ UNCHANGED <<status, published, current, request, asked, stored, output, unstarted,
                     disowned>>
      /\ sidecar'.stopped = TRUE /\ sidecar'.child = sidecar.child
  BY QuitCases
<1>2. \A c \in Children :
         /\ engine'[c].life = engine[c].life /\ engine'[c].pipe = engine[c].pipe
         /\ engine'[c].channel = engine[c].channel /\ engine'[c].run = engine[c].run
         /\ engine'[c].lines = engine[c].lines /\ engine'[c].eof = engine[c].eof
         /\ engine'[c].cancelled = engine[c].cancelled
  BY QuitCases
<1>3. sidecar.child \in Children \cup {None} /\ current \in Docs \cup {None}
  BY DEF BaseInv, TypeInv, TypeOK, Sidecars
<1>4. ASSUME NEW c \in Children
      PROVE  /\ Clean(engine'[c]) = Clean(engine[c])
             /\ Carries(engine'[c], current, request) = Carries(engine[c], current, request)
             /\ Hit(engine'[c]) = Hit(engine[c])
             /\ Says(engine'[c], request) = Says(engine[c], request)
             /\ Wipes(engine'[c], request) = Wipes(engine[c], request)
  <2> DEFINE e == engine[c]
             f == engine'[c]
  <2>1. /\ f.life = e.life /\ f.pipe = e.pipe
        /\ f.channel = e.channel /\ f.run = e.run
        /\ f.lines = e.lines /\ f.eof = e.eof
        /\ f.cancelled = e.cancelled
    BY <1>2
  <2> HIDE DEF e, f
  <2>2. Clean(f) = Clean(e)
    BY <2>1 DEF Clean
  <2>3. Carries(f, current, request) = Carries(e, current, request)
    BY <2>1 DEF Carries, Sent, Received, Running, Reported
  <2>4. Hit(f) = Hit(e)
    BY <2>1 DEF Hit
  <2>5. Says(f, request) = Says(e, request) /\ Wipes(f, request) = Wipes(e, request)
    BY <2>1 DEF Says, Wipes
  <2> QED
    BY <2>2, <2>3, <2>4, <2>5 DEF e, f
<1>5. OwnInv'
  BY <1>1, <1>2, <1>3, <1>4 DEF FlowInv, OwnInv, Alive
<1>6. SideInv'
  BY <1>1, <1>2, <1>4 DEF FlowInv, SideInv, Alive
<1>7. AimInv'
  BY <1>1, <1>2, <1>3, <1>4 DEF FlowInv, AimInv, Alive
<1>8. HoldInv'
  BY <1>1, <1>2 DEF FlowInv, HoldInv
<1>9. \A d \in Docs : Shown(d)' = Shown(d)
  BY <1>1 DEF Shown
<1>10. LineInv' /\ StaleInv'
  BY <1>1, <1>3, <1>4, <1>9 DEF ShownInv, LineInv, StaleInv
<1>11. DoneInv'
  BY <1>1, <1>9 DEF ShownInv, DoneInv
<1> QED
  BY <1>5, <1>6, <1>7, <1>8, <1>10, <1>11 DEF FlowInv, ShownInv

LEMMA AppExitFlow ==
    ASSUME BaseInv, FlowInv, ShownInv, AppExit PROVE FlowInv' /\ ShownInv'
<1>1. /\ engine' = [c \in Children |-> NoEngine] /\ sidecar' = NoSidecar /\ current' = None
      /\ UNCHANGED <<status, asked, stored, output, unstarted, disowned>>
  BY DEF AppExit, results
<1>2. NoSidecar.child = None /\ NoEngine.life = "none"
  BY DEF NoSidecar, NoEngine
<1>3. OwnInv' /\ SideInv' /\ AimInv' /\ HoldInv' /\ LineInv' /\ StaleInv'
  BY <1>1, <1>2 DEF OwnInv, SideInv, AimInv, HoldInv, LineInv, StaleInv, Alive
<1>4. DoneInv'
  BY <1>1 DEF ShownInv, DoneInv, Shown
<1> QED
  BY <1>3, <1>4 DEF FlowInv, ShownInv

LEMMA StartFlow ==
    ASSUME BaseInv, FlowInv, ShownInv, Start PROVE FlowInv' /\ ShownInv'
<1>1. BaseInv'
  BY StartBase
<1>2. PICK st \in [Docs -> Statuses], q \in Seq(Docs) :
         /\ Waits(st, q) /\ Pump(st, q, None, pending, engine)
         /\ \A d \in Docs : st[d] \in {"queued", status[d]}
  BY StartCases DEF BaseInv
<1>3. /\ app = "down" /\ app' = "up" /\ disowned' = disowned
      /\ stored' = stored /\ output' = output /\ unstarted' = unstarted
      /\ pending \in [Docs -> Nat] /\ engine \in [Children -> Engines]
  BY DEF Start, results, BaseInv, TypeInv, TypeOK
<1>4. AllClean(engine)
  <2>1. current = None /\ app # "quitting"
    BY <1>3 DEF BaseInv, LifeInv
  <2> QED
    BY <2>1, IdleClean
<1>5. \A d \in Docs : st[d] = "done" /\ d \notin disowned /\ asked[d] \notin unstarted => Shown(d)
  BY <1>2 DEF ShownInv, DoneInv
<1>6. AimInv /\ Drained(engine)
  BY SameDrained DEF FlowInv
<1> QED
  BY <1>1, <1>2, <1>3, <1>4, <1>5, <1>6, PumpFlow

-----------------------------------------------------------------------------
(* The child retains what the store holds *)

LEMMA RetainedFields ==
    ASSUME NEW e \in Engines, NEW f \in Engines, Moves(e, f)
    PROVE  /\ \/ CancelRead(e, f) \/ RequestRead(e, f) \/ EofRead(e, f) \/ ConfigureTaken(e, f)
              \/ FellBack(e, f) \/ RunPublished(e, f)
              => f.retained = e.retained /\ f.edited = e.edited
           /\ RunTaken(e, f) \/ RunMissed(e, f) \/ PagesTaken(e, f) =>
                 f.retained = NotRetained /\ f.edited = 0
           /\ RunFinished(e, f) => f.retained = KeptOf(e) /\ f.edited = e.edited
<1>1. ASSUME CancelRead(e, f) \/ RequestRead(e, f) \/ EofRead(e, f) \/ ConfigureTaken(e, f)
      PROVE  f.retained = e.retained /\ f.edited = e.edited
  BY <1>1 DEF CancelRead, RequestRead, EofRead, ConfigureTaken, Engines
<1>2. ASSUME FellBack(e, f) PROVE f.retained = e.retained /\ f.edited = e.edited
  BY <1>2 DEF FellBack, Engines
<1>3. ASSUME RunPublished(e, f) PROVE f.retained = e.retained /\ f.edited = e.edited
  BY <1>3 DEF RunPublished, Engines
<1>4. ASSUME RunTaken(e, f) \/ RunMissed(e, f) \/ PagesTaken(e, f)
      PROVE  f.retained = NotRetained /\ f.edited = 0
  <2>1. e.channel # <<>>
    BY <1>4 DEF RunTaken, RunMissed, PagesTaken, RunNext
  <2>2. Taken(e) \in Engines /\ Taken(e).retained = NotRetained /\ Taken(e).edited = 0
    BY <2>1, TakenType
  <2> QED
    BY <1>4, <2>2 DEF RunTaken, RunMissed, PagesTaken, Engines
<1>5. ASSUME RunFinished(e, f) PROVE f.retained = KeptOf(e) /\ f.edited = e.edited
  BY <1>5 DEF RunFinished, Engines
<1> QED
  BY <1>1, <1>2, <1>3, <1>4, <1>5

\* A request that is read or taken: the runs on their way stay.
LEMMA ReadMail ==
    ASSUME NEW e \in Engines, NEW f \in Engines,
           \/ CancelRead(e, f) \/ RequestRead(e, f) \/ EofRead(e, f)
           \/ ConfigureTaken(e, f) \/ EditTaken(e, f)
    PROVE  /\ Mail(f) \subseteq Mail(e) /\ \A m \in Mail(e) : m.type = "run" => m \in Mail(f)
           /\ f.run = e.run /\ f.lines = e.lines
<1>0. e.pipe \in Seq(Messages) /\ e.channel \in Seq(Messages)
  BY EngineFields
<1>1. CASE CancelRead(e, f)
  <2>1. /\ e.pipe # <<>> /\ Head(e.pipe).type = "cancel" /\ f.pipe = Tail(e.pipe)
        /\ f.channel = e.channel /\ f.run = e.run /\ f.lines = e.lines
    BY <1>1, CancelReadFields
  <2>2. ToSet(e.pipe) = {Head(e.pipe)} \cup ToSet(f.pipe)
    BY <1>0, <2>1, TailSet
  <2> QED
    BY <2>1, <2>2 DEF Mail
<1>2. CASE RequestRead(e, f)
  <2>1. /\ e.pipe # <<>> /\ f.pipe = Tail(e.pipe)
        /\ ToSet(f.channel) = ToSet(e.channel) \cup {Head(e.pipe)}
        /\ f.run = e.run /\ f.lines = e.lines
    BY <1>2, RequestReadFields
  <2>2. ToSet(e.pipe) = {Head(e.pipe)} \cup ToSet(f.pipe)
    BY <1>0, <2>1, TailSet
  <2> QED
    BY <2>1, <2>2 DEF Mail
<1>3. CASE EofRead(e, f)
  BY <1>3, EofReadFields DEF Mail
<1>4. CASE ConfigureTaken(e, f) \/ EditTaken(e, f)
  <2>1. /\ e.channel # <<>> /\ f.channel = Tail(e.channel) /\ f.pipe = e.pipe
        /\ Head(e.channel).type # "run" /\ f.run = e.run /\ f.lines = e.lines
    BY <1>4, TakenFields, ConfigureTakenFields, EditTakenFields
  <2>2. ToSet(e.channel) = {Head(e.channel)} \cup ToSet(f.channel)
    BY <1>0, <2>1, TailSet
  <2> QED
    BY <2>1, <2>2 DEF Mail
<1> QED
  BY <1>1, <1>2, <1>3, <1>4

LEMMA ReadKeeps ==
    ASSUME NEW e \in Engines, NEW f \in Engines,
           CancelRead(e, f) \/ RequestRead(e, f) \/ EofRead(e, f) \/ ConfigureTaken(e, f),
           NEW cur, NEW pub, NEW st, NEW sto, NEW dis, Keeps(e, cur, pub, st, sto, dis)
    PROVE  Keeps(f, cur, pub, st, sto, dis)
<1>1. /\ Mail(f) \subseteq Mail(e) /\ \A m \in Mail(e) : m.type = "run" => m \in Mail(f)
      /\ f.run = e.run /\ f.lines = e.lines
  BY ReadMail
<1>2. f.retained = e.retained /\ f.edited = e.edited
  BY RetainedFields DEF Moves
<1>3. Leaves(e) => Leaves(f)
  BY <1>1, <1>2 DEF Leaves
<1> QED
  BY <1>1, <1>2, <1>3 DEF Keeps, Idle, Kept, RunKept

\* An edit is counted where it is stored, and its run is behind it.
LEMMA EditKeeps ==
    ASSUME NEW e \in Engines, NEW f \in Engines, NEW saved \in {0, 1}, EditSaved(e, f, saved),
           NEW cur \in Docs, NEW n, Carries(e, cur, n),
           NEW pub, NEW st, NEW sto \in [Docs -> Nat], NEW new, NEW dis,
           \A d \in Docs : d # Head(e.channel).doc => new[d] = sto[d],
           \A d \in Docs : d = Head(e.channel).doc => new[d] = sto[d] + saved,
           Keeps(e, cur, pub, st, sto, dis)
    PROVE  Keeps(f, cur, pub, st, new, dis)
<1> DEFINE h == Head(e.channel)
<1>1. EditTaken(e, f)
  BY DEF EditTaken
<1>2. /\ Mail(f) \subseteq Mail(e) /\ \A m \in Mail(e) : m.type = "run" => m \in Mail(f)
      /\ f.run = NoRun /\ f.lines = e.lines
      /\ h \in ToSet(e.channel) /\ h.type = "edit"
  BY <1>1, ReadMail, TakenFields, EditTakenFields
<1>3. f.retained = e.retained /\ f.edited = e.edited + saved
  BY DEF EditSaved, Engines
<1>4. e.retained.edits \in Nat /\ e.edited \in Nat /\ e.retained.doc \in Docs \cup {None}
  BY DEF Engines, Retained
<1>5. h.doc = cur /\ (Sent(e, cur, n) \/ Received(e, cur, n))
  BY <1>2, CarriesRun
<1> HIDE DEF h
<1>6. NoFinish(e.lines) /\ \E m \in Mail(e) : m.type = "run" /\ m.doc = cur
  <2>1. e.pipe \in Seq(Messages) /\ e.channel \in Seq(Messages)
    BY EngineFields
  <2>2. ASSUME NEW s \in Seq(Messages), LastRun(s, cur, n)
        PROVE  \E m \in ToSet(s) : m.type = "run" /\ m.doc = cur
    BY <2>2, IndexSet DEF LastRun
  <2> QED
    BY <1>5, <2>1, <2>2 DEF Sent, Received, Mail
<1>7. Leaves(e) => Leaves(f)
  BY <1>2, <1>3 DEF Leaves, Mail
<1>8. e.retained.doc # cur => Leaves(f)
  BY <1>2, <1>3, <1>6 DEF Leaves
<1>9. Idle(f, cur, pub)
  BY <1>2, <1>3, <1>6, ConstantsAssumption DEF Keeps, Idle, ConstantsAssumption
<1>10. new[cur] = sto[cur] + saved
  BY <1>5 DEF h
<1>11. Kept(f, st, new, dis)
  <2> SUFFICES ASSUME e.retained.doc = cur, ~e.retained.partial, cur \notin dis, st[cur] # "absent",
                      ~Leaves(e)
               PROVE  new[cur] = e.retained.edits + (e.edited + saved)
    BY <1>3, <1>7, <1>8 DEF Kept
  <2>1. sto[cur] = e.retained.edits + e.edited
    BY ConstantsAssumption DEF Keeps, Kept, ConstantsAssumption
  <2> QED
    BY <1>4, <1>10, <2>1
<1> QED
  BY <1>2, <1>9, <1>11 DEF Keeps, RunKept

\* A new process, or one whose run before is forgotten.
LEMMA FreshKeeps ==
    ASSUME NEW e, e.retained = NotRetained, e.edited = 0,
           e.run # NoRun => ~e.run.pages /\ ~e.run.published,
           NEW cur, NEW pub, None \notin pub, NEW st, NEW sto, NEW dis
    PROVE  Keeps(e, cur, pub, st, sto, dis)
<1>1. NotRetained.doc = None
  BY DEF NotRetained
<1> QED
  BY <1>1 DEF Keeps, Idle, Kept, RunKept

\* A recompile starts from the retained state, its paper not published again since.
LEMMA PagesKeeps ==
    ASSUME NEW e \in Engines, NEW f \in Engines, PagesTaken(e, f),
           NEW cur \in Docs, NEW n, Carries(e, cur, n), NEW pub, None \notin pub,
           NEW st, NEW sto, NEW dis, st[cur] = "absent" => cur \in dis,
           Keeps(e, cur, pub, st, sto, dis)
    PROVE  Keeps(f, cur, pub, st, sto, dis)
<1> DEFINE h == Head(e.channel)
<1>1. /\ h \in ToSet(e.channel) /\ h.type = "run" /\ e.retained.doc = h.doc /\ e.edited > 0
      /\ e.channel # <<>> /\ e.edited \in Nat
  BY TakenFields DEF PagesTaken, RunNext, Engines
<1>2. /\ h.doc = cur
      /\ \A m \in Mail(e) : m.type \in {"edit", "run"} => m.doc = cur
  BY <1>1, CarriesRun DEF Mail
<1> HIDE DEF h
<1>3. ~Leaves(e)
  <2>1. e.edited # 0
    BY <1>1
  <2> QED
    BY <1>1, <1>2, <2>1 DEF Leaves
<1>4. /\ f.retained = NotRetained /\ f.edited = 0
      /\ f.run.doc = cur /\ f.run.partial = e.retained.partial
      /\ f.run.edits = e.retained.edits + e.edited
  <2>1. Taken(e) \in Engines
    BY <1>1, TakenType
  <2>2. f.run = PagesRun(e)
    BY <2>1 DEF PagesTaken, Engines
  <2> QED
    BY <1>2, <2>2, RetainedFields DEF PagesRun, Moves, h
<1>5. NotRetained.doc = None /\ cur # None
  BY ConstantsAssumption DEF NotRetained, ConstantsAssumption
<1>6. RunKept(f, sto, dis)
  BY <1>1, <1>2, <1>3, <1>4, <1>5 DEF Keeps, Kept, RunKept
<1> QED
  BY <1>4, <1>5, <1>6 DEF Keeps, Idle, Kept

\* A published run is retained at its end.
LEMMA FinishKeeps ==
    ASSUME NEW e \in Engines, NEW f \in Engines, RunFinished(e, f),
           NEW cur, e.run.doc = cur, NEW pub, None \notin pub, NEW st, NEW sto \in [Docs -> Nat],
           NEW dis, Keeps(e, cur, pub, st, sto, dis)
    PROVE  Keeps(f, cur, pub, st, sto, dis)
<1>1. /\ e.run # NoRun /\ f.run = NoRun
      /\ e.run.edits \in Nat /\ e.run.doc \in Docs
  BY RunFinishedFields DEF Engines, Runs
<1>2. f.retained = KeptOf(e) /\ f.edited = 0 /\ e.retained = NotRetained
  BY <1>1, RetainedFields DEF Moves, Keeps, Idle
<1>3. ~NoFinish(f.lines)
  <2>1. PICK ok \in BOOLEAN : Adds(e, f, "run_finished", e.run.n, ok)
    BY RunFinishedFields
  <2> QED
    BY <2>1 DEF Adds, NoFinish
<1>4. NotRetained.doc = None
  BY DEF NotRetained
<1>5. CASE e.run.published
  <2>1. f.retained = [doc |-> cur, edits |-> e.run.edits, partial |-> e.run.partial]
    BY <1>2, <1>5 DEF KeptOf
  <2>2. /\ f.retained.doc = cur /\ f.retained.edits = e.run.edits
        /\ f.retained.partial = e.run.partial
    BY <2>1
  <2>3. Kept(f, st, sto, dis)
    BY <1>1, <1>2, <1>5, <2>2 DEF Keeps, RunKept, Kept
  <2> QED
    BY <1>1, <1>2, <1>3, <2>2, <2>3 DEF Keeps, Idle, RunKept
<1>6. CASE ~e.run.published
  <2>1. f.retained = NotRetained
    BY <1>2, <1>6 DEF KeptOf
  <2> QED
    BY <1>1, <1>2, <2>1, FreshKeeps
<1> QED
  BY <1>5, <1>6

\* A step of the child, whoever's run it carries.
LEMMA EngineKept ==
    ASSUME BaseInv, FlowInv, KeepInv, NEW c \in Children,
           Reader(c) \/ MainLoop(c) \/ Publish(c) \/ EngineEnd(c)
    PROVE  KeepInv'
<1> DEFINE e == engine[c]
           f == engine'[c]
           k == sidecar.child
<1>1. /\ UNCHANGED <<app, status, published, current, sidecar, request, disowned>>
      /\ e \in Engines /\ f \in Engines /\ e.life = "alive"
      /\ \A b \in Children : b # c => engine'[b] = engine[b]
  <2>1. Only(c)
    BY EngineSteps
  <2>2. UNCHANGED <<app, status, published, current, sidecar, request, disowned>>
    BY <2>1 DEF Only, EngineOnly, main
  <2> QED
    BY <2>1, <2>2 DEF Only, Alive
<1>2. /\ current \in Docs \cup {None} /\ None \notin Docs /\ published \subseteq Docs
      /\ stored \in [Docs -> Nat] /\ None \notin Children
      /\ current # None /\ status[current] = "absent" => current \in disowned
      /\ k \in Children \cup {None}
  BY ConstantsAssumption
     DEF BaseInv, TypeInv, TypeOK, Sidecars, QueueInv, ConstantsAssumption
<1>3. \/ Quiets(e, f) /\ stored' = stored
      \/ Ended(e, f) /\ stored' = stored
      \/ \E saved \in {0, 1} :
            /\ EditSaved(e, f, saved)
            /\ \A d \in Docs : d # Head(e.channel).doc => stored'[d] = stored[d]
            /\ \A d \in Docs : d = Head(e.channel).doc => stored'[d] = stored[d] + saved
      \/ /\ RunPublished(e, f) /\ stored' = stored
         /\ f.run.edits = IF e.run.pages THEN e.run.edits ELSE stored[e.run.doc]
         /\ e.run.partial => f.run.partial
      \/ RunMissed(e, f) /\ stored' = stored
      \/ PagesTaken(e, f) /\ stored' = stored
  BY EngineKinds
<1> SUFFICES ASSUME Busy, k # None, engine'[k].life = "alive"
             PROVE  Keeps(engine'[k], current, published, status, stored', disowned)
  BY <1>1 DEF KeepInv, Busy, Alive
<1> HIDE DEF e, f, k
<1>4. CASE c # k
  <2>1. Clean(e)
    BY <1>1, <1>4 DEF FlowInv, SideInv, Alive, Busy, e, k
  <2>2. stored' = stored
    <3>1. ASSUME NEW saved \in {0, 1}, EditSaved(e, f, saved) PROVE FALSE
      <4>1. EditTaken(e, f)
        BY <3>1 DEF EditTaken
      <4>2. Head(e.channel) \in ToSet(e.channel) /\ Head(e.channel).type = "edit"
        BY <1>1, <4>1, TakenFields, EditTakenFields
      <4> QED
        BY <2>1, <4>2 DEF Clean, NoWork
    <3> QED
      BY <1>3, <3>1
  <2>3. engine'[k] = engine[k]
    BY <1>1, <1>2, <1>4
  <2> QED
    BY <1>2, <2>2, <2>3 DEF KeepInv, Alive, k
<1>5. CASE c = k
  <2>0. engine'[k] = f /\ f.life = "alive"
    BY <1>5 DEF f
  <2>1. Keeps(e, current, published, status, stored, disowned)
    BY <1>1, <1>5 DEF KeepInv, Alive, e, k
  <2>2. IF current = None THEN Clean(e) ELSE Carries(e, current, request)
    BY <1>1, <1>5 DEF FlowInv, OwnInv, Alive, e, k
  <2>3. (\E m \in ToSet(e.channel) : m.type \in {"edit", "run"}) \/ e.run # NoRun =>
           current \in Docs /\ Carries(e, current, request)
    BY <1>2, <2>2 DEF Clean, NoWork
  <2>4. e.run # NoRun =>
           e.run.doc = current /\ current \in Docs /\ e.retained = NotRetained /\ e.edited = 0
    BY <1>1, <2>1, <2>3, CarriesRun DEF Running, Keeps, Idle
  <2>5. None \notin published
    BY <1>2
  <2> HIDE DEF e, f, k
  <2>6. CASE Quiets(e, f) /\ stored' = stored
    <3>1. CASE CancelRead(e, f) \/ RequestRead(e, f) \/ EofRead(e, f) \/ ConfigureTaken(e, f)
      BY <1>1, <2>0, <2>1, <2>6, <3>1, ReadKeeps
    <3>2. CASE RunTaken(e, f)
      <4>1. f.retained = NotRetained /\ f.edited = 0
        BY <1>1, <3>2, RetainedFields DEF Moves
      <4>2. ~f.run.pages /\ ~f.run.published
        BY <1>1, <3>2, RunTakenFields
      <4> QED
        BY <2>0, <2>5, <4>1, <4>2, FreshKeeps
    <3>3. CASE FellBack(e, f)
      <4>1. e.run # NoRun /\ ~f.run.pages /\ ~f.run.published
        BY <1>1, <3>3, FellBackFields
      <4>2. f.retained = NotRetained /\ f.edited = 0
        BY <1>1, <2>4, <3>3, <4>1, RetainedFields DEF Moves
      <4> QED
        BY <2>0, <2>5, <4>1, <4>2, FreshKeeps
    <3>4. CASE RunFinished(e, f)
      <4>1. e.run.doc = current
        BY <1>1, <2>4, <3>4, RunFinishedFields
      <4> QED
        BY <1>1, <1>2, <2>0, <2>1, <2>5, <2>6, <3>4, <4>1, FinishKeeps
    <3> QED
      BY <2>6, <3>1, <3>2, <3>3, <3>4 DEF Quiets
  <2>7. CASE Ended(e, f)
    BY <2>0, <2>7, EndedFields
  <2>8. ASSUME NEW saved \in {0, 1}, EditSaved(e, f, saved),
               \A d \in Docs : d # Head(e.channel).doc => stored'[d] = stored[d],
               \A d \in Docs : d = Head(e.channel).doc => stored'[d] = stored[d] + saved
        PROVE  Keeps(engine'[k], current, published, status, stored', disowned)
    <3>1. EditTaken(e, f)
      BY <2>8 DEF EditTaken
    <3>2. Head(e.channel) \in ToSet(e.channel) /\ Head(e.channel).type = "edit"
      BY <1>1, <3>1, TakenFields, EditTakenFields
    <3>3. current \in Docs /\ Carries(e, current, request)
      BY <2>3, <3>2
    <3> QED
      BY <1>1, <1>2, <2>0, <2>1, <2>8, <3>3, EditKeeps
  <2>9. CASE /\ RunPublished(e, f) /\ stored' = stored
             /\ f.run.edits = IF e.run.pages THEN e.run.edits ELSE stored[e.run.doc]
             /\ e.run.partial => f.run.partial
    <3>1. e.run # NoRun /\ f.run # NoRun /\ f.run.doc = e.run.doc
      BY <1>1, <2>9, RunPublishedFields
    <3>2. f.retained = NotRetained /\ f.edited = 0
      BY <1>1, <2>4, <2>9, <3>1, RetainedFields DEF Moves
    <3>3. NotRetained.doc = None
      BY DEF NotRetained
    <3>4. RunKept(f, stored, disowned)
      BY <2>1, <2>9, <3>1 DEF Keeps, RunKept
    <3> QED
      BY <2>0, <2>5, <2>9, <3>2, <3>3, <3>4 DEF Keeps, Idle, Kept
  <2>10. CASE RunMissed(e, f)
    <3>1. f.retained = NotRetained /\ f.edited = 0 /\ f.run = NoRun
      BY <1>1, <2>10, RetainedFields, RunMissedFields DEF Moves
    <3> QED
      BY <2>0, <2>5, <3>1, FreshKeeps
  <2>11. CASE PagesTaken(e, f) /\ stored' = stored
    <3>1. Head(e.channel) \in ToSet(e.channel) /\ Head(e.channel).type = "run"
      BY <1>1, <2>11, TakenFields, PagesTakenFields
    <3>2. current \in Docs /\ Carries(e, current, request)
      BY <2>3, <3>1
    <3>3. status[current] = "absent" => current \in disowned
      BY <1>2, <3>2
    <3> QED
      BY <1>1, <2>0, <2>1, <2>5, <2>11, <3>2, <3>3, PagesKeeps
  <2> QED
    BY <1>3, <2>6, <2>7, <2>8, <2>9, <2>10, <2>11
<1> QED
  BY <1>4, <1>5

\* What is retained of another paper than the current one is left behind by its run.
LEMMA OtherLeaves ==
    ASSUME NEW e \in Engines, NEW cur \in Docs, NEW n, Carries(e, cur, n), NEW pub, Idle(e, cur, pub)
    PROVE  e.retained.doc \in {None, cur} \/ Leaves(e)
<1>1. ASSUME NEW s \in Seq(Messages), LastRun(s, cur, n)
      PROVE  \E m \in ToSet(s) : m.type = "run" /\ m.doc = cur
  BY <1>1, IndexSet DEF LastRun
<1>2. e.pipe \in Seq(Messages) /\ e.channel \in Seq(Messages)
  BY EngineFields
<1>3. CASE Sent(e, cur, n) \/ Received(e, cur, n)
  <2>1. \E m \in Mail(e) : m.type = "run" /\ m.doc = cur
    BY <1>1, <1>2, <1>3 DEF Sent, Received, Mail
  <2> QED
    BY <2>1 DEF Leaves
<1>4. CASE Running(e, cur, n)
  BY <1>4 DEF Running, Idle, NotRetained
<1>5. CASE Reported(e)
  <2>1. ~NoFinish(e.lines)
    <3>1. e.lines \in Seq(Lines)
      BY EngineFields
    <3> QED
      BY <1>5, <3>1, IndexSet DEF Reported, OneFinish, NoFinish
  <2> QED
    BY <2>1 DEF Idle
<1> QED
  BY <1>3, <1>4, <1>5 DEF Carries

\* The same work: the run, what is retained, and the run on its way.
SameWork(e, f) ==
    /\ f.life = e.life /\ f.run = e.run /\ f.lines = e.lines
    /\ f.retained = e.retained /\ f.edited = e.edited
    /\ Leaves(e) => Leaves(f)

\* A handler that sends no request: rows come and go, and stores with them.
LEMMA CallKept ==
    ASSUME BaseInv, FlowInv, KeepInv, Busy' => Busy,
           UNCHANGED <<published, current>>, sidecar'.child = sidecar.child,
           sidecar.child # None => SameWork(engine[sidecar.child], engine'[sidecar.child]),
           disowned \subseteq disowned',
           \A d \in Docs : status[d] = "absent" =>
               status'[d] = "absent" \/ d \in disowned' \/ (current # None /\ d # current),
           \A d \in Docs : d \notin disowned' /\ (d = current \/ status'[d] # "absent") =>
                               stored'[d] = stored[d]
    PROVE  KeepInv'
<1> DEFINE k == sidecar.child
           e == engine[k]
           f == engine'[k]
<1> SUFFICES ASSUME Busy, k # None, f.life = "alive"
             PROVE  Keeps(f, current, published, status', stored', disowned')
  BY DEF KeepInv, Alive
<1>1. SameWork(e, f)
  OBVIOUS
<1>2. e.life = "alive" /\ Keeps(e, current, published, status, stored, disowned)
  BY <1>1 DEF SameWork, KeepInv, Alive
<1>3. IF current = None THEN Clean(e) ELSE Carries(e, current, request)
  BY <1>2 DEF FlowInv, OwnInv, Alive
<1>4. k \in Children /\ e \in Engines /\ current \in Docs \cup {None} /\ None \notin Docs
  BY ConstantsAssumption DEF BaseInv, TypeInv, TypeOK, Sidecars, ConstantsAssumption
<1> HIDE DEF e, f, k
<1>5. Idle(f, current, published)
  BY <1>1, <1>2 DEF SameWork, Keeps, Idle
<1>6. Kept(f, status', stored', disowned')
  <2> DEFINE d == e.retained.doc
  <2>1. current # None => d \in {None, current} \/ Leaves(e)
    BY <1>2, <1>3, <1>4, OtherLeaves DEF Keeps
  <2>2. d \in Docs \cup {None}
    BY <1>4 DEF Engines, Retained
  <2>3. d # None =>
           \/ e.retained.partial \/ d \in disowned \/ stored[d] = e.retained.edits + e.edited
           \/ status[d] = "absent" \/ Leaves(e)
    BY <1>2 DEF Keeps, Kept
  <2>4. f.retained = e.retained /\ f.edited = e.edited /\ (Leaves(e) => Leaves(f))
    BY <1>1 DEF SameWork
  <2> SUFFICES ASSUME d # None, ~e.retained.partial, d \notin disowned', ~Leaves(e), status'[d] # "absent"
               PROVE  stored'[d] = e.retained.edits + e.edited
    BY <2>4 DEF Kept
  <2>5. d \in Docs /\ status[d] # "absent"
    BY <2>1, <2>2
  <2> QED
    BY <2>3, <2>5
<1>7. RunKept(f, stored', disowned')
  <2>1. e.run # NoRun => current # None /\ e.run.doc = current
    BY <1>3, <1>4, CarriesRun DEF Clean, Running
  <2>2. f.run = e.run
    BY <1>1 DEF SameWork
  <2> SUFFICES ASSUME e.run # NoRun, e.run.pages \/ e.run.published, ~e.run.partial,
                      e.run.doc \notin disowned'
               PROVE  stored'[e.run.doc] = e.run.edits
    BY <2>2 DEF RunKept
  <2>3. stored[e.run.doc] = e.run.edits
    BY <1>2 DEF Keeps, RunKept
  <2> QED
    BY <1>4, <2>1, <2>3
<1> QED
  BY <1>5, <1>6, <1>7 DEF Keeps

\* The requests of the next paper reach an engine without work.
LEMMA ReceiverKeeps ==
    ASSUME request \in Nat, NEW base \in Engines, NEW f \in Engines, NEW d \in Docs,
           NEW edits \in Nat, NEW known \in BOOLEAN,
           GotRequests(base, f, d, edits, known), Clean(base), base.edited = 0,
           NEW pub, base.retained.doc \notin pub, NEW st, NEW sto, NEW dis,
           base.retained.doc = d =>
               base.retained.partial \/ d \in dis \/ sto[d] = base.retained.edits \/ edits = 0
    PROVE  Keeps(f, d, pub, st, sto, dis)
<1> DEFINE r == Requests(d, edits, known)
           p == base.pipe
<1>1. /\ f.channel = base.channel /\ f.run = base.run /\ f.lines = base.lines
      /\ f.retained = base.retained /\ f.edited = 0 /\ f.pipe = p \o r
      /\ base.retained.edits \in Nat
  BY DEF Engines, GotRequests, Retained
<1>2. /\ r \in Seq(Messages)
      /\ Len(r) = (IF known THEN 0 ELSE 1) + edits + 1
      /\ r[Len(r)] = Message("run", d, request + 1)
      /\ ~known => r[1] = Configure
      /\ \A i \in 1..(Len(r) - 1) : r[i] \in {Configure, Message("edit", d, 0)}
  BY RequestsType
<1>3. /\ Message("run", d, request + 1).type = "run" /\ Message("run", d, request + 1).doc = d
      /\ Configure.type = "configure"
  BY DEF Message, Configure
<1>4. /\ p \in Seq(Messages) /\ NoWork(p) /\ NoWork(base.channel) /\ base.run = NoRun
      /\ NoFinish(base.lines)
  BY EngineFields DEF Clean
<1> HIDE DEF r, p
<1>5. Mail(f) = (ToSet(p) \cup ToSet(r)) \cup ToSet(base.channel)
  BY <1>1, <1>2, <1>4, ConcatSet DEF Mail
<1>6. /\ \A m \in ToSet(r) : \E i \in 1..Len(r) : m = r[i]
      /\ \A i \in 1..Len(r) : r[i] \in ToSet(r)
      /\ Len(r) \in Nat
  BY <1>2, IndexSet
<1>7. r[Len(r)] \in Mail(f) /\ r[Len(r)].type = "run" /\ r[Len(r)].doc = d
  <2>1. Len(r) \in 1..Len(r)
    BY <1>2, <1>6
  <2> QED
    BY <1>2, <1>3, <1>5, <1>6, <2>1
<1>8. ASSUME edits = 0, NEW m \in Mail(f) PROVE m.type # "edit"
  <2>1. CASE m \in ToSet(p) \cup ToSet(base.channel)
    BY <1>4, <2>1 DEF NoWork
  <2>2. CASE m \in ToSet(r)
    <3>1. PICK i \in 1..Len(r) : m = r[i]
      BY <1>6, <2>2
    <3>2. i = Len(r) \/ (~known /\ i = 1)
      BY <1>2, <1>6, <1>8
    <3> QED
      BY <1>2, <1>3, <3>1, <3>2
  <2> QED
    BY <1>5, <2>1, <2>2
<1>9. base.retained.doc # d \/ edits = 0 => Leaves(f)
  BY <1>1, <1>7, <1>8 DEF Leaves
<1>10. Kept(f, st, sto, dis)
  BY <1>1, <1>9 DEF Kept
<1>11. d # None
  BY ConstantsAssumption DEF ConstantsAssumption
<1> QED
  BY <1>1, <1>4, <1>10, <1>11 DEF Keeps, Idle, RunKept

\* What a child without work retains when the next paper is sent to it.
Ready(e, q, pend, pub, st, sto, dis) ==
    /\ Clean(e) /\ e.edited = 0 /\ e.retained.doc \notin pub
    /\ e.retained.doc # None =>
          \/ e.retained.partial \/ e.retained.doc \in dis
          \/ sto[e.retained.doc] = e.retained.edits
          \/ st[e.retained.doc] = "absent"
          \/ q # <<>> /\ pend[e.retained.doc] = 0

LEMMA PumpKept ==
    ASSUME TypeOK, TypeOK',
           NEW st \in [Docs -> Statuses], NEW q \in Seq(Docs), Waits(st, q),
           NEW pend \in [Docs -> Nat], NEW eng \in [Children -> Engines],
           Pump(st, q, None, pend, eng),
           sidecar.child # None /\ eng[sidecar.child].life = "alive" =>
               Ready(eng[sidecar.child], q, pend, published', st, stored', disowned')
    PROVE  KeepInv'
<1> DEFINE k == sidecar.child
<1>1. /\ None \notin published' /\ None \notin Docs /\ None \notin Children
      /\ k \in Children \cup {None} /\ request \in Nat
  BY ConstantsAssumption DEF TypeOK, Sidecars, ConstantsAssumption
<1> HIDE DEF k
<1>2. CASE PumpStays(st, q, None, pend, eng)
  <2>1. /\ engine' = eng /\ sidecar'.child = k /\ current' = None /\ status' = st /\ q = <<>>
    BY <1>2 DEF PumpStays, k
  <2> SUFFICES ASSUME k # None, eng[k].life = "alive"
               PROVE  Keeps(eng[k], None, published', st, stored', disowned')
    BY <2>1 DEF KeepInv, Alive
  <2> DEFINE e == eng[k]
  <2>2. Ready(e, q, pend, published', st, stored', disowned')
    BY DEF k
  <2>3. e.retained.edits \in Nat
    BY <1>1 DEF Engines, Retained
  <2> HIDE DEF e
  <2>4. Keeps(e, None, published', st, stored', disowned')
    BY <2>1, <2>2, <2>3 DEF Ready, Keeps, Idle, Kept, RunKept, Clean
  <2> QED
    BY <2>4 DEF e
<1>3. CASE PumpFails(st, q, None, pend, eng)
  BY <1>3 DEF PumpFails, KeepInv
<1>4. ASSUME NEW c \in Children, NEW base \in Engines, NEW known \in BOOLEAN,
             PumpSends(st, q, None, pend, eng, c, base, known)
      PROVE  KeepInv'
  <2> DEFINE d == Head(q)
             f == engine'[c]
             edits == pend[d]
  <2>1. /\ d \in Docs /\ q # <<>> /\ Receives(eng, c, base, known)
        /\ sidecar'.child = c /\ current' = d
        /\ f = [base EXCEPT !.pipe = @ \o Requests(d, edits, known)]
    BY <1>4 DEF PumpSends
  <2>2. edits \in Nat /\ f \in Engines
    BY <2>1 DEF TypeOK
  <2>3. st[d] # "absent"
    <3>1. d = q[1] /\ 1 \in 1..Len(q)
      BY <2>1, TailSet
    <3> QED
      BY <3>1 DEF Waits
  <2>4. GotRequests(base, f, d, edits, known)
    BY <2>1 DEF GotRequests
  <2> HIDE DEF f
  <2> SUFFICES ASSUME f.life = "alive" PROVE Keeps(f, d, published', status', stored', disowned')
    BY <2>1 DEF KeepInv, Alive, f
  <2>5. CASE k = c /\ base = eng[c]
    <3>1. f.life = base.life
      BY <2>4 DEF GotRequests, Engines
    <3>2. Ready(base, q, pend, published', st, stored', disowned')
      BY <1>1, <2>5, <3>1 DEF k
    <3>3. base.retained.doc = d =>
             \/ base.retained.partial \/ d \in disowned' \/ stored'[d] = base.retained.edits
             \/ edits = 0
      BY <1>1, <2>1, <2>3, <3>2 DEF Ready
    <3>4. Clean(base) /\ base.edited = 0 /\ base.retained.doc \notin published'
      BY <3>2 DEF Ready
    <3> HIDE DEF d, edits
    <3> QED
      BY <1>1, <2>1, <2>2, <2>4, <3>3, <3>4, ReceiverKeeps
  <2>6. CASE base = Spawned(sidecar.lastConfigure)
    <3>1. sidecar.lastConfigure \in BOOLEAN
      BY DEF TypeOK, Sidecars
    <3>2. Clean(base)
      BY <2>6, <3>1, SpawnedClean
    <3>3. base.edited = 0 /\ base.retained = NotRetained
      BY <2>6 DEF Spawned, NoEngine
    <3>4. NotRetained.doc = None
      BY DEF NotRetained
    <3> HIDE DEF d, edits
    <3> QED
      BY <1>1, <2>1, <2>2, <2>4, <3>2, <3>3, <3>4, ReceiverKeeps
  <2> QED
    BY <2>1, <2>5, <2>6 DEF Receives, k
<1>5. PumpIdles(st, q, pend, eng)
  BY PumpIdle
<1> QED
  BY <1>2, <1>3, <1>4, <1>5 DEF PumpIdles

\* A call of the renderer that may send a request.
LEMMA PumpUpKept ==
    ASSUME BaseInv, BaseInv', FlowInv, KeepInv, app = "up",
           UNCHANGED <<app, published, disowned, stored>>,
           NEW st \in [Docs -> Statuses], NEW q \in Seq(Docs), Waits(st, q),
           NEW pend \in [Docs -> Nat], Pump(st, q, current, pend, engine),
           \A d \in Docs : status[d] = "absent" =>
               st[d] = "absent" \/ (d # current /\ q # <<>> /\ pend[d] = 0)
    PROVE  KeepInv'
<1>1. CASE current # None
  <2>1. status' = st /\ engine' = engine /\ UNCHANGED <<current, sidecar>>
    BY <1>1 DEF Pump
  <2>2. Busy' => Busy
    BY DEF Busy
  <2>3. sidecar.child # None => SameWork(engine[sidecar.child], engine'[sidecar.child])
    BY <2>1 DEF SameWork
  <2> QED
    BY <1>1, <2>1, <2>2, <2>3, CallKept
<1>2. CASE current = None
  <2> DEFINE k == sidecar.child
  <2>1. Pump(st, q, None, pend, engine)
    BY <1>2
  <2>2. /\ TypeOK /\ TypeOK' /\ engine \in [Children -> Engines] /\ k \in Children \cup {None}
    BY DEF BaseInv, TypeInv, TypeOK, Sidecars
  <2>3. ASSUME k # None, engine[k].life = "alive"
        PROVE  Ready(engine[k], q, pend, published', st, stored', disowned')
    <3> DEFINE e == engine[k]
    <3>1. Clean(e) /\ Keeps(e, None, published, status, stored, disowned)
      BY <1>2, <2>3 DEF FlowInv, OwnInv, KeepInv, Busy, Alive
    <3>2. e \in Engines
      BY <2>2, <2>3
    <3> HIDE DEF e
    <3>3. e.retained.edits \in Nat /\ e.retained.doc \in Docs \cup {None}
      BY <3>2 DEF Engines, Retained
    <3>4. ~Leaves(e)
      BY <3>1 DEF Leaves, Mail, Clean, NoWork
    <3>5. e.edited = 0 /\ e.retained.doc \notin published
      BY <3>1 DEF Keeps, Idle, Clean
    <3>6. e.retained.doc # None =>
             \/ e.retained.partial \/ e.retained.doc \in disowned
             \/ stored[e.retained.doc] = e.retained.edits
             \/ status[e.retained.doc] = "absent"
      BY <3>1, <3>3, <3>4, <3>5 DEF Keeps, Kept
    <3>7. Ready(e, q, pend, published, st, stored, disowned)
      BY <3>1, <3>3, <3>5, <3>6 DEF Ready
    <3> QED
      BY <3>7 DEF e
  <2> HIDE DEF k
  <2>4. sidecar.child # None /\ engine[sidecar.child].life = "alive" =>
           Ready(engine[sidecar.child], q, pend, published', st, stored', disowned')
    BY <2>3 DEF k
  <2> QED
    BY <2>1, <2>2, <2>4, PumpKept
<1> QED
  BY <1>1, <1>2

LEMMA AddPaperKept ==
    ASSUME BaseInv, PendInv, FlowInv, KeepInv, NEW d \in Docs, AddPaper(d) PROVE KeepInv'
<1>1. BaseInv'
  BY AddPaperBase
<1>2. /\ app = "up" /\ UNCHANGED <<app, published, disowned, stored>>
      /\ status[d] = "absent" /\ ~Queued(d)
  BY AbsentWaits DEF AddPaper, Ask, BaseInv, results
<1>3. /\ status \in [Docs -> Statuses] /\ pending \in [Docs -> Nat] /\ queue \in Seq(Docs)
      /\ TypeInv /\ None \notin Docs
      /\ current # None /\ status[current] = "absent" => current \in disowned
  BY ConstantsAssumption DEF BaseInv, TypeInv, TypeOK, QueueInv, ConstantsAssumption
<1>4. CASE /\ current = d /\ status' = [status EXCEPT ![d] = "new"]
           /\ UNCHANGED <<queue, current, pending, configured, sidecar, engine, request, asked>>
  <2>1. /\ \A b \in Docs : status[b] = "absent" => status'[b] = "absent" \/ b \in disowned'
        /\ Busy' => Busy
    BY <1>2, <1>3, <1>4 DEF Busy
  <2>2. sidecar.child # None => SameWork(engine[sidecar.child], engine'[sidecar.child])
    BY <1>4 DEF SameWork
  <2> QED
    BY <1>2, <1>4, <2>1, <2>2, CallKept
<1>5. CASE current # d /\ Pump([status EXCEPT ![d] = "queued"], Append(queue, d), current, pending, engine)
  <2> DEFINE st == [status EXCEPT ![d] = "queued"]
             q == Append(queue, d)
  <2>1. st \in [Docs -> Statuses] /\ q \in Seq(Docs) /\ Waits(st, q)
    BY <1>2, <1>3, QueuedWaits DEF Statuses
  <2>2. q # <<>>
    BY <1>3, AppendSet
  <2>3. \A b \in Docs : status[b] = "absent" =>
           st[b] = "absent" \/ (b # current /\ q # <<>> /\ pending[b] = 0)
    <3> SUFFICES ASSUME NEW b \in Docs, status[b] = "absent", st[b] # "absent"
                 PROVE  b # current /\ pending[b] = 0
      BY <2>2
    <3>1. b = d
      BY <1>3
    <3> QED
      BY <1>2, <1>5, <3>1 DEF PendInv
  <2>4. Pump(st, q, current, pending, engine)
    BY <1>5
  <2> HIDE DEF st, q
  <2> QED
    BY <1>1, <1>2, <1>3, <2>1, <2>3, <2>4, PumpUpKept
<1> QED
  BY <1>4, <1>5 DEF AddPaper

LEMMA EnqueueKept ==
    ASSUME BaseInv, FlowInv, KeepInv, NEW d \in Docs, Enqueue(d) PROVE KeepInv'
<1>1. BaseInv'
  BY EnqueueBase
<1>2. /\ app = "up" /\ UNCHANGED <<app, published, disowned, stored>>
      /\ ~Queued(d) /\ status[d] # "absent"
  BY DEF Enqueue, Ask, results
<1>3. status \in [Docs -> Statuses] /\ pending \in [Docs -> Nat] /\ TypeInv
  BY DEF BaseInv, TypeInv, TypeOK
<1> DEFINE st == [status EXCEPT ![d] = "queued"]
           q == Append(queue, d)
<1>4. st \in [Docs -> Statuses] /\ q \in Seq(Docs) /\ Waits(st, q)
  BY <1>2, <1>3, QueuedWaits DEF Statuses
<1>5. \A b \in Docs : status[b] = "absent" => st[b] = "absent"
  BY <1>2, <1>3
<1>6. Pump(st, q, current, pending, engine)
  BY DEF Enqueue
<1> HIDE DEF st, q
<1> QED
  BY <1>1, <1>2, <1>3, <1>4, <1>5, <1>6, PumpUpKept

LEMMA EditKept ==
    ASSUME BaseInv, FlowInv, KeepInv, NEW d \in Docs, Edit(d) PROVE KeepInv'
<1> DEFINE edits == [pending EXCEPT ![d] = @ + 1]
<1>1. BaseInv'
  BY EditBase
<1>2. /\ app = "up" /\ UNCHANGED <<app, published, disowned, stored>>
      /\ status[d] # "absent"
  BY DEF Edit, Ask, results
<1>3. /\ status \in [Docs -> Statuses] /\ edits \in [Docs -> Nat]
      /\ TypeInv /\ queue \in Seq(Docs) /\ Waits(status, queue)
  BY SMTT(30) DEF BaseInv, TypeInv, TypeOK
<1>4. CASE UNCHANGED <<status, queue, current, configured, sidecar, engine, request, asked>>
  <2>1. Busy' => Busy
    BY <1>2, <1>4 DEF Busy
  <2>2. sidecar.child # None => SameWork(engine[sidecar.child], engine'[sidecar.child])
    BY <1>4 DEF SameWork
  <2> QED
    BY <1>2, <1>4, <2>1, <2>2, CallKept
<1>5. CASE ~Queued(d) /\ Pump(status, Append(queue, d), current, edits, engine)
  <2> DEFINE q == Append(queue, d)
  <2> HIDE DEF edits
  <2>1. q \in Seq(Docs) /\ Waits(status, q)
    BY <1>2, <1>3, <1>5, AppendWaits DEF Queued
  <2>2. Pump(status, q, current, edits, engine)
    BY <1>5
  <2> HIDE DEF q
  <2> QED
    BY <1>1, <1>2, <1>3, <2>1, <2>2, PumpUpKept
<1>6. CASE /\ ~Queued(d) /\ current # d
           /\ Pump([status EXCEPT ![d] = "queued"], Append(queue, d), current, edits, engine)
  <2> DEFINE st == [status EXCEPT ![d] = "queued"]
             q == Append(queue, d)
  <2> HIDE DEF edits
  <2>1. st \in [Docs -> Statuses] /\ q \in Seq(Docs) /\ Waits(st, q)
    BY <1>3, <1>6, QueuedWaits DEF Statuses
  <2>2. \A b \in Docs : status[b] = "absent" => st[b] = "absent"
    BY <1>2, <1>3
  <2>3. Pump(st, q, current, edits, engine)
    BY <1>6
  <2> HIDE DEF st, q
  <2> QED
    BY <1>1, <1>2, <1>3, <2>1, <2>2, <2>3, PumpUpKept
<1> QED
  BY <1>4, <1>5, <1>6 DEF Edit

LEMMA CancelSame ==
    ASSUME NEW e \in Engines, NEW f \in Engines, CancelSent(e, f) PROVE SameWork(e, f)
<1>1. /\ f.life = e.life /\ f.channel = e.channel /\ f.run = e.run /\ f.lines = e.lines
      /\ f.retained = e.retained /\ f.edited = e.edited
      /\ ToSet(f.pipe) = ToSet(e.pipe) \cup {Message("cancel", None, 0)}
      /\ Message("cancel", None, 0).type = "cancel"
  BY CancelSentFields
<1>2. Mail(f) = Mail(e) \cup {Message("cancel", None, 0)}
  BY <1>1 DEF Mail
<1> QED
  BY <1>1, <1>2 DEF SameWork, Leaves

LEMMA CancelToSame ==
    ASSUME BaseInv, app = "up", NEW d \in Docs, NEW st, CancelTo(d, st)
    PROVE  /\ status' = st
           /\ sidecar.child # None => SameWork(engine[sidecar.child], engine'[sidecar.child])
<1>1. CASE status' = st /\ engine' = engine
  BY <1>1 DEF SameWork
<1>2. CASE /\ status' = st /\ engine[sidecar.child] \in Engines /\ engine'[sidecar.child] \in Engines
           /\ CancelSent(engine[sidecar.child], engine'[sidecar.child])
  BY <1>2, CancelSame
<1> QED
  BY <1>1, <1>2, CancelToCases

LEMMA CancelKept ==
    ASSUME BaseInv, FlowInv, KeepInv, NEW d \in Docs, Cancel(d) PROVE KeepInv'
<1>1. /\ app = "up" /\ CancelTo(d, [status EXCEPT ![d] = "cancelled"]) /\ status[d] # "absent"
      /\ UNCHANGED <<app, current, published, sidecar, stored, disowned>>
  BY DEF Cancel, Ask, results
<1>2. /\ status' = [status EXCEPT ![d] = "cancelled"]
      /\ sidecar.child # None => SameWork(engine[sidecar.child], engine'[sidecar.child])
  BY <1>1, CancelToSame
<1>3. status \in [Docs -> Statuses]
  BY DEF BaseInv, TypeInv, TypeOK
<1>4. \A b \in Docs : status[b] = "absent" => status'[b] = "absent"
  BY <1>1, <1>2, <1>3
<1>5. Busy' => Busy
  BY <1>1 DEF Busy
<1> QED
  BY <1>1, <1>2, <1>4, <1>5, CallKept

LEMMA RemovePaperKept ==
    ASSUME BaseInv, FlowInv, KeepInv, NEW d \in Docs, RemovePaper(d) PROVE KeepInv'
<1>1. /\ app = "up" /\ UNCHANGED <<app, current, published, sidecar>>
      /\ disowned \subseteq disowned' /\ (current = d => d \in disowned')
      /\ stored' = [stored EXCEPT ![d] = 0]
  BY DEF RemovePaper, Ask
<1>2. /\ status' = [status EXCEPT ![d] = "absent"]
      /\ sidecar.child # None => SameWork(engine[sidecar.child], engine'[sidecar.child])
  <2>1. CASE CancelTo(d, [status EXCEPT ![d] = "absent"])
    BY <1>1, <2>1, CancelToSame
  <2>2. CASE status' = [status EXCEPT ![d] = "absent"] /\ engine' = engine
    BY <2>2 DEF SameWork
  <2> QED
    BY <2>1, <2>2 DEF RemovePaper
<1>3. status \in [Docs -> Statuses] /\ stored \in [Docs -> Nat]
  BY DEF BaseInv, TypeInv, TypeOK
<1>4. \A b \in Docs : status[b] = "absent" => status'[b] = "absent"
  BY <1>2, <1>3
<1>5. \A b \in Docs : b \notin disowned' /\ (b = current \/ status'[b] # "absent") =>
                          stored'[b] = stored[b]
  BY <1>1, <1>2, <1>3
<1>6. Busy' => Busy
  BY <1>1 DEF Busy
<1> QED
  BY <1>1, <1>2, <1>4, <1>5, <1>6, CallKept

\* The end of the run is booked, and its mark is cleared.
LEMMA FinishedKept ==
    ASSUME BaseInv, BaseInv', FlowInv, KeepInv, NEW c \in Children, engine[c].lines # <<>>,
           current # None, Head(engine[c].lines).n = request,
           Head(engine[c].lines).type = "run_finished",
           published' = published \ {current}, UNCHANGED <<disowned, stored>>,
           Pump(Booked(current, Head(engine[c].lines).ok), queue, None, pending,
                [engine EXCEPT ![c].lines = Tail(@)])
    PROVE  KeepInv'
<1> DEFINE line == Head(engine[c].lines)
           rest == [engine EXCEPT ![c].lines = Tail(@)]
           st == Booked(current, line.ok)
           e == engine[c]
           f == rest[c]
<1>1. /\ TypeInv /\ TypeOK /\ TypeOK' /\ queue \in Seq(Docs) /\ pending \in [Docs -> Nat]
      /\ current \in Docs /\ None \notin Docs /\ published \subseteq Docs /\ e \in Engines
  BY ConstantsAssumption DEF BaseInv, TypeInv, TypeOK, ConstantsAssumption
<1>2. line \in Lines /\ rest \in [Children -> Engines]
  BY <1>1, RestType
<1>3. line.ok \in BOOLEAN /\ line.type = "run_finished"
  BY <1>2 DEF Lines
<1>4. /\ line \in ToSet(e.lines) /\ e.lines \in Seq(Lines) /\ e.lines # <<>>
      /\ sidecar.child = None \/ c = sidecar.child
  BY <1>1, LineOfChild, EngineFields
<1>5. /\ st \in [Docs -> Statuses] /\ Waits(st, queue)
      /\ status[current] = "absent" => st[current] = "absent"
  BY <1>1, <1>3, BookedType
<1>6. /\ f.life = e.life /\ f.pipe = e.pipe /\ f.channel = e.channel /\ f.run = e.run
      /\ f.retained = e.retained /\ f.edited = e.edited /\ f.lines = Tail(e.lines)
  <2>1. OnlyLines(rest, c)
    BY <1>1, TakenLine DEF LineTaken
  <2> HIDE DEF rest
  <2> QED
    BY <2>1 DEF OnlyLines
<1>7. Pump(st, queue, None, pending, rest)
  OBVIOUS
<1>8. ASSUME c = sidecar.child, e.life = "alive"
      PROVE  Ready(f, queue, pending, published', st, stored', disowned')
  <2>1. c # None
    BY ConstantsAssumption DEF ConstantsAssumption
  <2>2. Carries(e, current, request) /\ Keeps(e, current, published, status, stored, disowned)
    BY <1>8, <2>1 DEF FlowInv, OwnInv, KeepInv, Busy, Alive
  <2> HIDE DEF st, rest, e, f, line
  <2>3. ~NoFinish(e.lines)
    BY <1>3, <1>4 DEF NoFinish
  <2>4. Reported(e)
    BY <2>2, <2>3 DEF Carries, Sent, Received, Running
  <2>5. NoFinish(f.lines)
    <3>1. e.lines[1] = line
      BY <1>4, TailSet DEF line, e
    <3> QED
      BY <1>3, <1>4, <1>6, <2>4, OneTail DEF Reported, line, e
  <2>6. Clean(f) /\ ~Leaves(e)
    BY <1>6, <2>4, <2>5 DEF Clean, Reported, Leaves, Mail, NoWork
  <2>7. e.edited = 0 /\ e.retained.doc \in {None, current} /\ e.retained.edits \in Nat
    BY <1>1, <2>2, <2>3 DEF Keeps, Idle, Engines, Retained
  <2>8. e.retained.doc # None =>
           \/ e.retained.partial \/ e.retained.doc \in disowned
           \/ stored[e.retained.doc] = e.retained.edits
           \/ st[e.retained.doc] = "absent"
    BY <1>5, <2>2, <2>6, <2>7 DEF Keeps, Kept
  <2> QED
    BY <1>1, <1>6, <2>6, <2>7, <2>8 DEF Ready
<1> HIDE DEF st, rest, e, f, line
<1>9. sidecar.child # None /\ rest[sidecar.child].life = "alive" =>
         Ready(rest[sidecar.child], queue, pending, published', st, stored', disowned')
  BY <1>4, <1>6, <1>8 DEF f
<1> QED
  BY <1>1, <1>2, <1>5, <1>7, <1>9, PumpKept

\* Another line sets or clears the mark of a paper whose state is not retained.
LEMMA OtherLineKept ==
    ASSUME BaseInv, FlowInv, KeepInv, NEW c \in Children, engine[c].lines # <<>>,
           current # None => /\ Head(engine[c].lines).n = request
                             /\ Head(engine[c].lines).type # "run_finished",
           published' = IF current = None THEN published ELSE Marked(Head(engine[c].lines).type),
           UNCHANGED <<app, disowned, stored>>,
           engine' = [engine EXCEPT ![c].lines = Tail(@)],
           UNCHANGED <<status, current, sidecar>>
    PROVE  KeepInv'
<1> DEFINE k == sidecar.child
           line == Head(engine[c].lines)
           e == engine[k]
           f == engine'[k]
<1> SUFFICES ASSUME Busy, k # None, f.life = "alive"
             PROVE  Keeps(f, current, published', status, stored, disowned)
  BY DEF KeepInv, Busy, Alive
<1>1. /\ TypeOK /\ k \in Children /\ e \in Engines /\ published \subseteq Docs
      /\ current \in Docs \cup {None} /\ None \notin Docs
      /\ engine[c].lines \in Seq(Lines)
  BY ConstantsAssumption, EngineFields DEF BaseInv, TypeInv, TypeOK, Sidecars, ConstantsAssumption
<1>2. /\ f.life = e.life /\ f.pipe = e.pipe /\ f.channel = e.channel /\ f.run = e.run
      /\ f.retained = e.retained /\ f.edited = e.edited
      /\ f.lines = IF k = c THEN Tail(e.lines) ELSE e.lines
  <2>1. LineTaken(engine', c)
    BY DEF LineTaken
  <2>2. OnlyLines(engine', c)
    BY <1>1, <2>1, TakenLine
  <2> QED
    BY <1>1, <2>2 DEF OnlyLines
<1>3. /\ Keeps(e, current, published, status, stored, disowned)
      /\ IF current = None THEN Clean(e) ELSE Carries(e, current, request)
  BY <1>2 DEF FlowInv, OwnInv, KeepInv, Alive
<1>4. /\ line \in ToSet(engine[c].lines)
      /\ ToSet(engine[c].lines) = {line} \cup ToSet(Tail(engine[c].lines))
  BY <1>1, TailSet
<1>5. current # None => k = c /\ line.n = request /\ line.type # "run_finished"
  BY LineOfChild
<1>6. published' = IF current = None THEN published ELSE Marked(line.type)
  OBVIOUS
<1>7. f.lines # e.lines => k = c
  BY <1>2
<1>8. NoFinish(e.lines) => NoFinish(f.lines)
  <2>1. ToSet(f.lines) \subseteq ToSet(e.lines)
    BY <1>2, <1>4
  <2> QED
    BY <2>1 DEF NoFinish
<1>9. current # None /\ NoFinish(f.lines) => NoFinish(e.lines)
  BY <1>2, <1>4, <1>5 DEF NoFinish
<1>10. current # None => line \in ToSet(e.lines)
  BY <1>4, <1>5
<1>11. Leaves(e) => Leaves(f)
  BY <1>2 DEF Leaves, Mail
<1>12. None \notin published'
  BY <1>1, <1>6 DEF Marked
<1> HIDE DEF e, f, k, line
<1>13. current # None /\ NoFinish(e.lines) => e.retained.doc = None
  <2> SUFFICES ASSUME current # None, NoFinish(e.lines) PROVE e.retained.doc = None
    OBVIOUS
  <2>1. ~Without(e.lines, request)
    BY <1>5, <1>10 DEF Without
  <2>2. ~Reported(e)
    <3>1. e.lines \in Seq(Lines)
      BY <1>1, EngineFields
    <3> QED
      BY <3>1, IndexSet DEF Reported, OneFinish, NoFinish
  <2>3. e.run # NoRun
    BY <1>3, <2>1, <2>2 DEF Carries, Sent, Received, Running
  <2>4. NotRetained.doc = None
    BY DEF NotRetained
  <2> QED
    BY <1>3, <2>3, <2>4 DEF Keeps, Idle
<1>14. Idle(f, current, published')
  <2>1. CASE current = None
    <3>1. NoFinish(e.lines) /\ NoFinish(f.lines)
      BY <1>3, <1>8, <2>1 DEF Clean
    <3> QED
      BY <1>2, <1>3, <1>6, <2>1, <3>1 DEF Keeps, Idle
  <2>2. CASE current # None
    BY <1>2, <1>3, <1>8, <1>9, <1>12, <1>13, <2>2 DEF Keeps, Idle
  <2> QED
    BY <2>1, <2>2
<1>15. Kept(f, status, stored, disowned) /\ RunKept(f, stored, disowned)
  BY <1>2, <1>3, <1>11 DEF Keeps, Kept, RunKept
<1> QED
  BY <1>14, <1>15 DEF Keeps

LEMMA DeliverKept ==
    ASSUME BaseInv, FlowInv, KeepInv, NEW c \in Children, Deliver(c), ~strayed' PROVE KeepInv'
<1> DEFINE line == Head(engine[c].lines)
           rest == [engine EXCEPT ![c].lines = Tail(@)]
<1>1. BaseInv'
  BY DeliverBase
<1>2. /\ engine[c].lines # <<>> /\ (current # None => line.n = request)
      /\ UNCHANGED <<app, disowned, stored>>
  BY DEF Deliver, results
<1>3. \/ /\ line.type = "run_finished" /\ current # None
         /\ published' = published \ {current}
         /\ Pump(Booked(current, line.ok), queue, None, pending, rest)
      \/ /\ line.type # "run_finished" \/ current = None
         /\ published' = IF current = None THEN published ELSE Marked(line.type)
         /\ engine' = rest
         /\ UNCHANGED <<status, queue, current, pending, configured, sidecar, request, asked>>
  BY DEF Deliver
<1>4. CASE line.type = "run_finished" /\ current # None
           /\ published' = published \ {current}
           /\ Pump(Booked(current, line.ok), queue, None, pending, rest)
  BY <1>1, <1>2, <1>4, FinishedKept
<1>5. CASE /\ line.type # "run_finished" \/ current = None
           /\ published' = IF current = None THEN published ELSE Marked(line.type)
           /\ engine' = rest
           /\ UNCHANGED <<status, queue, current, pending, configured, sidecar, request, asked>>
  <2>1. current # None => line.n = request /\ line.type # "run_finished"
    BY <1>2, <1>5
  <2> QED
    BY <1>2, <1>5, <2>1, OtherLineKept
<1> QED
  BY <1>3, <1>4, <1>5

LEMMA RespawnKept ==
    ASSUME BaseInv, FlowInv, KeepInv, Respawn PROVE KeepInv'
<1>1. current = None /\ UNCHANGED <<app, status, published, current, stored, disowned>>
  BY RespawnCases
<1>2. CASE engine' = engine /\ sidecar'.child = sidecar.child
  <2>1. Busy' => Busy
    BY <1>1 DEF Busy
  <2>2. sidecar.child # None => SameWork(engine[sidecar.child], engine'[sidecar.child])
    BY <1>2 DEF SameWork
  <2> QED
    BY <1>1, <1>2, <2>1, <2>2, CallKept
<1>3. ASSUME NEW c \in Children, NEW b \in BOOLEAN, sidecar'.child = c, engine'[c] = Spawned(b)
      PROVE  KeepInv'
  <2> DEFINE f == Spawned(b)
  <2>1. f.retained = NotRetained /\ f.edited = 0 /\ f.run = NoRun
    BY DEF Spawned, NoEngine
  <2> HIDE DEF f
  <2>2. None \notin published
    BY ConstantsAssumption DEF BaseInv, TypeInv, TypeOK, ConstantsAssumption
  <2>3. Keeps(f, current, published, status, stored, disowned)
    BY <2>1, <2>2, FreshKeeps
  <2> QED
    BY <1>1, <1>3, <2>3 DEF KeepInv, f
<1> QED
  BY <1>2, <1>3, RespawnCases

LEMMA QuitKept == ASSUME BaseInv, FlowInv, KeepInv, Quit PROVE KeepInv'
<1>1. /\ app = "up" /\ UNCHANGED <<status, published, current, stored, disowned>>
      /\ sidecar'.child = sidecar.child
  BY QuitCases
<1>2. Busy' => Busy
  BY <1>1 DEF Busy
<1>3. sidecar.child # None => SameWork(engine[sidecar.child], engine'[sidecar.child])
  <2> SUFFICES ASSUME sidecar.child # None
               PROVE  SameWork(engine[sidecar.child], engine'[sidecar.child])
    OBVIOUS
  <2> DEFINE e == engine[sidecar.child]
             f == engine'[sidecar.child]
  <2>1. sidecar.child \in Children
    BY DEF BaseInv, TypeInv, TypeOK, Sidecars
  <2>2. /\ f.life = e.life /\ f.pipe = e.pipe /\ f.channel = e.channel /\ f.run = e.run
        /\ f.lines = e.lines /\ f.retained = e.retained /\ f.edited = e.edited
    BY <2>1, QuitCases
  <2> HIDE DEF e, f
  <2>3. SameWork(e, f)
    BY <2>2 DEF SameWork, Leaves, Mail
  <2> QED
    BY <2>3 DEF e, f
<1> QED
  BY <1>1, <1>2, <1>3, CallKept

\* After these steps there is no child, or a new one.
LEMMA ChildlessKept ==
    ASSUME BaseInv, (\E c \in Children : Exit(c)) \/ AppExit \/ Start PROVE KeepInv'
<1>1. ASSUME NEW c \in Children, Exit(c) PROVE KeepInv'
  BY <1>1, ExitCases DEF KeepInv
<1>2. CASE AppExit
  BY <1>2 DEF AppExit, KeepInv, NoSidecar
<1>3. CASE Start
  <2>1. TypeOK /\ TypeOK' /\ TypeInv
    BY <1>3, StartBase DEF BaseInv, TypeInv
  <2>2. PICK st \in [Docs -> Statuses], q \in Seq(Docs) :
           Waits(st, q) /\ Pump(st, q, None, pending, engine)
    BY <1>3, <2>1, StartCases
  <2>3. /\ sidecar.child = None
        /\ pending \in [Docs -> Nat] /\ engine \in [Children -> Engines]
    BY <1>3, <2>1 DEF Start, BaseInv, LifeInv, NoSidecar, TypeOK
  <2> QED
    BY <2>1, <2>2, <2>3, PumpKept
<1> QED
  BY <1>1, <1>2, <1>3

\* Edits wait only for papers that have a row.
LEMMA PumpPend ==
    ASSUME TypeOK,
           NEW st \in [Docs -> Statuses], NEW q \in Seq(Docs), Waits(st, q),
           NEW cur \in Docs \cup {None},
           NEW pend \in [Docs -> Nat], NEW eng \in [Children -> Engines],
           Pump(st, q, cur, pend, eng),
           \A d \in Docs : st[d] = "absent" => pend[d] = 0
    PROVE  PendInv'
<1>1. CASE PumpStays(st, q, cur, pend, eng)
  BY <1>1 DEF PumpStays, PendInv
<1>2. CASE PumpFails(st, q, cur, pend, eng)
  <2>1. \A d \in Docs : status'[d] \in {"failed", st[d]}
    BY <1>2, FailAllType DEF PumpFails
  <2> QED
    BY <1>2, <2>1 DEF PumpFails, PendInv
<1>3. ASSUME NEW c \in Children, NEW base \in Engines, NEW known \in BOOLEAN,
             PumpSends(st, q, cur, pend, eng, c, base, known)
      PROVE  PendInv'
  BY <1>3 DEF PumpSends, PendInv
<1> QED
  BY <1>1, <1>2, <1>3, PumpCases

LEMMA PendNext == ASSUME BaseInv, PendInv, Next PROVE PendInv'
<1>1. /\ TypeInv /\ TypeOK /\ status \in [Docs -> Statuses] /\ queue \in Seq(Docs)
      /\ Waits(status, queue) /\ pending \in [Docs -> Nat] /\ current \in Docs \cup {None}
      /\ engine \in [Children -> Engines] /\ None \notin Docs /\ None \in Docs \cup {None}
  BY ConstantsAssumption DEF BaseInv, TypeInv, TypeOK, ConstantsAssumption
<1>2. ASSUME NEW d \in Docs, AddPaper(d) \/ Enqueue(d) PROVE PendInv'
  <2>1. CASE current = d /\ status' = [status EXCEPT ![d] = "new"] /\ pending' = pending
    BY <1>1, <2>1 DEF PendInv
  <2>2. CASE ~Queued(d) /\ Pump([status EXCEPT ![d] = "queued"], Append(queue, d), current, pending, engine)
    <3> DEFINE st == [status EXCEPT ![d] = "queued"]
               q == Append(queue, d)
    <3>1. st \in [Docs -> Statuses] /\ q \in Seq(Docs) /\ Waits(st, q)
      BY <1>1, <2>2, QueuedWaits DEF Statuses
    <3>2. \A b \in Docs : st[b] = "absent" => pending[b] = 0
      BY <1>1 DEF PendInv
    <3>3. Pump(st, q, current, pending, engine)
      BY <2>2
    <3> HIDE DEF st, q
    <3> QED
      BY <1>1, <3>1, <3>2, <3>3, PumpPend
  <2>3. status[d] = "absent" => ~Queued(d)
    BY <1>1, AbsentWaits
  <2> QED
    BY <1>2, <2>1, <2>2, <2>3 DEF AddPaper, Enqueue
<1>3. ASSUME NEW d \in Docs, Edit(d) PROVE PendInv'
  <2> DEFINE edits == [pending EXCEPT ![d] = @ + 1]
  <2>1. /\ status[d] # "absent" /\ edits \in [Docs -> Nat]
        /\ \A b \in Docs : status[b] = "absent" => edits[b] = 0
    BY <1>1, <1>3 DEF Edit, PendInv
  <2>2. CASE pending' = edits /\ status' = status
    BY <2>1, <2>2 DEF PendInv
  <2>3. ASSUME NEW st \in {status, [status EXCEPT ![d] = "queued"]}, ~Queued(d),
               Pump(st, Append(queue, d), current, edits, engine)
        PROVE  PendInv'
    <3> DEFINE q == Append(queue, d)
    <3> HIDE DEF edits
    <3>1. /\ st \in [Docs -> Statuses] /\ q \in Seq(Docs)
          /\ \A b \in Docs : st[b] = "absent" => edits[b] = 0
      BY <1>1, <2>1, AppendSet DEF Statuses
    <3>2. Waits(st, q)
      <4>1. Waits(status, Append(queue, d))
        BY <1>1, <2>1, <2>3, AppendWaits DEF Queued
      <4>2. Waits([status EXCEPT ![d] = "queued"], Append(queue, d))
        BY <1>1, <2>3, QueuedWaits DEF Statuses
      <4> QED
        BY <4>1, <4>2
    <3>3. Pump(st, q, current, edits, engine)
      BY <2>3
    <3> HIDE DEF q
    <3> QED
      BY <1>1, <2>1, <3>1, <3>2, <3>3, PumpPend
  <2> QED
    BY <1>3, <2>2, <2>3 DEF Edit
<1>4. ASSUME NEW d \in Docs, Cancel(d) \/ RemovePaper(d) PROVE PendInv'
  <2>1. /\ \E x \in {"cancelled", "absent"} : status' = [status EXCEPT ![d] = x]
        /\ status[d] # "absent"
        /\ pending' = [pending EXCEPT ![d] = 0] \/ (pending' = pending /\ status'[d] # "absent")
    BY <1>1, <1>4 DEF Cancel, RemovePaper, CancelTo
  <2> QED
    BY <1>1, <2>1 DEF PendInv
<1>5. ASSUME NEW c \in Children, Deliver(c) PROVE PendInv'
  <2> DEFINE line == Head(engine[c].lines)
             rest == [engine EXCEPT ![c].lines = Tail(@)]
  <2>1. engine[c].lines # <<>>
    BY <1>5 DEF Deliver
  <2>2. line \in Lines /\ rest \in [Children -> Engines]
    BY <1>1, <2>1, RestType
  <2>3. CASE current # None /\ Pump(Booked(current, line.ok), queue, None, pending, rest)
    <3> DEFINE st == Booked(current, line.ok)
    <3>1. current \in Docs /\ line.ok \in BOOLEAN
      BY <1>1, <2>2, <2>3 DEF Lines
    <3>2. /\ st \in [Docs -> Statuses] /\ Waits(st, queue)
          /\ \A b \in Docs : b # current => st[b] = status[b]
          /\ st[current] = IF status[current] = "absent" THEN "absent" ELSE Verdict(current, line.ok)
      BY <1>1, <3>1, BookedType
    <3>3. Verdict(current, line.ok) # "absent"
      BY DEF Verdict
    <3>4. Pump(st, queue, None, pending, rest)
      BY <2>3
    <3> HIDE DEF st, rest
    <3>5. \A b \in Docs : st[b] = "absent" => pending[b] = 0
      BY <3>2, <3>3 DEF PendInv
    <3> QED
      BY <1>1, <2>2, <3>2, <3>4, <3>5, PumpPend
  <2>4. CASE UNCHANGED <<status, pending>>
    BY <2>4 DEF PendInv
  <2> QED
    BY <1>5, <2>3, <2>4 DEF Deliver
<1>6. ASSUME NEW c \in Children, Exit(c) PROVE PendInv'
  <2>1. pending' = pending
    BY <1>6 DEF Exit
  <2>2. \A d \in Docs : status'[d] = "absent" => status[d] = "absent"
    <3>1. CASE status' = status
      BY <3>1
    <3>2. CASE CrashEvent
      <4> DEFINE st == [d \in Docs |-> IF d = current /\ status[d] # "absent"
                                       THEN "failed" ELSE status[d]]
      <4>1. st \in [Docs -> Statuses] /\ \A d \in Docs : st[d] = "absent" => status[d] = "absent"
        BY <1>1 DEF Statuses
      <4>2. status' = FailAll(st, queue) \/ status' = status
        BY <3>2 DEF CrashEvent
      <4> HIDE DEF st
      <4>3. status' = FailAll(st, queue) => \A d \in Docs : status'[d] \in {"failed", st[d]}
        BY <1>1, <4>1, FailAllType
      <4> QED
        BY <4>1, <4>2, <4>3
    <3> QED
      BY <1>6, <3>1, <3>2, ExitCases
  <2> QED
    BY <2>1, <2>2 DEF PendInv
<1>7. CASE Respawn \/ Quit \/ AppExit
  <2>1. CASE UNCHANGED <<status, pending>>
    BY <2>1 DEF PendInv
  <2>2. CASE AppExit
    BY <2>2 DEF AppExit, PendInv
  <2> QED
    BY <1>7, <2>1, <2>2, RespawnCases, QuitCases
<1>8. CASE Start
  <2>1. PICK st \in [Docs -> Statuses], q \in Seq(Docs) :
           /\ Waits(st, q) /\ Pump(st, q, None, pending, engine)
           /\ \A d \in Docs : st[d] \in {"queued", status[d]}
    BY <1>1, <1>8, StartCases
  <2>2. \A d \in Docs : st[d] = "absent" => pending[d] = 0
    BY <2>1 DEF PendInv
  <2> QED
    BY <1>1, <2>1, <2>2, PumpPend
<1>9. ASSUME NEW c \in Children, Reader(c) \/ MainLoop(c) \/ Publish(c) \/ EngineEnd(c)
      PROVE  PendInv'
  <2>1. UNCHANGED <<status, pending>>
    BY <1>9, EngineSteps DEF BaseInv, Only, EngineOnly, main
  <2> QED
    BY <2>1 DEF PendInv
<1> QED
  BY <1>2, <1>3, <1>4, <1>5, <1>6, <1>7, <1>8, <1>9 DEF Next

-----------------------------------------------------------------------------
(* The inductive invariant, and what it says *)

\* Until a line is booked to another run than its own, the run of the current paper is
\* where it should be, what the child retains is what the store holds, and what is shown
\* of a paper is what was written for it.
Inv == BaseInv /\ PendInv /\ (~strayed => FlowInv /\ KeepInv /\ ShownInv)

LEMMA InvInit == Init => Inv
<1> SUFFICES ASSUME Init PROVE Inv
  OBVIOUS
<1>1. /\ current = None /\ sidecar = NoSidecar /\ pending = [d \in Docs |-> 0]
      /\ engine = [c \in Children |-> NoEngine] /\ status = [d \in Docs |-> "absent"]
  BY DEF Init
<1>2. NoSidecar.child = None /\ NoEngine.life = "none"
  BY DEF NoSidecar, NoEngine
<1>3. FlowInv /\ ShownInv
  BY <1>1, <1>2 DEF FlowInv, OwnInv, SideInv, AimInv, HoldInv, ShownInv, LineInv, StaleInv, DoneInv, Alive
<1>4. PendInv /\ KeepInv
  BY <1>1, <1>2 DEF PendInv, KeepInv
<1> QED
  BY <1>3, <1>4, BaseInit DEF Inv

LEMMA FlowNext ==
    ASSUME BaseInv, PendInv, FlowInv, KeepInv, ShownInv, Next, ~strayed'
    PROVE  FlowInv' /\ KeepInv' /\ ShownInv'
<1>1. ASSUME NEW d \in Docs, AddPaper(d) \/ Enqueue(d) \/ Edit(d) \/ Cancel(d) \/ RemovePaper(d)
      PROVE  FlowInv' /\ KeepInv' /\ ShownInv'
  <2>1. FlowInv' /\ ShownInv'
    BY <1>1, AddPaperFlow, EnqueueFlow, EditFlow, CancelFlow, RemovePaperFlow
  <2>2. KeepInv'
    BY <1>1, AddPaperKept, EnqueueKept, EditKept, CancelKept, RemovePaperKept
  <2> QED
    BY <2>1, <2>2
<1>2. ASSUME NEW c \in Children, Deliver(c) \/ Exit(c) PROVE FlowInv' /\ KeepInv' /\ ShownInv'
  BY <1>2, DeliverFlow, ExitFlow, DeliverKept, ChildlessKept
<1>3. CASE Respawn \/ Quit \/ AppExit \/ Start
  BY <1>3, RespawnFlow, QuitFlow, AppExitFlow, StartFlow, RespawnKept, QuitKept, ChildlessKept
<1>4. ASSUME NEW c \in Children, Reader(c) \/ MainLoop(c) \/ Publish(c) \/ EngineEnd(c)
      PROVE  FlowInv' /\ KeepInv' /\ ShownInv'
  BY <1>4, EngineFlow, EngineKept, EngineShown
<1> QED
  BY <1>1, <1>2, <1>3, <1>4 DEF Next

\* Once a line went astray, that stays known.
LEMMA StrayedStays == ASSUME Next, strayed PROVE strayed'
<1>1. ASSUME NEW d \in Docs, AddPaper(d) \/ Enqueue(d) \/ Edit(d) \/ Cancel(d) \/ RemovePaper(d)
      PROVE  strayed'
  BY <1>1 DEF AddPaper, Enqueue, Edit, Cancel, RemovePaper
<1>2. ASSUME NEW c \in Children, Deliver(c) \/ Exit(c) PROVE strayed'
  BY <1>2 DEF Deliver, Exit
<1>3. CASE Respawn \/ Quit \/ AppExit \/ Start
  BY <1>3 DEF Respawn, Quit, AppExit, Start
<1>4. ASSUME NEW c \in Children, Reader(c) \/ MainLoop(c) \/ Publish(c) \/ EngineEnd(c)
      PROVE  strayed'
  BY <1>4 DEF Reader, MainLoop, ReadCancel, Read, ReadEof, TakeConfigure, TakeEdit, TakeRun,
              TakePages, FallBack, Fail, Finish, Publish, EngineEnd, EngineOnly
<1> QED
  BY <1>1, <1>2, <1>3, <1>4 DEF Next

\* A stuttering step.
LEMMA StillKept == ASSUME UNCHANGED vars PROVE (FlowInv' <=> FlowInv) /\ (KeepInv' <=> KeepInv)
                                               /\ (ShownInv' <=> ShownInv) /\ (PendInv' <=> PendInv)
<1>1. UNCHANGED <<app, status, published, queue, current, pending, sidecar, engine, request,
                  asked, stored, output, unstarted, strayed, disowned>>
  BY DEF vars, main, results
<1>2. FlowInv' <=> FlowInv
  BY <1>1 DEF FlowInv, OwnInv, SideInv, AimInv, HoldInv, Alive, Orphan, NotDone
<1>3. KeepInv' <=> KeepInv
  BY <1>1 DEF KeepInv, Busy, Alive
<1>4. ShownInv' <=> ShownInv
  BY <1>1 DEF ShownInv, LineInv, StaleInv, DoneInv, Shown
<1>5. PendInv' <=> PendInv
  BY <1>1 DEF PendInv
<1> QED
  BY <1>2, <1>3, <1>4, <1>5

LEMMA InvNext == Inv /\ [Next]_vars => Inv'
<1> SUFFICES ASSUME Inv, [Next]_vars PROVE Inv'
  OBVIOUS
<1>1. BaseInv'
  BY BaseNext DEF Inv
<1>2. CASE Next
  <2>1. ~strayed' => ~strayed
    BY <1>2, StrayedStays
  <2>2. PendInv'
    BY <1>2, PendNext DEF Inv
  <2> QED
    BY <1>1, <1>2, <2>1, <2>2, FlowNext DEF Inv
<1>3. CASE UNCHANGED vars
  <2>1. strayed' = strayed
    BY <1>3 DEF vars
  <2> QED
    BY <1>1, <1>3, <2>1, StillKept DEF Inv
<1> QED
  BY <1>2, <1>3

\* The invariant of the queue, its sidecar and the engines holds in every behaviour.
THEOREM InvHolds == Spec => []Inv
  BY InvInit, InvNext, PTL DEF Spec

-----------------------------------------------------------------------------
(* Lines before anything has ended *)

\* All lines are of run n, its run_finished is the last, and it has none before it begins.
Lined(e, n) ==
    /\ \A i \in 1..Len(e.lines) : /\ e.lines[i].n = n
                                  /\ e.lines[i].type = "run_finished" => i = Len(e.lines)
    /\ e.run = NoRun /\ NoFinish(e.lines) => e.lines = <<>>

Serves(e) == e.life \in {"none", "alive"} /\ (e.life = "alive" => e.open /\ ~e.eof)

\* Only the child has lines, and only while a paper is current.
CalmEngines(eng, child, cur, n) ==
    \A c \in Children : /\ Serves(eng[c]) /\ Lined(eng[c], n)
                        /\ c # child \/ cur = None => eng[c].lines = <<>>

Calm == app = "up" /\ crashes = 0 /\ exits = 0

CalmInv ==
    /\ app = "down" => exits # 0
    /\ Calm => /\ ~strayed /\ ~sidecar.timer
               /\ CalmEngines(engine, sidecar.child, current, request)

LEMMA LinesAdded ==
    ASSUME NEW e \in Engines, NEW f \in Engines, NEW type, NEW n \in Nat, NEW ok,
           Lined(e, n), NoFinish(e.lines), Adds(e, f, type, n, ok),
           type # "run_finished" => f.run # NoRun
    PROVE  Lined(f, n)
<1> DEFINE s == e.lines
           t == f.lines
           l == Line(type, n, ok)
<1>1. s \in Seq(Lines)
  BY EngineFields
<1>2. /\ Len(s) \in Nat /\ Len(t) = Len(s) + 1 /\ t[Len(s) + 1] = l
      /\ \A i \in 1..Len(s) : t[i] = s[i]
      /\ l.type = type /\ l.n = n /\ l \in ToSet(t)
  BY <1>1, AppendSet DEF Adds
<1>3. \A i \in 1..Len(s) : s[i].type # "run_finished" /\ s[i].n = n
  BY <1>1, IndexSet DEF NoFinish, Lined
<1>4. f.run = NoRun => ~NoFinish(t)
  BY <1>2 DEF NoFinish
<1> HIDE DEF s, t, l
<1>5. \A i \in 1..Len(t) : t[i].n = n /\ (t[i].type = "run_finished" => i = Len(t))
  BY <1>2, <1>3
<1> QED
  BY <1>4, <1>5 DEF Lined, t

LEMMA MoveLined ==
    ASSUME NEW e \in Engines, NEW f \in Engines, Moves(e, f), NEW d \in Docs, NEW n \in Nat,
           Carries(e, d, n), Lined(e, n)
    PROVE  Lined(f, n)
<1>1. ASSUME f.lines = e.lines, f.run = e.run PROVE Lined(f, n)
  BY <1>1 DEF Lined
<1>2. CASE \/ CancelRead(e, f) \/ RequestRead(e, f) \/ EofRead(e, f)
           \/ ConfigureTaken(e, f) \/ EditTaken(e, f)
  <2>1. f.lines = e.lines /\ f.run = e.run
    BY <1>2, EditTakenFields DEF CancelRead, RequestRead, EofRead, ConfigureTaken, Engines
  <2> QED
    BY <1>1, <2>1
<1>3. CASE RunTaken(e, f) \/ RunMissed(e, f)
  <2>1. e.run = NoRun /\ e.channel # <<>> /\ e.channel \in Seq(Messages)
        /\ Head(e.channel).type = "run" /\ Head(e.channel) \in ToSet(e.channel)
    BY <1>3, TailSet, EngineFields DEF RunTaken, RunMissed, RunNext
  <2>2. Received(e, d, n)
    BY <2>1, CarriesRun DEF Sent, OnlyEdits
  <2>3. Head(e.channel).n = n /\ NoFinish(e.lines)
    BY <2>1, <2>2, LastHead DEF Received
  <2>4. \/ f.run # NoRun /\ Adds(e, f, "run_started", n, FALSE)
        \/ Adds(e, f, "run_finished", n, FALSE)
    BY <1>3, <2>3, RunTakenFields, RunMissedFields
  <2>5. CASE f.run # NoRun /\ Adds(e, f, "run_started", n, FALSE)
    BY <2>3, <2>5, LinesAdded
  <2>6. CASE Adds(e, f, "run_finished", n, FALSE)
    BY <2>3, <2>6, LinesAdded
  <2> QED
    BY <2>4, <2>5, <2>6
<1>6. CASE PagesTaken(e, f)
  <2>1. f.lines = e.lines /\ f.run # NoRun
    BY <1>6, PagesTakenFields
  <2> QED
    BY ONLY Lined(e, n), <2>1 DEF Lined
<1>7. CASE FellBack(e, f)
  <2>1. e.run # NoRun /\ f.run # NoRun /\ Adds(e, f, "run_started", e.run.n, FALSE)
    BY <1>7, FellBackFields
  <2>2. Running(e, d, n)
    BY <2>1, CarriesRun
  <2>3. e.run.n = n /\ NoFinish(e.lines)
    BY <2>2 DEF Running
  <2> QED
    BY <2>1, <2>3, LinesAdded
<1>4. CASE RunPublished(e, f)
  <2>1. e.run # NoRun /\ f.run # NoRun /\ Adds(e, f, "document_finished", e.run.n, FALSE)
    BY <1>4, RunPublishedFields
  <2>2. Running(e, d, n)
    BY <2>1, CarriesRun
  <2>3. e.run.n = n /\ NoFinish(e.lines)
    BY <2>2 DEF Running
  <2> QED
    BY <2>1, <2>3, LinesAdded
<1>5. CASE RunFinished(e, f)
  <2>1. e.run # NoRun /\ \E ok \in BOOLEAN : Adds(e, f, "run_finished", e.run.n, ok)
    BY <1>5, RunFinishedFields
  <2>2. Running(e, d, n)
    BY <2>1, CarriesRun
  <2>3. e.run.n = n /\ NoFinish(e.lines)
    BY <2>2 DEF Running
  <2> QED
    BY <2>1, <2>3, LinesAdded
<1> QED
  BY <1>2, <1>3, <1>4, <1>5, <1>6, <1>7 DEF Moves

\* The lines of an engine without its first.
LEMMA TailLined ==
    ASSUME NEW e \in Engines, e.lines # <<>>, NEW f, f.lines = Tail(e.lines), f.run = e.run,
           NEW n, Lined(e, n)
    PROVE  /\ Head(e.lines).n = n
           /\ Head(e.lines).type = "run_finished" => f.lines = <<>>
           /\ Lined(f, n)
<1> DEFINE s == e.lines
           t == f.lines
<1>1. s \in Seq(Lines)
  BY EngineFields
<1>2. /\ Head(s) = s[1] /\ Len(s) \in Nat \ {0} /\ t \in Seq(Lines) /\ Len(t) = Len(s) - 1
      /\ \A i \in 1..(Len(s) - 1) : t[i] = s[i + 1]
  BY <1>1, TailSet
<1>3. \A i \in 1..Len(s) : s[i].n = n /\ (s[i].type = "run_finished" => i = Len(s))
  BY DEF Lined
<1>4. e.run = NoRun => \E i \in 1..Len(s) : s[i].type = "run_finished"
  BY <1>1, IndexSet DEF Lined, NoFinish
<1>5. \A i \in 1..Len(t) : t[i] \in ToSet(t)
  BY <1>2, IndexSet
<1> HIDE DEF s, t
<1>6. s[1].type = "run_finished" => t = <<>>
  <2>1. s[1].type = "run_finished" => Len(t) = 0
    BY <1>2, <1>3
  <2> QED
    BY <1>2, <2>1, EmptySeq
<1>7. \A i \in 1..Len(t) : t[i].n = n /\ (t[i].type = "run_finished" => i = Len(t))
  <2> SUFFICES ASSUME NEW i \in 1..Len(t)
               PROVE  t[i].n = n /\ (t[i].type = "run_finished" => i = Len(t))
    OBVIOUS
  <2>1. i + 1 \in 1..Len(s) /\ t[i] = s[i + 1] /\ (i + 1 = Len(s) => i = Len(t))
    BY <1>2
  <2> QED
    BY <1>3, <2>1
<1>8. e.run = NoRun /\ t # <<>> => \E i \in 1..Len(t) : t[i].type = "run_finished"
  <2> SUFFICES ASSUME e.run = NoRun, t # <<>> PROVE \E i \in 1..Len(t) : t[i].type = "run_finished"
    OBVIOUS
  <2>1. PICK i \in 1..Len(s) : s[i].type = "run_finished"
    BY <1>4
  <2>2. i # 1
    BY <1>6, <2>1
  <2>3. i - 1 \in 1..Len(t) /\ t[i - 1] = s[i]
    BY <1>2, <2>1, <2>2
  <2> QED
    BY <2>1, <2>3
<1>9. e.run = NoRun /\ NoFinish(t) => t = <<>>
  BY <1>5, <1>8 DEF NoFinish
<1> QED
  BY <1>2, <1>3, <1>6, <1>7, <1>9 DEF Lined, s, t

LEMMA NoLines ==
    ASSUME NEW e, e.lines = <<>>, NEW n PROVE Lined(e, n)
  BY EmptySet DEF Lined

\* pump leaves the lines as they are, and sends to an engine without lines only.
LEMMA PumpCalm ==
    ASSUME TypeOK, ~sidecar.timer,
           NEW st \in [Docs -> Statuses], NEW q \in Seq(Docs), Waits(st, q),
           NEW cur \in Docs \cup {None}, NEW pend \in [Docs -> Nat],
           NEW eng \in [Children -> Engines], Pump(st, q, cur, pend, eng),
           CalmEngines(eng, sidecar.child, cur, request)
    PROVE  ~sidecar'.timer /\ CalmEngines(engine', sidecar'.child, current', request')
<1>1. CASE PumpStays(st, q, cur, pend, eng)
  BY <1>1 DEF PumpStays
<1>2. CASE PumpFails(st, q, cur, pend, eng)
  BY <1>2 DEF PumpFails
<1>3. ASSUME NEW c \in Children, NEW base \in Engines, NEW known \in BOOLEAN,
             PumpSends(st, q, cur, pend, eng, c, base, known)
      PROVE  ~sidecar'.timer /\ CalmEngines(engine', sidecar'.child, current', request')
  <2>1. /\ cur = None /\ Receives(eng, c, base, known) /\ sidecar'.timer = sidecar.timer
        /\ GotRequests(base, engine'[c], Head(q), pend[Head(q)], known)
        /\ \A b \in Children : b # c => engine'[b] = eng[b]
    BY <1>3 DEF PumpSends, GotRequests
  <2>2. \A b \in Children : Serves(eng[b]) /\ eng[b].lines = <<>>
    BY <2>1 DEF CalmEngines
  <2>3. Serves(base) /\ base.lines = <<>>
    <3>1. base = eng[c] \/ \E b \in BOOLEAN : base = Spawned(b)
      BY <2>1 DEF Receives, TypeOK, Sidecars
    <3> QED
      BY <2>2, <3>1, NoEngineType DEF Serves
  <2>4. Serves(engine'[c]) /\ engine'[c].lines = <<>>
    <3>1. /\ engine'[c].life = base.life /\ engine'[c].open = base.open
          /\ engine'[c].eof = base.eof /\ engine'[c].lines = base.lines
      BY <2>1 DEF GotRequests, Engines
    <3> QED
      BY <2>3, <3>1 DEF Serves
  <2>5. \A b \in Children : Serves(engine'[b]) /\ engine'[b].lines = <<>>
    BY <2>1, <2>2, <2>4
  <2>6. \A b \in Children : Lined(engine'[b], request')
    BY <2>5, NoLines
  <2> QED
    BY <2>1, <2>5, <2>6 DEF CalmEngines
<1> QED
  BY <1>1, <1>2, <1>3, PumpCases

\* Calls and events leave the counters and the app alone.
LEMMA CallCalm ==
    ASSUME BaseInv, CalmInv, NEW d \in Docs, Calm,
           AddPaper(d) \/ Enqueue(d) \/ Edit(d)
    PROVE  ~sidecar'.timer /\ CalmEngines(engine', sidecar'.child, current', request')
<1>1. TypeInv /\ TypeOK /\ ~sidecar.timer /\ CalmEngines(engine, sidecar.child, current, request)
  BY DEF BaseInv, TypeInv, CalmInv
<1>2. /\ status \in [Docs -> Statuses] /\ queue \in Seq(Docs) /\ Waits(status, queue)
      /\ engine \in [Children -> Engines] /\ pending \in [Docs -> Nat]
      /\ current \in Docs \cup {None}
  BY <1>1 DEF TypeInv, TypeOK
<1>3. CASE UNCHANGED <<sidecar, engine, current, request>>
  BY <1>1, <1>3
<1>4. ASSUME ~Queued(d), NEW pend \in [Docs -> Nat],
             Pump([status EXCEPT ![d] = "queued"], Append(queue, d), current, pend, engine)
      PROVE  ~sidecar'.timer /\ CalmEngines(engine', sidecar'.child, current', request')
  <2> DEFINE st == [status EXCEPT ![d] = "queued"]
             q == Append(queue, d)
  <2>1. st \in [Docs -> Statuses] /\ q \in Seq(Docs) /\ Waits(st, q)
    BY <1>1, <1>4, QueuedWaits DEF Statuses
  <2>2. Pump(st, q, current, pend, engine)
    BY <1>4
  <2> HIDE DEF st, q
  <2> QED
    BY <1>1, <1>2, <2>1, <2>2, PumpCalm
<1>5. ASSUME ~Queued(d), status[d] # "absent", NEW pend \in [Docs -> Nat],
             Pump(status, Append(queue, d), current, pend, engine)
      PROVE  ~sidecar'.timer /\ CalmEngines(engine', sidecar'.child, current', request')
  <2> DEFINE q == Append(queue, d)
  <2>1. q \in Seq(Docs) /\ Waits(status, q)
    BY <1>2, <1>5, AppendWaits DEF Queued
  <2>2. Pump(status, q, current, pend, engine)
    BY <1>5
  <2> HIDE DEF q
  <2> QED
    BY <1>1, <1>2, <2>1, <2>2, PumpCalm
<1>6. CASE AddPaper(d)
  <2>1. ~Queued(d)
    BY <1>1, <1>6, AbsentWaits DEF AddPaper
  <2>2. \/ UNCHANGED <<sidecar, engine, current, request>>
        \/ Pump([status EXCEPT ![d] = "queued"], Append(queue, d), current, pending, engine)
    BY <1>6 DEF AddPaper
  <2> QED
    BY <1>2, <1>3, <1>4, <2>1, <2>2
<1>7. CASE Enqueue(d)
  <2>1. /\ ~Queued(d)
        /\ Pump([status EXCEPT ![d] = "queued"], Append(queue, d), current, pending, engine)
    BY <1>7 DEF Enqueue
  <2> QED
    BY <1>2, <1>4, <2>1
<1>8. CASE Edit(d)
  <2> DEFINE edits == [pending EXCEPT ![d] = @ + 1]
  <2>1. edits \in [Docs -> Nat]
    BY <1>2
  <2>2. /\ status[d] # "absent"
        /\ \/ UNCHANGED <<sidecar, engine, current, request>>
           \/ ~Queued(d) /\ Pump(status, Append(queue, d), current, edits, engine)
           \/ ~Queued(d) /\ Pump([status EXCEPT ![d] = "queued"], Append(queue, d), current, edits, engine)
    BY <1>8 DEF Edit
  <2> HIDE DEF edits
  <2> QED
    BY <1>3, <1>4, <1>5, <2>1, <2>2
<1> QED
  BY <1>6, <1>7, <1>8

LEMMA CancelCalm ==
    ASSUME BaseInv, CalmInv, NEW d \in Docs, Calm, Cancel(d) \/ RemovePaper(d)
    PROVE  ~sidecar'.timer /\ CalmEngines(engine', sidecar'.child, current', request')
<1>1. ~sidecar.timer /\ CalmEngines(engine, sidecar.child, current, request) /\ app = "up"
  BY DEF CalmInv, Calm
<1>2. UNCHANGED <<sidecar, current, request>>
  BY DEF Cancel, RemovePaper
<1>3. CASE engine' = engine
  BY <1>1, <1>2, <1>3
<1>4. ASSUME NEW st, CancelTo(d, st)
      PROVE  CalmEngines(engine', sidecar'.child, current', request')
  <2>1. CASE engine' = engine
    BY <1>1, <1>2, <2>1
  <2>2. CASE /\ sidecar.child \in Children
             /\ engine[sidecar.child] \in Engines /\ engine'[sidecar.child] \in Engines
             /\ CancelSent(engine[sidecar.child], engine'[sidecar.child])
             /\ \A b \in Children : b # sidecar.child => engine'[b] = engine[b]
    <3> DEFINE e == engine[sidecar.child]
               f == engine'[sidecar.child]
    <3>1. /\ f.life = e.life /\ f.open = e.open /\ f.eof = e.eof
          /\ f.lines = e.lines /\ f.run = e.run
      BY <2>2 DEF CancelSent, Engines
    <3>2. Serves(e) /\ Lined(e, request) /\ (current = None => e.lines = <<>>)
      BY <1>1, <2>2 DEF CalmEngines
    <3> HIDE DEF e, f
    <3>3. Serves(f) /\ Lined(f, request) /\ (current = None => f.lines = <<>>)
      BY <3>1, <3>2 DEF Serves, Lined
    <3> QED
      BY <1>1, <1>2, <2>2, <3>3 DEF CalmEngines, f
  <2> QED
    BY <1>1, <1>4, <2>1, <2>2, CancelToCases
<1> QED
  BY <1>1, <1>2, <1>3, <1>4 DEF Cancel, RemovePaper

LEMMA DeliverCalm ==
    ASSUME BaseInv, CalmInv, NEW c \in Children, Calm, Deliver(c)
    PROVE  /\ ~strayed'
           /\ ~sidecar'.timer /\ CalmEngines(engine', sidecar'.child, current', request')
<1> DEFINE e == engine[c]
           line == Head(e.lines)
           rest == [engine EXCEPT ![c].lines = Tail(@)]
<1>1. /\ TypeInv /\ TypeOK /\ ~strayed /\ ~sidecar.timer
      /\ CalmEngines(engine, sidecar.child, current, request)
  BY DEF BaseInv, TypeInv, CalmInv
<1>2. /\ queue \in Seq(Docs) /\ pending \in [Docs -> Nat] /\ request \in Nat
      /\ current \in Docs \cup {None} /\ e \in Engines /\ e.lines # <<>>
  BY <1>1 DEF TypeOK, Deliver
<1>3. c = sidecar.child /\ current # None
  BY <1>1, <1>2 DEF CalmEngines
<1>4. /\ line \in Lines /\ rest \in [Children -> Engines]
      /\ rest[c] = [e EXCEPT !.lines = Tail(@)]
      /\ \A b \in Children : b # c => rest[b] = engine[b]
  BY <1>1, <1>2, RestType
<1> DEFINE f == rest[c]
<1>5. /\ f.lines = Tail(e.lines) /\ f.run = e.run
      /\ f.life = e.life /\ f.open = e.open /\ f.eof = e.eof
  BY <1>2, <1>4 DEF Engines
<1>6. Serves(e) /\ Lined(e, request)
  BY <1>1 DEF CalmEngines
<1> HIDE DEF e, rest, f
<1>7. line.n = request /\ (line.type = "run_finished" => f.lines = <<>>) /\ Lined(f, request)
  BY <1>2, <1>5, <1>6, TailLined
<1>8. Serves(f)
  BY <1>5, <1>6 DEF Serves
<1>9. ~strayed'
  BY <1>1, <1>7 DEF Deliver, e
<1>10. CalmEngines(rest, sidecar.child, current, request)
  BY <1>1, <1>3, <1>4, <1>7, <1>8 DEF CalmEngines, f
<1>11. CASE /\ line.type = "run_finished"
            /\ Pump(Booked(current, line.ok), queue, None, pending, rest)
  <2>1. line.ok \in BOOLEAN /\ current \in Docs
    BY <1>2, <1>3, <1>4 DEF Lines
  <2>2. Booked(current, line.ok) \in [Docs -> Statuses] /\ Waits(Booked(current, line.ok), queue)
    BY <1>1, <2>1, BookedType
  <2>3. \A b \in Children : rest[b].lines = <<>>
    BY <1>1, <1>3, <1>4, <1>7, <1>11 DEF CalmEngines, f
  <2>4. CalmEngines(rest, sidecar.child, None, request)
    BY <1>10, <2>3 DEF CalmEngines
  <2> HIDE DEF line
  <2>5. ~sidecar'.timer /\ CalmEngines(engine', sidecar'.child, current', request')
    BY <1>1, <1>2, <1>4, <1>11, <2>2, <2>4, PumpCalm
  <2> QED
    BY <1>9, <2>5
<1>12. CASE engine' = rest /\ UNCHANGED <<current, sidecar, request>>
  BY <1>1, <1>9, <1>10, <1>12
<1>13. \/ /\ line.type = "run_finished"
          /\ Pump(Booked(current, line.ok), queue, None, pending, rest)
       \/ engine' = rest /\ UNCHANGED <<current, sidecar, request>>
  BY DEF Deliver, e, rest
<1> QED
  BY <1>11, <1>12, <1>13

\* What a step of an engine does to its stdin.
LEMMA StdinKept ==
    ASSUME TypeOK, NEW c \in Children, Reader(c) \/ MainLoop(c) \/ Publish(c), ~ReadEof(c)
    PROVE  engine'[c].open = engine[c].open /\ engine'[c].eof = engine[c].eof
<1> DEFINE e == engine[c]
           f == engine'[c]
<1>1. e \in Engines /\ (Only(c) => f \in Engines)
  BY DEF TypeOK, Only
<1>2. ASSUME ReadCancel(c) \/ Read(c) \/ TakeConfigure(c) \/ TakeEdit(c)
      PROVE  f.open = e.open /\ f.eof = e.eof
  <2>1. CancelRead(e, f) \/ RequestRead(e, f) \/ ConfigureTaken(e, f) \/ EditTaken(e, f)
    BY <1>2, ReadCancelStep, ReadStep, TakeConfigureStep, TakeEditStep
  <2> HIDE DEF e, f
  <2> QED
    BY <1>1, <2>1 DEF CancelRead, RequestRead, ConfigureTaken, EditTaken, EditSaved, Engines
<1>3. ASSUME TakeRun(c) \/ TakePages(c) PROVE f.open = e.open /\ f.eof = e.eof
  <2>1. RunTaken(e, f) \/ RunRefused(e, f) \/ RunMissed(e, f) \/ PagesTaken(e, f)
    BY <1>3, TakeRunStep, TakePagesStep
  <2>2. Only(c)
    BY <1>3, TakeRunStep, TakePagesStep
  <2> HIDE DEF e, f
  <2> QED
    BY <1>1, <2>1, <2>2 DEF RunTaken, RunRefused, RunMissed, PagesTaken, Taken, Engines
<1>4. ASSUME FallBack(c) \/ Publish(c) \/ Finish(c) \/ Fail(c)
      PROVE  f.open = e.open /\ f.eof = e.eof
  <2>1. FellBack(e, f) \/ RunPublished(e, f) \/ RunFinished(e, f)
    BY <1>4, FallBackStep, PublishStep, FinishStep
  <2> HIDE DEF e, f
  <2> QED
    BY <1>1, <2>1 DEF FellBack, RunPublished, RunFinished, Engines
<1> QED
  BY <1>2, <1>3, <1>4 DEF Reader, MainLoop

LEMMA EngineCalm ==
    ASSUME Inv, CalmInv, NEW c \in Children, Calm,
           Reader(c) \/ MainLoop(c) \/ Publish(c)
    PROVE  CalmEngines(engine', sidecar.child, current, request)
<1> DEFINE e == engine[c]
           f == engine'[c]
<1>1. /\ BaseInv /\ TypeOK /\ FlowInv /\ CalmEngines(engine, sidecar.child, current, request)
  BY DEF Inv, BaseInv, TypeInv, CalmInv
<1>2. /\ e \in Engines /\ f \in Engines /\ e.life = "alive"
      /\ \A b \in Children : b # c => engine'[b] = engine[b]
      /\ request \in Nat /\ current \in Docs \cup {None}
  BY <1>1, EngineSteps DEF Only, Alive, TypeOK
<1>3. Serves(e) /\ Lined(e, request) /\ (c # sidecar.child \/ current = None => e.lines = <<>>)
  BY <1>1 DEF CalmEngines
<1>4. ~ReadEof(c)
  BY <1>2, <1>3 DEF ReadEof, Serves
<1>5. f.open = e.open /\ f.eof = e.eof
  BY <1>1, <1>4, StdinKept
<1>6. Moves(e, f)
  <2>1. Moves(e, f) \/ Ended(e, f)
    BY <1>1, EngineSteps
  <2>2. Ended(e, f) => f.open = FALSE
    BY DEF Ended, NoEngine
  <2>3. e.open = TRUE
    BY <1>2, <1>3 DEF Serves
  <2> QED
    BY <1>5, <2>1, <2>2, <2>3
<1>7. f.life = e.life
  <2>1. First(e) /\ Bounded(e, request)
    BY <1>1, <1>2 DEF BaseInv, ConfInv, NumInv, Alive
  <2> HIDE DEF e, f
  <2> QED
    BY <1>2, <1>6, <2>1, MoveBase
<1>8. \/ Clean(e)
      \/ c = sidecar.child /\ current # None /\ Carries(e, current, request)
  <2>1. app = "up"
    BY DEF Calm
  <2>2. ASSUME current = None PROVE Clean(e)
    <3>1. CASE c = sidecar.child
      <4>1. sidecar.child # None
        BY <3>1, ConstantsAssumption DEF ConstantsAssumption
      <4> QED
        BY <1>1, <1>2, <2>2, <3>1, <4>1 DEF FlowInv, OwnInv, Alive
    <3>2. CASE c # sidecar.child
      BY <1>1, <1>2, <2>1, <3>2 DEF FlowInv, SideInv, Alive
    <3> QED
      BY <3>1, <3>2
  <2>3. current # None => \/ Clean(e)
                          \/ c = sidecar.child /\ Carries(e, current, request)
    BY <1>1, <1>2, WorkOf
  <2> QED
    BY <2>2, <2>3
<1> HIDE DEF e, f
<1>9. Serves(f)
  BY <1>3, <1>5, <1>7 DEF Serves
<1>10. Lined(f, request) /\ (c # sidecar.child \/ current = None => f.lines = <<>>)
  <2>1. CASE Clean(e)
    <3>1. f.lines = e.lines /\ Clean(f)
      BY <1>2, <1>6, <2>1, MoveClean
    <3>2. e.run = NoRun
      BY <2>1 DEF Clean
    <3> QED
      BY <1>3, <3>1, <3>2 DEF Lined
  <2>2. CASE c = sidecar.child /\ current # None /\ Carries(e, current, request)
    BY <1>2, <1>3, <1>6, <2>2, MoveLined
  <2> QED
    BY <1>8, <2>1, <2>2
<1> QED
  BY <1>1, <1>2, <1>9, <1>10 DEF CalmEngines, f

LEMMA CalmInit == Init => CalmInv
<1> SUFFICES ASSUME Init PROVE CalmInv
  OBVIOUS
<1>1. /\ app = "up" /\ ~strayed /\ sidecar = NoSidecar
      /\ engine = [c \in Children |-> NoEngine]
  BY DEF Init
<1>2. NoSidecar.timer = FALSE /\ NoEngine.life = "none" /\ NoEngine.lines = <<>>
  BY DEF NoSidecar, NoEngine
<1>3. Serves(NoEngine) /\ Lined(NoEngine, request)
  BY <1>2, NoLines DEF Serves
<1>4. CalmEngines(engine, sidecar.child, current, request)
  BY <1>1, <1>2, <1>3 DEF CalmEngines
<1> QED
  BY <1>1, <1>2, <1>4 DEF CalmInv

LEMMA CalmNext == Inv /\ CalmInv /\ [Next]_vars => CalmInv'
<1> SUFFICES ASSUME Inv, CalmInv, [Next]_vars PROVE CalmInv'
  OBVIOUS
<1>1. BaseInv /\ TypeOK /\ crashes \in Nat /\ exits \in Nat
  BY DEF Inv, BaseInv, TypeInv, TypeOK
<1>2. ASSUME NEW d \in Docs, AddPaper(d) \/ Enqueue(d) \/ Edit(d) \/ Cancel(d) \/ RemovePaper(d)
      PROVE  CalmInv'
  <2>1. UNCHANGED <<app, crashes, exits, strayed>> /\ app = "up"
    BY <1>2 DEF AddPaper, Enqueue, Edit, Cancel, RemovePaper, Ask
  <2>2. Calm => ~sidecar'.timer /\ CalmEngines(engine', sidecar'.child, current', request')
    BY <1>1, <1>2, CallCalm, CancelCalm
  <2> QED
    BY <2>1, <2>2 DEF CalmInv, Calm
<1>3. ASSUME NEW c \in Children, Deliver(c) PROVE CalmInv'
  <2>1. UNCHANGED <<app, crashes, exits>> /\ app # "down"
    BY <1>3 DEF Deliver, Serving, bounds
  <2>2. Calm => /\ ~strayed'
                /\ ~sidecar'.timer /\ CalmEngines(engine', sidecar'.child, current', request')
    BY <1>1, <1>3, DeliverCalm
  <2> QED
    BY <2>1, <2>2 DEF CalmInv, Calm
<1>4. ASSUME NEW c \in Children, Exit(c) PROVE CalmInv'
  <2>1. UNCHANGED <<app, crashes, exits>> /\ app # "down" /\ engine[c].life = "dead"
    BY <1>4 DEF Exit, Serving, bounds
  <2>2. ~Calm
    BY <2>1 DEF CalmInv, CalmEngines, Serves
  <2> QED
    BY <2>1, <2>2 DEF CalmInv, Calm
<1>5. CASE Respawn
  <2>1. UNCHANGED <<app, crashes, exits>> /\ app # "down" /\ sidecar.timer
    BY <1>5 DEF Respawn, Serving, bounds
  <2>2. ~Calm
    BY <2>1 DEF CalmInv
  <2> QED
    BY <2>1, <2>2 DEF CalmInv, Calm
<1>6. CASE Quit
  BY <1>6 DEF Quit, CalmInv, Calm
<1>7. CASE AppExit
  <2>1. exits' = exits + 1
    BY <1>7 DEF AppExit
  <2>2. exits' # 0
    BY <1>1, <2>1
  <2> QED
    BY <2>2 DEF CalmInv, Calm
<1>8. CASE Start
  <2>1. app = "down" /\ app' = "up" /\ exits' = exits
    BY <1>8 DEF Start, bounds
  <2> QED
    BY <2>1 DEF CalmInv, Calm
<1>9. ASSUME NEW c \in Children, Reader(c) \/ MainLoop(c) \/ Publish(c) PROVE CalmInv'
  <2>1. UNCHANGED <<app, strayed, current, sidecar, request, crashes, exits>>
    BY <1>9 DEF Reader, MainLoop, ReadCancel, Read, ReadEof, TakeConfigure, TakeEdit, TakeRun,
                TakePages, FallBack, Fail, Finish, Publish, EngineOnly, main, bounds
  <2>2. Calm => CalmEngines(engine', sidecar.child, current, request)
    BY <1>9, EngineCalm
  <2> QED
    BY <2>1, <2>2, SMTT(30) DEF CalmInv, Calm
<1>10. ASSUME NEW c \in Children, EngineEnd(c) PROVE CalmInv'
  <2>1. UNCHANGED <<app, exits>> /\ Alive(c)
    BY <1>10 DEF EngineEnd, EngineOnly
  <2>2. CASE crashes' = crashes + 1
    <3>1. crashes' # 0
      BY <1>1, <2>2
    <3> QED
      BY <2>1, <3>1 DEF CalmInv, Calm
  <2>3. CASE engine[c].eof /\ crashes' = crashes
    <3>1. ~Calm
      BY <2>1, <2>3 DEF CalmInv, CalmEngines, Serves, Alive
    <3> QED
      BY <2>1, <2>3, <3>1 DEF CalmInv, Calm
  <2> QED
    BY <1>10, <2>2, <2>3 DEF EngineEnd
<1>11. CASE UNCHANGED vars
  BY <1>11 DEF vars, main, bounds, CalmInv, Calm
<1> QED
  BY <1>2, <1>3, <1>4, <1>5, <1>6, <1>7, <1>8, <1>9, <1>10, <1>11 DEF Next

\* No line is booked to another run than its own, and so nothing that the theorems below
\* except for strayed runs happens, before an engine has ended or the app quits.
THEOREM StraysHold == Spec => []StrayedByEnd
<1>1. Inv /\ CalmInv => StrayedByEnd
  <2>1. TypeOK => crashes \in Nat /\ exits \in Nat
    BY DEF TypeOK
  <2>2. Inv => TypeOK
    BY DEF Inv, BaseInv, TypeInv
  <2> QED
    BY <2>1, <2>2 DEF CalmInv, Calm, StrayedByEnd
<1>2. Init => Inv /\ CalmInv
  BY InvInit, CalmInit
<1>3. Inv /\ CalmInv /\ [Next]_vars => Inv' /\ CalmInv'
  BY InvNext, CalmNext
<1> QED
  BY <1>1, <1>2, <1>3, PTL DEF Spec

\* How many messages or lines of a kind there are.
LEMMA Counts ==
    ASSUME NEW s
    PROVE  /\ NoWork(s) /\ s \in Seq(Messages) => Cardinality(Of("run", s)) = 0
           /\ \A d : OnlyEdits(s, d) /\ s \in Seq(Messages) => Cardinality(Of("run", s)) = 0
           /\ \A d, n : LastRun(s, d, n) /\ s \in Seq(Messages) => Cardinality(Of("run", s)) = 1
           /\ NoFinish(s) /\ s \in Seq(Lines) => Cardinality(Of("run_finished", s)) = 0
           /\ OneFinish(s) /\ s \in Seq(Lines) => Cardinality(Of("run_finished", s)) = 1
<1>1. ASSUME NEW S, s \in Seq(S) PROVE \A i \in 1..Len(s) : s[i] \in ToSet(s)
  BY <1>1, IndexSet
<1>2. ASSUME NEW type, Of(type, s) = {} PROVE Cardinality(Of(type, s)) = 0
  BY <1>2, FS_EmptySet
<1>3. ASSUME NEW type, NEW k, Of(type, s) = {k} PROVE Cardinality(Of(type, s)) = 1
  BY <1>3, FS_Singleton
<1>4. ASSUME NoWork(s), s \in Seq(Messages) PROVE Of("run", s) = {}
  BY <1>1, <1>4 DEF Of, NoWork
<1>5. ASSUME NEW d, OnlyEdits(s, d), s \in Seq(Messages) PROVE Of("run", s) = {}
  BY <1>1, <1>5 DEF Of, OnlyEdits
<1>6. ASSUME NEW d, NEW n, LastRun(s, d, n), s \in Seq(Messages) PROVE \E k : Of("run", s) = {k}
  <2>1. PICK k \in 1..Len(s) :
           /\ s[k].type = "run"
           /\ \A i \in 1..Len(s) : i < k => s[i].type # "run"
           /\ \A i \in 1..Len(s) : i > k => s[i].type # "run"
    BY <1>6 DEF LastRun
  <2>2. Len(s) \in Nat
    BY <1>6
  <2>3. \A i \in 1..Len(s) : i # k => s[i].type # "run"
    <3>1. \A i \in 1..Len(s) : i < k \/ i > k \/ i = k
      BY <2>1, <2>2
    <3> QED
      BY <2>1, <3>1
  <2>4. Of("run", s) = {k}
    BY <2>1, <2>3 DEF Of
  <2> QED
    BY <2>4
<1>7. ASSUME NoFinish(s), s \in Seq(Lines) PROVE Of("run_finished", s) = {}
  BY <1>1, <1>7 DEF Of, NoFinish
<1>8. ASSUME OneFinish(s) PROVE \E k : Of("run_finished", s) = {k}
  <2>1. PICK k \in 1..Len(s) : /\ s[k].type = "run_finished"
                               /\ \A i \in 1..Len(s) : s[i].type = "run_finished" => i = k
    BY <1>8 DEF OneFinish
  <2>2. Of("run_finished", s) = {k}
    BY <2>1 DEF Of
  <2> QED
    BY <2>2
<1> QED
  BY <1>2, <1>3, <1>4, <1>5, <1>6, <1>7, <1>8

\* A clean engine owes nothing, one that carries a run owes its end.
LEMMA OutstandingOf ==
    ASSUME NEW c \in Children, engine[c] \in Engines, NEW d, NEW n
    PROVE  /\ Clean(engine[c]) => Outstanding(c) = 0
           /\ Carries(engine[c], d, n) => Outstanding(c) = 1
<1> DEFINE e == engine[c]
           p == Cardinality(Of("run", e.pipe))
           h == Cardinality(Of("run", e.channel))
           r == IF e.run = NoRun THEN 0 ELSE 1
           l == Cardinality(Of("run_finished", e.lines))
<1>1. e.pipe \in Seq(Messages) /\ e.channel \in Seq(Messages) /\ e.lines \in Seq(Lines)
  BY EngineFields
<1>2. Outstanding(c) = p + h + r + l
  BY DEF Outstanding
<1>3. /\ NoWork(e.pipe) => p = 0
      /\ LastRun(e.pipe, d, n) => p = 1
  BY <1>1, Counts
<1>4. /\ NoWork(e.channel) => h = 0
      /\ OnlyEdits(e.channel, d) => h = 0
      /\ LastRun(e.channel, d, n) => h = 1
  BY <1>1, Counts
<1>5. /\ NoFinish(e.lines) => l = 0
      /\ OneFinish(e.lines) => l = 1
  BY <1>1, Counts
<1>6. e.run = NoRun => r = 0
  OBVIOUS
<1>7. e.run # NoRun => r = 1
  OBVIOUS
<1> HIDE DEF p, h, r, l, e
<1>8. Clean(e) => p = 0 /\ h = 0 /\ r = 0 /\ l = 0
  BY <1>3, <1>4, <1>5, <1>6 DEF Clean
<1>9. Carries(e, d, n) => \/ p = 1 /\ h = 0 /\ r = 0 /\ l = 0
                          \/ p = 0 /\ h = 1 /\ r = 0 /\ l = 0
                          \/ p = 0 /\ h = 0 /\ r = 1 /\ l = 0
                          \/ p = 0 /\ h = 0 /\ r = 0 /\ l = 1
  BY <1>3, <1>4, <1>5, <1>6, <1>7 DEF Carries, Sent, Received, Running, Reported
<1>10. Clean(e) => p + h + r + l = 0
  BY <1>8
<1>11. Carries(e, d, n) => p + h + r + l = 1
  BY <1>9
<1> QED
  BY <1>2, <1>10, <1>11 DEF e

\* While a paper is current there is a child, and exactly one run of it to come to an end,
\* in the pipe, the channel, the main loop or the lines; with no current paper there is
\* none: EngineQueue.current is never left without a run_finished or an exit to come.
THEOREM OutstandingHolds == Spec => []CurrentOutstanding
<1>1. Inv => CurrentOutstanding
  <2> SUFFICES ASSUME Inv, app = "up", ~strayed
               PROVE  /\ current # None => sidecar.child # None
                      /\ sidecar.child # None /\ Alive(sidecar.child) =>
                            Outstanding(sidecar.child) = IF current = None THEN 0 ELSE 1
    BY DEF CurrentOutstanding
  <2>1. /\ current \in Docs \cup {None} /\ sidecar.child \in Children \cup {None}
        /\ engine \in [Children -> Engines]
    BY DEF Inv, BaseInv, TypeInv, TypeOK, Sidecars
  <2>2. current # None => sidecar.child # None
    BY DEF Inv, BaseInv, QueueInv
  <2>3. ASSUME sidecar.child # None, Alive(sidecar.child)
        PROVE  Outstanding(sidecar.child) = IF current = None THEN 0 ELSE 1
    <3> DEFINE c == sidecar.child
    <3>1. c \in Children /\ engine[c] \in Engines
      BY <2>1, <2>3
    <3>2. IF current = None THEN Clean(engine[c]) ELSE Carries(engine[c], current, request)
      BY <2>3 DEF Inv, FlowInv, OwnInv
    <3> HIDE DEF c
    <3>3. CASE current = None
      <4>1. Clean(engine[c])
        BY <3>2, <3>3
      <4>2. Outstanding(c) = 0
        BY <3>1, <4>1, OutstandingOf
      <4> QED
        BY <3>3, <4>2 DEF c
    <3>4. CASE current # None
      <4>1. current \in Docs /\ Carries(engine[c], current, request)
        BY <2>1, <3>2, <3>4
      <4>2. Outstanding(c) = 1
        BY <3>1, <4>1, OutstandingOf
      <4> QED
        BY <3>4, <4>2 DEF c
    <3> QED
      BY <3>3, <3>4
  <2> QED
    BY <2>2, <2>3
<1> QED
  BY <1>1, InvHolds, PTL

\* A cancel reaches the run it was sent for or none: a run whose token is cancelled while
\* stdin is open is that of a paper that was cancelled or removed.
THEOREM CancelHolds == Spec => []CancelOwnRun
<1>1. Inv => CancelOwnRun
  <2> SUFFICES ASSUME Inv, NEW c \in Children, Alive(c), engine[c].run # NoRun,
                      engine[c].cancelled, ~engine[c].eof, ~strayed
               PROVE  \/ status[engine[c].run.doc] \in {"cancelled", "absent"}
                      \/ engine[c].run.doc \in disowned
    BY DEF CancelOwnRun
  <2>1. BaseInv /\ FlowInv /\ engine[c].life = "alive" /\ engine[c] \in Engines
    BY DEF Inv, BaseInv, TypeInv, TypeOK, Alive
  <2>2. ~Clean(engine[c]) /\ ~Orphan(engine[c])
    BY DEF Clean, Orphan, Uncancelled
  <2>3. /\ current # None /\ c = sidecar.child /\ Carries(engine[c], current, request)
    BY <2>1, <2>2, WorkOf
  <2>4. engine[c].run.doc = current
    BY <2>1, <2>3, CarriesRun DEF Running
  <2>5. Hit(engine[c])
    BY DEF Hit
  <2>6. status[current] \in {"cancelled", "absent"} \/ current \in disowned
    <3>1. c # None
      BY ConstantsAssumption DEF ConstantsAssumption
    <3> QED
      BY <2>1, <2>3, <2>5, <3>1 DEF FlowInv, AimInv, Alive
  <2> QED
    BY <2>4, <2>6
<1> QED
  BY <1>1, InvHolds, PTL

\* A paper shown as done was translated by the run it was last asked for, unless that run
\* failed before run_started over a mark that an earlier one had left.
THEOREM PublishedHolds == Spec => []DoneIsPublished
<1>1. Inv => DoneIsPublished
  BY DEF Inv, ShownInv, DoneInv, Shown, DoneIsPublished
<1> QED
  BY <1>1, InvHolds, PTL

\* The translation of a paper that is done shows every edit its store holds, unless its
\* runs warned that they dropped some.
THEOREM EditsHold == Spec => []DoneShowsEdits
<1>1. Inv => DoneShowsEdits
  BY DEF Inv, ShownInv, DoneInv, Shown, DoneShowsEdits
<1> QED
  BY <1>1, InvHolds, PTL

=============================================================================
