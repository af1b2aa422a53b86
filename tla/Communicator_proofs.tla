------------------------ MODULE Communicator_proofs ------------------------
(***************************************************************************)
(* Proofs about Communicator, for every window, limit and multiplier,      *)
(* every calendar and every budget of events: whatever hour one looks at,  *)
(* the posts in it are bounded, and a proposal that nobody objected to had *)
(* its working time.                                                       *)
(***************************************************************************)
EXTENDS Communicator, FiniteSetTheorems, WellFoundedInduction, TLAPS

-----------------------------------------------------------------------------
(* The inductive invariant of the posts.                                   *)

Posts == [at : Nat, nr : Nat, run : Nat]

\* The posts of the process that runs, and those of earlier ones.
Own(k) == {x \in log[k] : x.run = restarts}
Earlier(k) == {x \in log[k] : x.run # restarts}

\* f books the posts in S on places of the bucket b, each on its own.
Books(f, S, b) ==
    /\ f \in [S -> 1 .. Len(b)]
    /\ \A x, y \in S : f[x] = f[y] => x = y
    /\ \A x \in S : b[f[x]] = x.at

\* What the process sent within the hour has a place in its bucket.
Booked(k) == \E f : Books(f, Own(k), buckets[k])

TimesInv ==
    /\ now \in Nat /\ restarts \in Nat
    /\ buckets \in [Kinds -> Seq(Nat)] /\ log \in [Kinds -> SUBSET Posts]
    /\ \A k \in Kinds : IsFiniteSet(log[k]) /\ \A x \in log[k] : InWindow(x.at) /\ x.run <= restarts

LimitInv(k) ==
    /\ Len(buckets[k]) <= LimitOf(k) /\ Booked(k)
    /\ Cardinality(Earlier(k)) <= LimitOf(k) * restarts

IInv == TimesInv /\ \A k \in Kinds : LimitInv(k)

-----------------------------------------------------------------------------
(* Numbers, sets and sequences.                                            *)

LEMMA Numbers ==
    /\ Window \in Nat \ {0} /\ Limit \in Nat \ {0} /\ Multiplier \in Nat \ {0}
    /\ \A k : LimitOf(k) \in Nat \ {0}
<1>1. Window \in Nat \ {0} /\ Limit \in Nat \ {0} /\ Multiplier \in Nat \ {0}
  BY CommunicatorAssumption
<1>2. Limit * Multiplier \in Nat \ {0}
  BY <1>1
<1>. QED
  BY <1>1, <1>2 DEF LimitOf

\* One process more may send its limit more.
LEMMA OneRunMore ==
    ASSUME NEW a \in Nat, NEW n \in Nat
    PROVE  a * n \in Nat /\ a * (n + 1) = a * n + a /\ a * (1 + n) = a * n + a
OBVIOUS

NatLess == OpToRel(<, Nat)

\* A set of natural numbers has its minimum.
LEMMA MinIs ==
    ASSUME NEW T \in SUBSET Nat, T # {}
    PROVE  Min(T) \in T /\ \A y \in T : Min(T) <= y
<1>1. IsWellFoundedOn(NatLess, Nat)
  BY NatLessThanWellFounded DEF NatLess
<1>2. \A x, y \in Nat : <<y, x>> \in NatLess <=> y < x
  BY DEF NatLess, OpToRel
<1>3. PICK x \in T : \A y \in T : <<y, x>> \notin NatLess
  BY <1>1, WFMin
<1>4. \A y \in T : ~(y < x)
  BY <1>2, <1>3
<1>5. \A y \in T : x <= y
  BY <1>4
<1>. QED
  BY <1>3, <1>5 DEF Min

\* Only what is older than the window is popped from a bucket.
LEMMA RecentIs ==
    ASSUME now \in Nat, NEW b \in Seq(Nat)
    PROVE  /\ Recent(b) \in Seq(Nat) /\ Len(Recent(b)) <= Len(b)
           /\ \E d \in 0 .. Len(b) :
                /\ Len(Recent(b)) = Len(b) - d
                /\ \A i \in 1 .. Len(b) : InWindow(b[i]) => i > d
                /\ \A i \in 1 .. Len(b) : i > d => Recent(b)[i - d] = b[i]
<1>. DEFINE kept == {i \in DOMAIN b : InWindow(b[i])}
<1>1. kept \in SUBSET Nat /\ kept \in SUBSET (1 .. Len(b)) /\ Len(b) \in Nat
  OBVIOUS
<1>2. CASE kept = {}
  <2>1. Recent(b) = <<>>
    BY <1>2 DEF Recent, Since
  <2>. QED
    BY <1>1, <1>2, <2>1
<1>3. CASE kept # {}
  <2>. DEFINE m == Min(kept)
  <2>1. m \in kept /\ \A y \in kept : m <= y
    <3>. HIDE DEF kept
    <3>. QED
      BY <1>1, <1>3, MinIs
  <2>2. m \in 1 .. Len(b)
    BY <1>1, <2>1
  <2>3. Recent(b) = SubSeq(b, m, Len(b))
    BY <1>3 DEF Recent, Since
  <2>4. ASSUME NEW i \in 1 .. Len(b), InWindow(b[i]) PROVE m <= i
    <3>1. i \in kept
      BY <2>4
    <3>. QED
      BY <2>1, <3>1
  <2>. DEFINE d == m - 1
  <2>. HIDE DEF m, kept
  <2>5. /\ Recent(b) \in Seq(Nat) /\ Len(Recent(b)) = Len(b) - d /\ Len(Recent(b)) <= Len(b)
        /\ \A i \in 1 .. Len(b) : i > d => Recent(b)[i - d] = b[i]
    BY <1>1, <2>2, <2>3
  <2>6. d \in 0 .. Len(b) /\ \A i \in 1 .. Len(b) : InWindow(b[i]) => i > d
    BY <1>1, <2>2, <2>4
  <2>. HIDE DEF d
  <2>. QED
    BY <1>1, <2>5, <2>6
<1>. QED
  BY <1>2, <1>3

\* A bucket has room for what is booked on it.
LEMMA BookedCounts ==
    ASSUME NEW S, NEW b \in Seq(Nat), NEW f, Books(f, S, b)
    PROVE  IsFiniteSet(S) /\ Cardinality(S) \in Nat /\ Cardinality(S) <= Len(b)
<1>1. IsFiniteSet(1 .. Len(b)) /\ Cardinality(1 .. Len(b)) = Len(b) /\ Len(b) \in Nat
  <2>1. Len(b) \in Nat
    OBVIOUS
  <2>2. /\ IsFiniteSet(1 .. Len(b))
        /\ Cardinality(1 .. Len(b)) = IF 1 > Len(b) THEN 0 ELSE Len(b) - 1 + 1
    BY <2>1, FS_Interval
  <2>. QED
    BY <2>1, <2>2
<1>2. f \in Injection(S, 1 .. Len(b))
  BY DEF Books, Injection, IsInjective
<1>. QED
  BY <1>1, <1>2, FS_Injection, FS_CardinalityType

\* What is booked is booked on the recent part of the bucket.
LEMMA RecentBooks ==
    ASSUME now \in Nat, NEW S, NEW b \in Seq(Nat), NEW f, Books(f, S, b), \A x \in S : InWindow(x.at)
    PROVE  \E g : Books(g, S, Recent(b))
<1>1. PICK d \in 0 .. Len(b) : /\ Len(Recent(b)) = Len(b) - d
                               /\ \A i \in 1 .. Len(b) : InWindow(b[i]) => i > d
                               /\ \A i \in 1 .. Len(b) : i > d => Recent(b)[i - d] = b[i]
  BY RecentIs
<1>. DEFINE g == [x \in S |-> f[x] - d]
<1>2. \A x \in S : f[x] \in 1 .. Len(b) /\ f[x] > d /\ b[f[x]] = x.at
  BY <1>1 DEF Books
<1>3. ASSUME NEW x \in S PROVE g[x] \in 1 .. Len(Recent(b)) /\ Recent(b)[g[x]] = x.at
  <2>1. f[x] \in 1 .. Len(b) /\ f[x] > d /\ b[f[x]] = x.at
    BY <1>2
  <2>2. Len(b) \in Nat /\ g[x] = f[x] - d
    OBVIOUS
  <2>3. Recent(b)[f[x] - d] = b[f[x]]
    BY <1>1, <2>1
  <2>4. g[x] \in 1 .. Len(Recent(b))
    <3>. HIDE DEF g
    <3>. QED
      BY <1>1, <2>1, <2>2
  <2>. QED
    BY <2>1, <2>2, <2>3, <2>4
<1>4. \A x, y \in S : g[x] = g[y] => x = y
  BY <1>1, <1>2 DEF Books
<1>5. g \in [S -> 1 .. Len(Recent(b))]
  BY <1>3
<1>. QED
  BY <1>3, <1>4, <1>5 DEF Books

-----------------------------------------------------------------------------
(* What a step does.                                                       *)

\* A post that finds room is booked, sent or not.
LEMMA ConsumeSteps ==
    ASSUME IInv, NEW k \in Kinds, TryConsume(k), Sent(k) \/ UNCHANGED log, UNCHANGED <<now, restarts>>
    PROVE  IInv'
<1>. DEFINE b == buckets[k]
            r == Recent(b)
            nr == Cardinality({x \in log[k] : x.at = now})
            p == [at |-> now, nr |-> nr, run |-> restarts]
<1>0. /\ now \in Nat /\ restarts \in Nat /\ log \in [Kinds -> SUBSET Posts]
      /\ buckets \in [Kinds -> Seq(Nat)] /\ b \in Seq(Nat) /\ IsFiniteSet(log[k])
  BY DEF IInv, TimesInv
<1>1. /\ r \in Seq(Nat) /\ Len(r) \in Nat /\ Len(r) < LimitOf(k) /\ LimitOf(k) \in Nat
      /\ buckets' = [buckets EXCEPT ![k] = Append(r, now)]
  BY <1>0, RecentIs, Numbers DEF TryConsume
<1>2. /\ buckets'[k] = Append(r, now) /\ Append(r, now) \in Seq(Nat) /\ Len(buckets'[k]) = Len(r) + 1
      /\ buckets'[k][Len(r) + 1] = now /\ \A i \in 1 .. Len(r) : buckets'[k][i] = r[i]
  <2>. HIDE DEF r
  <2>. QED
    BY <1>0, <1>1
<1>3. nr \in Nat /\ p \in Posts /\ p.at = now /\ p.run = restarts
  <2>1. IsFiniteSet({x \in log[k] : x.at = now})
    BY <1>0, FS_Subset
  <2>2. nr \in Nat
    BY <2>1, FS_CardinalityType
  <2>. HIDE DEF nr
  <2>. QED
    BY <1>0, <2>2 DEF Posts
<1>4. PICK f : Books(f, Own(k), b)
  BY DEF IInv, LimitInv, Booked
<1>5. \A x \in log[k] : InWindow(x.at) /\ x.run <= restarts /\ x.run \in Nat
  BY <1>0 DEF IInv, TimesInv, Posts
<1>6. PICK g : Books(g, Own(k), r)
  BY <1>0, <1>4, <1>5, RecentBooks DEF Own
<1>7. InWindow(now)
  BY <1>0, Numbers DEF InWindow
<1>8. \A t : InWindow(t)' <=> InWindow(t)
  BY DEF InWindow
<1>9. /\ log' \in [Kinds -> SUBSET Posts] /\ \A j \in Kinds \ {k} : log'[j] = log[j]
      /\ log'[k] \in {log[k], log[k] \cup {p}}
  <2>. HIDE DEF p
  <2>1. CASE UNCHANGED log
    BY <1>0, <2>1
  <2>2. CASE Sent(k)
    <3>1. log' = [log EXCEPT ![k] = @ \cup {p}]
      BY <2>2 DEF Sent, p
    <3>. QED
      BY <1>0, <1>3, <3>1
  <2>. QED
    BY <2>1, <2>2
<1>. HIDE DEF r, p
<1>10. Own(k)' \in {Own(k), Own(k) \cup {p}} /\ Earlier(k)' = Earlier(k)
  BY <1>3, <1>9 DEF Own, Earlier
<1>11. Booked(k)'
  <2>. DEFINE h == [x \in Own(k)' |-> IF x \in Own(k) THEN g[x] ELSE Len(r) + 1]
  <2>1. \A x \in Own(k) : g[x] \in 1 .. Len(r) /\ r[g[x]] = x.at
    BY <1>6 DEF Books
  <2>2. \A x \in Own(k)' : h[x] \in 1 .. Len(r) + 1 /\ buckets'[k][h[x]] = x.at
    BY <1>1, <1>2, <1>3, <1>10, <2>1
  <2>3. \A x, y \in Own(k)' : h[x] = h[y] => x = y
    <3>1. \A x, y \in Own(k) : g[x] = g[y] => x = y
      BY <1>6 DEF Books
    <3>. QED
      BY <1>1, <1>10, <2>1, <3>1
  <2>4. h \in [Own(k)' -> 1 .. Len(buckets'[k])]
    BY <1>2, <2>2
  <2>5. Books(h, Own(k)', buckets'[k])
    BY <2>2, <2>3, <2>4 DEF Books
  <2>. QED
    BY <2>5 DEF Booked
<1>12. LimitInv(k)'
  <2>1. LimitOf(k)' = LimitOf(k) /\ Len(buckets'[k]) <= LimitOf(k)
    BY <1>1, <1>2 DEF LimitOf
  <2>. QED
    BY <1>10, <1>11, <2>1 DEF IInv, LimitInv
<1>13. ASSUME NEW j \in Kinds \ {k}
       PROVE  LimitInv(j)'
  <2>1. buckets'[j] = buckets[j] /\ log'[j] = log[j] /\ LimitOf(j)' = LimitOf(j)
    BY <1>0, <1>1, <1>9 DEF LimitOf
  <2>2. Own(j)' = Own(j) /\ Earlier(j)' = Earlier(j)
    BY <2>1 DEF Own, Earlier
  <2>. QED
    BY <2>1, <2>2 DEF IInv, LimitInv, Booked
<1>14. TimesInv'
  <2>1. IsFiniteSet(log[k] \cup {p})
    BY <1>0, FS_AddElement
  <2>2. \A x \in log[k] \cup {p} : InWindow(x.at) /\ x.run <= restarts
    BY <1>0, <1>3, <1>5, <1>7
  <2>3. \A j \in Kinds : IsFiniteSet(log'[j]) /\ \A x \in log'[j] : InWindow(x.at) /\ x.run <= restarts
    BY <1>0, <1>9, <2>1, <2>2 DEF IInv, TimesInv
  <2>4. buckets' \in [Kinds -> Seq(Nat)]
    BY <1>0, <1>1, <1>2
  <2>. QED
    BY <1>0, <1>8, <1>9, <2>3, <2>4 DEF TimesInv
<1>. QED
  BY <1>12, <1>13, <1>14 DEF IInv

\* A post that is dropped leaves the recent part of its bucket.
LEMMA DroppedSteps ==
    ASSUME IInv, NEW k \in Kinds, Dropped(k)
    PROVE  IInv'
<1>. DEFINE b == buckets[k]
<1>0. /\ now \in Nat /\ buckets \in [Kinds -> Seq(Nat)] /\ b \in Seq(Nat) /\ Len(b) \in Nat
      /\ UNCHANGED <<now, restarts, log>> /\ buckets' = [buckets EXCEPT ![k] = Recent(b)]
  BY DEF IInv, TimesInv, Dropped
<1>1. Recent(b) \in Seq(Nat) /\ Len(Recent(b)) <= Len(b) /\ Len(Recent(b)) \in Nat
  BY <1>0, RecentIs
<1>2. /\ buckets' \in [Kinds -> Seq(Nat)] /\ buckets'[k] = Recent(b)
      /\ \A j \in Kinds \ {k} : buckets'[j] = buckets[j]
  BY <1>0, <1>1
<1>3. \A j \in Kinds : Own(j)' = Own(j) /\ Earlier(j)' = Earlier(j) /\ LimitOf(j)' = LimitOf(j)
  BY <1>0 DEF Own, Earlier, LimitOf
<1>4. LimitInv(k)'
  <2>1. PICK f : Books(f, Own(k), b)
    BY DEF IInv, LimitInv, Booked
  <2>2. \A x \in Own(k) : InWindow(x.at)
    BY DEF IInv, TimesInv, Own
  <2>3. Booked(k)'
    BY <1>0, <1>2, <1>3, <2>1, <2>2, RecentBooks DEF Booked
  <2>4. Len(buckets'[k]) <= LimitOf(k)
    BY <1>0, <1>1, <1>2, Numbers DEF IInv, LimitInv
  <2>. QED
    BY <1>0, <1>3, <2>3, <2>4 DEF IInv, LimitInv
<1>5. ASSUME NEW j \in Kinds \ {k}
      PROVE  LimitInv(j)'
  BY <1>0, <1>2, <1>3 DEF IInv, LimitInv, Booked
<1>6. TimesInv'
  BY <1>0, <1>2 DEF IInv, TimesInv, InWindow
<1>. QED
  BY <1>4, <1>5, <1>6 DEF IInv

\* Posts leave the window as time passes.
LEMMA PassSteps ==
    ASSUME IInv, Pass
    PROVE  IInv'
<1>0. /\ now \in Nat /\ restarts \in Nat /\ log \in [Kinds -> SUBSET Posts] /\ now' = now + 1
      /\ log' = [k \in Kinds |-> {x \in log[k] : x.at + Window > now}]
      /\ UNCHANGED <<buckets, restarts>>
  BY DEF IInv, TimesInv, Pass
<1>1. \A k \in Kinds : /\ log'[k] \subseteq log[k] /\ IsFiniteSet(log[k])
                       /\ \A x \in log'[k] : x.at \in Nat /\ x.at + Window > now /\ x.run <= restarts
  BY <1>0 DEF IInv, TimesInv, Posts
<1>2. TimesInv'
  <2>1. \A k \in Kinds : IsFiniteSet(log'[k])
    BY <1>1, FS_Subset
  <2>2. \A k \in Kinds : \A x \in log'[k] : InWindow(x.at)'
    BY <1>0, <1>1, Numbers DEF InWindow
  <2>3. log' \in [Kinds -> SUBSET Posts]
    BY <1>0
  <2>. QED
    BY <1>0, <1>1, <2>1, <2>2, <2>3 DEF IInv, TimesInv
<1>3. ASSUME NEW k \in Kinds
      PROVE  LimitInv(k)'
  <2>1. Own(k)' \subseteq Own(k) /\ Earlier(k)' \subseteq Earlier(k) /\ LimitOf(k)' = LimitOf(k)
    BY <1>0, <1>1 DEF Own, Earlier, LimitOf
  <2>2. PICK f : Books(f, Own(k), buckets[k])
    BY DEF IInv, LimitInv, Booked
  <2>. DEFINE g == [x \in Own(k)' |-> f[x]]
  <2>3. Books(g, Own(k)', buckets'[k])
    BY <1>0, <2>1, <2>2 DEF Books
  <2>4. Booked(k)'
    BY <2>3 DEF Booked
  <2>5. IsFiniteSet(Earlier(k))
    BY <1>1, FS_Subset DEF Earlier
  <2>6. /\ Cardinality(Earlier(k)') <= Cardinality(Earlier(k))
        /\ Cardinality(Earlier(k)') \in Nat /\ Cardinality(Earlier(k)) \in Nat
    BY <2>1, <2>5, FS_Subset, FS_CardinalityType
  <2>7. LimitOf(k) * restarts \in Nat
    BY <1>0, Numbers, OneRunMore
  <2>8. Cardinality(Earlier(k)) <= LimitOf(k) * restarts /\ Len(buckets[k]) <= LimitOf(k)
    BY DEF IInv, LimitInv
  <2>. QED
    BY <1>0, <2>1, <2>4, <2>6, <2>7, <2>8 DEF LimitInv
<1>. QED
  BY <1>2, <1>3 DEF IInv

\* All posts of a kind: those of the process and those of earlier ones.
LEMMA PostsCount ==
    ASSUME IInv, NEW k \in Kinds
    PROVE  /\ Cardinality(log[k]) \in Nat
           /\ Cardinality(log[k]) <= LimitOf(k) * restarts + LimitOf(k)
<1>0. restarts \in Nat /\ buckets[k] \in Seq(Nat) /\ Len(buckets[k]) \in Nat /\ IsFiniteSet(log[k])
  BY DEF IInv, TimesInv
<1>1. log[k] = Own(k) \cup Earlier(k) /\ Own(k) \cap Earlier(k) = {}
  BY DEF Own, Earlier
<1>2. IsFiniteSet(Own(k)) /\ IsFiniteSet(Earlier(k))
  BY <1>0, FS_Subset DEF Own, Earlier
<1>3. Cardinality(log[k]) = Cardinality(Own(k)) + Cardinality(Earlier(k))
  <2>1. Cardinality(Own(k) \cap Earlier(k)) = 0
    BY <1>1, FS_EmptySet
  <2>2. Cardinality(Own(k)) \in Nat /\ Cardinality(Earlier(k)) \in Nat
    BY <1>2, FS_CardinalityType
  <2>3. Cardinality(Own(k) \cup Earlier(k))
          = Cardinality(Own(k)) + Cardinality(Earlier(k)) - Cardinality(Own(k) \cap Earlier(k))
    BY <1>2, FS_Union
  <2>. QED
    BY <1>1, <2>1, <2>2, <2>3
<1>4. PICK f : Books(f, Own(k), buckets[k])
  BY DEF IInv, LimitInv, Booked
<1>5. Cardinality(Own(k)) \in Nat /\ Cardinality(Own(k)) <= Len(buckets[k])
  BY <1>0, <1>4, BookedCounts
<1>6. Cardinality(Earlier(k)) \in Nat
  BY <1>2, FS_CardinalityType
<1>7. LimitOf(k) \in Nat /\ LimitOf(k) * restarts \in Nat
  BY <1>0, Numbers, OneRunMore
<1>8. Cardinality(Earlier(k)) <= LimitOf(k) * restarts /\ Len(buckets[k]) <= LimitOf(k)
  BY DEF IInv, LimitInv
<1>. QED
  BY <1>0, <1>3, <1>5, <1>6, <1>7, <1>8

\* A new process begins with empty buckets; what the old one sent is earlier.
LEMMA RestartSteps ==
    ASSUME IInv, Restart
    PROVE  IInv'
<1>0. /\ now \in Nat /\ restarts \in Nat /\ restarts' = restarts + 1 /\ UNCHANGED <<now, log>>
      /\ buckets' = [k \in Kinds |-> <<>>] /\ log \in [Kinds -> SUBSET Posts]
  BY DEF IInv, TimesInv, Restart
<1>1. \A k \in Kinds : \A x \in log[k] : x.run \in Nat /\ x.run <= restarts
  BY <1>0 DEF IInv, TimesInv, Posts
<1>2. TimesInv'
  BY <1>0, <1>1 DEF IInv, TimesInv, InWindow
<1>3. ASSUME NEW k \in Kinds
      PROVE  LimitInv(k)'
  <2>1. Own(k)' = {} /\ Earlier(k)' = log[k] /\ LimitOf(k)' = LimitOf(k)
    BY <1>0, <1>1 DEF Own, Earlier, LimitOf
  <2>2. buckets'[k] = <<>> /\ Len(<<>>) = 0
    BY <1>0
  <2>3. Books([x \in {} |-> x], {}, <<>>)
    BY DEF Books
  <2>4. Booked(k)'
    BY <2>1, <2>2, <2>3 DEF Booked
  <2>5. LimitOf(k) \in Nat /\ LimitOf(k) * restarts' = LimitOf(k) * restarts + LimitOf(k)
    BY <1>0, Numbers, OneRunMore
  <2>. QED
    BY <2>1, <2>2, <2>4, <2>5, PostsCount DEF LimitInv
<1>. QED
  BY <1>2, <1>3 DEF IInv

-----------------------------------------------------------------------------
(* The theorem about the posts.                                            *)

LEMMA InitHolds == ASSUME Init PROVE IInv
<1>1. /\ now \in Nat /\ restarts = 0 /\ \A k \in Kinds : buckets[k] = <<>> /\ log[k] = {}
      /\ buckets \in [Kinds -> Seq(Nat)] /\ log \in [Kinds -> SUBSET Posts]
  BY CommunicatorAssumption DEF Init
<1>2. TimesInv
  BY <1>1, FS_EmptySet DEF TimesInv
<1>3. ASSUME NEW k \in Kinds
      PROVE  LimitInv(k)
  <2>1. Own(k) = {} /\ Earlier(k) = {} /\ Len(buckets[k]) = 0
    BY <1>1 DEF Own, Earlier
  <2>2. Books([x \in {} |-> x], {}, <<>>)
    BY DEF Books
  <2>3. Booked(k)
    BY <1>1, <2>1, <2>2 DEF Booked
  <2>4. LimitOf(k) \in Nat /\ LimitOf(k) * restarts \in Nat /\ Cardinality({}) = 0
    BY <1>1, Numbers, OneRunMore, FS_EmptySet
  <2>. QED
    BY <2>1, <2>3, <2>4 DEF LimitInv
<1>. QED
  BY <1>2, <1>3 DEF IInv

\* The inductive invariant: every post of the running process has a place in
\* its bucket, and the earlier ones are within the limits of their processes.
THEOREM Inductive == Spec => []IInv
<1>1. Init => IInv
  BY InitHolds
<1>2. IInv /\ [Next]_vars => IInv'
  <2>. SUFFICES ASSUME IInv, [Next]_vars PROVE IInv'
    OBVIOUS
  <2>1. ASSUME NEW k \in Kinds, Send(k) PROVE IInv'
    BY <2>1, ConsumeSteps DEF Send
  <2>2. ASSUME NEW k \in Kinds, Dropped(k) PROVE IInv'
    BY <2>2, DroppedSteps
  <2>3. CASE AskTeam
    BY <2>3, ConsumeSteps DEF AskTeam, Kinds
  <2>4. CASE UNCHANGED <<now, buckets, restarts, log>>
    BY <2>4 DEF IInv, TimesInv, LimitInv, Booked, Own, Earlier, LimitOf, InWindow
  <2>5. CASE Pass
    BY <2>5, PassSteps
  <2>6. CASE Restart
    BY <2>6, RestartSteps
  <2>. QED
    BY <2>1, <2>2, <2>3, <2>4, <2>5, <2>6
    DEF Next, vars, InstallDeadline, ConsentBySilence, Settle
<1>. QED
  BY <1>1, <1>2, PTL DEF Spec

\* Whatever hour one looks at, _RateBucket lets out no more than the limit of
\* unprompted posts, and the multiple for replies; once more for every restart,
\* because the buckets are the process's own.
THEOREM NoBurst == Spec => []HourIsBounded
<1>1. IInv => HourIsBounded
  <2>. SUFFICES ASSUME IInv, NEW k \in Kinds
                PROVE  Cardinality({x \in log[k] : InWindow(x.at)}) <= LimitOf(k) * (1 + restarts)
    BY DEF HourIsBounded
  <2>1. {x \in log[k] : InWindow(x.at)} = log[k] /\ restarts \in Nat
    BY DEF IInv, TimesInv
  <2>2. LimitOf(k) \in Nat /\ LimitOf(k) * (1 + restarts) = LimitOf(k) * restarts + LimitOf(k)
    BY <2>1, Numbers, OneRunMore
  <2>. QED
    BY <2>1, <2>2, PostsCount
<1>. QED
  BY <1>1, Inductive, PTL

-----------------------------------------------------------------------------
(* The calendar.                                                           *)

LEMMA DivMod ==
    ASSUME NEW d \in Nat \ {0}, NEW a \in Nat
    PROVE  a \div d \in Nat /\ a % d \in 0 .. d - 1 /\ a = d * (a \div d) + (a % d)
<1>1. a \div d \in Nat /\ a % d \in 0 .. d - 1
  OBVIOUS
<1>2. a = d * (a \div d) + (a % d)
  OBVIOUS
<1>. QED
  BY <1>1, <1>2

LEMMA DivMonotone ==
    ASSUME NEW d \in Nat \ {0}, NEW a \in Nat, NEW b \in Nat, a <= b
    PROVE  a \div d <= b \div d
OBVIOUS

LEMMA ModMonotone ==
    ASSUME NEW d \in Nat \ {0}, NEW a \in Nat, NEW b \in Nat, a <= b, a \div d = b \div d
    PROVE  a % d <= b % d
<1>. DEFINE x == d * (a \div d)  y == d * (b \div d)  u == a % d  v == b % d
<1>1. a = x + u /\ b = y + v
  BY DivMod
<1>2. x \in Nat /\ x = y /\ u \in Nat /\ v \in Nat
  OBVIOUS
<1>. HIDE DEF x, y, u, v
<1>3. u <= v
  BY <1>1, <1>2
<1>. QED
  BY <1>3 DEF u, v

\* The moments at which the steps of the walk begin.
LEMMA StepTimes ==
    ASSUME NEW s \in Nat \ {0}, NEW n \in Nat
    PROVE  n * s \in Nat /\ (n + 1) * s = n * s + s /\ n <= n * s /\ s * n = n * s
OBVIOUS

LEMMA StepOrder ==
    ASSUME NEW s \in Nat \ {0}, NEW n \in Nat, NEW m \in Nat, n < m
    PROVE  n * s + s <= m * s
OBVIOUS

LEMMA Calendar ==
    /\ HourLength \in Nat \ {0} /\ DayLength \in Nat \ {0} /\ Step \in Nat \ {0}
    /\ StartHour \in Nat /\ EndHour \in Nat /\ Consent \in Nat
    /\ CapDays * DayLength \in Nat
<1>1. {HourLength, HoursPerDay, Step, CapDays} \subseteq Nat \ {0}
  BY CommunicatorAssumption
<1>2. HourLength * HoursPerDay \in Nat \ {0}
  BY <1>1
<1>3. CapDays * DayLength \in Nat
  <2>1. DayLength \in Nat /\ CapDays \in Nat
    BY <1>1, <1>2 DEF DayLength
  <2>. QED
    BY <2>1
<1>. QED
  BY <1>1, <1>2, <1>3, CommunicatorAssumption DEF DayLength

Day(t) == t \div DayLength

\* The working hours of a day are one window: between two working moments of
\* a day there is nothing else.
LEMMA WindowIsConvex ==
    ASSUME NEW a \in Nat, NEW t \in Nat, NEW b \in Nat, a <= t, t <= b, Day(a) = Day(b),
           IsWithinWorkingHours(a), IsWithinWorkingHours(b)
    PROVE  IsWithinWorkingHours(t)
<1>1. Day(a) <= Day(t) /\ Day(t) <= Day(b) /\ Day(a) \in Nat /\ Day(t) \in Nat /\ Day(b) \in Nat
  BY Calendar, DivMod, DivMonotone DEF Day
<1>2. Day(t) = Day(a) /\ Day(t) = Day(b)
  BY <1>1
<1>3. a % DayLength <= t % DayLength /\ t % DayLength <= b % DayLength
  BY <1>2, Calendar, ModMonotone DEF Day
<1>4. a % DayLength \in Nat /\ t % DayLength \in Nat /\ b % DayLength \in Nat
  BY Calendar, DivMod
<1>5. HourOf(a) <= HourOf(t) /\ HourOf(t) <= HourOf(b)
  BY <1>3, <1>4, Calendar, DivMonotone DEF HourOf
<1>6. HourOf(a) \in Nat /\ HourOf(t) \in Nat /\ HourOf(b) \in Nat
  BY <1>4, Calendar, DivMod DEF HourOf
<1>7. Weekday(t) = Weekday(a)
  BY <1>2 DEF Weekday, Day
<1>8. /\ WeekdaysOnly => Weekday(a) < 5
      /\ StartHour <= HourOf(a) /\ HourOf(b) < EndHour
  BY DEF IsWithinWorkingHours
<1>9. StartHour <= HourOf(t) /\ HourOf(t) < EndHour
  BY <1>5, <1>6, <1>8, Calendar
<1>. QED
  BY <1>7, <1>8, <1>9 DEF IsWithinWorkingHours

-----------------------------------------------------------------------------
(* The walk of working_time_after.                                         *)

Minutes(from, to) == {t \in from .. to - 1 : IsWithinWorkingHours(t)}

LEMMA MinutesFinite ==
    ASSUME NEW from \in Nat, NEW to \in Nat
    PROVE  IsFiniteSet(Minutes(from, to)) /\ Cardinality(Minutes(from, to)) \in Nat
<1>1. IsFiniteSet(from .. to - 1)
  BY FS_Interval
<1>2. Minutes(from, to) \in SUBSET (from .. to - 1)
  BY DEF Minutes
<1>. QED
  BY <1>1, <1>2, FS_Subset, FS_CardinalityType

\* The steps that count although working hours end before they do.
Broken(from, n) ==
    {k \in StepsWorked(from, n) :
        \E i \in 0 .. Step - 1 : ~IsWithinWorkingHours(from + k * Step + i)}

LEMMA StepsFinite ==
    ASSUME NEW from \in Nat, NEW n \in Nat
    PROVE  /\ IsFiniteSet(StepsWorked(from, n)) /\ Cardinality(StepsWorked(from, n)) \in Nat
           /\ IsFiniteSet(Broken(from, n)) /\ Cardinality(Broken(from, n)) \in Nat
<1>1. IsFiniteSet(0 .. n - 1)
  BY FS_Interval
<1>2. StepsWorked(from, n) \in SUBSET (0 .. n - 1) /\ Broken(from, n) \in SUBSET (0 .. n - 1)
  BY DEF StepsWorked, Broken
<1>. QED
  BY <1>1, <1>2, FS_Subset, FS_CardinalityType

\* No two of them are on one day.
LEMMA OneBreakADay ==
    ASSUME NEW from \in Nat, NEW n \in Nat, NEW k \in Broken(from, n), NEW m \in Broken(from, n), k < m
    PROVE  Day(from + k * Step) # Day(from + m * Step)
<1>. DEFINE a == from + k * Step
            b == from + m * Step
<1>1. k \in Nat /\ m \in Nat /\ IsWithinWorkingHours(a) /\ IsWithinWorkingHours(b)
  BY DEF Broken, StepsWorked
<1>2. PICK i \in 0 .. Step - 1 : ~IsWithinWorkingHours(a + i)
  BY DEF Broken
<1>3. Step \in Nat \ {0} /\ k * Step \in Nat /\ m * Step \in Nat /\ k * Step + Step <= m * Step
  BY <1>1, Calendar, StepTimes, StepOrder
<1>4. a \in Nat /\ b \in Nat /\ a + i \in Nat /\ a <= a + i /\ a + i <= b
  BY <1>3
<1>. HIDE DEF a, b
<1>5. Day(a) # Day(b)
  BY <1>1, <1>2, <1>4, WindowIsConvex
<1>. QED
  BY <1>5 DEF a, b

\* There are no more of them than days on which they begin.
LEMMA BreaksAreOnDays ==
    ASSUME NEW from \in Nat, NEW n \in Nat, NEW D, IsFiniteSet(D),
           \A k \in Broken(from, n) : Day(from + k * Step) \in D
    PROVE  Cardinality(Broken(from, n)) <= Cardinality(D)
<1>. DEFINE f == [k \in Broken(from, n) |-> Day(from + k * Step)]
<1>1. ASSUME NEW k \in Broken(from, n), NEW m \in Broken(from, n), f[k] = f[m]
      PROVE  k = m
  <2>1. k \in Nat /\ m \in Nat
    BY DEF Broken, StepsWorked
  <2>2. ~(k < m) /\ ~(m < k)
    BY <1>1, OneBreakADay
  <2>. QED
    BY <2>1, <2>2
<1>2. f \in [Broken(from, n) -> D]
  OBVIOUS
<1>3. f \in Injection(Broken(from, n), D)
  <2>. HIDE DEF f
  <2>. QED
    BY <1>1, <1>2 DEF Injection, IsInjective
<1>. QED
  BY <1>3, FS_Injection

\* One step of the walk.
LEMMA StepIs ==
    ASSUME NEW from \in Nat, NEW n \in Nat
    PROVE  LET t == from + n * Step
           IN  /\ IsWithinWorkingHours(t) => StepsWorked(from, n + 1) = StepsWorked(from, n) \cup {n}
               /\ ~IsWithinWorkingHours(t) => StepsWorked(from, n + 1) = StepsWorked(from, n)
               /\ n \notin StepsWorked(from, n)
               /\ Minutes(from, from + (n + 1) * Step) = Minutes(from, t) \cup Minutes(t, t + Step)
               /\ Minutes(from, t) \cap Minutes(t, t + Step) = {}
<1>. DEFINE t == from + n * Step
<1>1. 0 .. (n + 1) - 1 = (0 .. n - 1) \cup {n} /\ n \notin 0 .. n - 1
  OBVIOUS
<1>2. /\ IsWithinWorkingHours(t) => StepsWorked(from, n + 1) = StepsWorked(from, n) \cup {n}
      /\ ~IsWithinWorkingHours(t) => StepsWorked(from, n + 1) = StepsWorked(from, n)
      /\ n \notin StepsWorked(from, n)
  BY <1>1 DEF StepsWorked
<1>3. Step \in Nat \ {0} /\ n * Step \in Nat /\ (n + 1) * Step = n * Step + Step
  BY Calendar, StepTimes
<1>4. t \in Nat /\ from <= t /\ from + (n + 1) * Step = t + Step
  BY <1>3
<1>. HIDE DEF t
<1>5. from .. (t + Step) - 1 = (from .. t - 1) \cup (t .. (t + Step) - 1)
  BY <1>3, <1>4
<1>6. (from .. t - 1) \cap (t .. (t + Step) - 1) = {}
  BY <1>3, <1>4
<1>7. /\ Minutes(from, t + Step) = Minutes(from, t) \cup Minutes(t, t + Step)
      /\ Minutes(from, t) \cap Minutes(t, t + Step) = {}
  BY <1>5, <1>6 DEF Minutes
<1>. QED
  BY <1>2, <1>4, <1>7 DEF t

\* What is worked of a step: a minute, if it begins in working hours, and all
\* of it, unless it is broken.
LEMMA StepMinutes ==
    ASSUME NEW t \in Nat, IsWithinWorkingHours(t)
    PROVE  /\ Cardinality(Minutes(t, t + Step)) >= 1
           /\ (\A i \in 0 .. Step - 1 : IsWithinWorkingHours(t + i))
                => Cardinality(Minutes(t, t + Step)) >= Step
<1>1. Step \in Nat \ {0}
  BY Calendar
<1>2. IsFiniteSet(Minutes(t, t + Step))
  BY <1>1, MinutesFinite
<1>3. Cardinality(Minutes(t, t + Step)) >= 1
  <2>1. {t} \in SUBSET Minutes(t, t + Step)
    BY <1>1 DEF Minutes
  <2>2. Cardinality({t}) = 1 /\ Cardinality({t}) <= Cardinality(Minutes(t, t + Step))
    BY <1>2, <2>1, FS_Subset, FS_Singleton
  <2>. QED
    BY <2>2
<1>4. ASSUME \A i \in 0 .. Step - 1 : IsWithinWorkingHours(t + i)
      PROVE  Cardinality(Minutes(t, t + Step)) >= Step
  <2>1. ASSUME NEW u \in t .. (t + Step) - 1
        PROVE  IsWithinWorkingHours(u)
    <3>1. u - t \in 0 .. Step - 1 /\ t + (u - t) = u
      BY <1>1, <2>1
    <3>. QED
      BY <1>4, <3>1
  <2>2. Minutes(t, t + Step) = t .. (t + Step) - 1
    BY <2>1 DEF Minutes
  <2>3. Cardinality(t .. (t + Step) - 1) = Step
    <3>1. Cardinality(t .. (t + Step) - 1) = IF t > (t + Step) - 1 THEN 0 ELSE (t + Step) - 1 - t + 1
      BY <1>1, FS_Interval
    <3>. QED
      BY <1>1, <3>1
  <2>. QED
    BY <1>1, <2>2, <2>3
<1>. QED
  BY <1>3, <1>4

\* The time that the walk has counted is no more than what was worked, and for
\* every broken step what is missing of it.
CountsWork(from, n) ==
    Step * Cardinality(StepsWorked(from, n))
      <= Cardinality(Minutes(from, from + n * Step)) + (Step - 1) * Cardinality(Broken(from, n))

LEMMA MoreTimes ==
    ASSUME NEW s \in Nat \ {0}, NEW c \in Nat
    PROVE  /\ s * c \in Nat /\ s * (c + 1) = s * c + s
           /\ (s - 1) * c \in Nat /\ (s - 1) * (c + 1) = (s - 1) * c + (s - 1)
<1>1. s * c \in Nat /\ s * (c + 1) = s * c + s
  OBVIOUS
<1>2. s - 1 \in Nat
  OBVIOUS
<1>3. ASSUME NEW r \in Nat PROVE r * c \in Nat /\ r * (c + 1) = r * c + r
  OBVIOUS
<1>. QED
  BY <1>1, <1>2, <1>3

LEMMA CountsOneMore ==
    ASSUME NEW from \in Nat, NEW n \in Nat, CountsWork(from, n)
    PROVE  CountsWork(from, n + 1)
<1>. DEFINE t == from + n * Step
            W == Minutes(from, t)
            B == Minutes(t, t + Step)
            S == StepsWorked(from, n)
            R == Broken(from, n)
<1>1. /\ Step \in Nat \ {0} /\ n * Step \in Nat /\ t \in Nat
      /\ from + (n + 1) * Step = t + Step
  <2>1. Step \in Nat \ {0} /\ n * Step \in Nat /\ (n + 1) * Step = n * Step + Step
    BY Calendar, StepTimes
  <2>. QED
    BY <2>1
<1>2. /\ IsFiniteSet(S) /\ Cardinality(S) \in Nat /\ IsFiniteSet(R) /\ Cardinality(R) \in Nat
      /\ IsFiniteSet(W) /\ Cardinality(W) \in Nat /\ IsFiniteSet(B) /\ Cardinality(B) \in Nat
  <2>1. t + Step \in Nat
    BY <1>1
  <2>. QED
    BY <1>1, <2>1, StepsFinite, MinutesFinite
<1>3. Cardinality(Minutes(from, from + (n + 1) * Step)) = Cardinality(W) + Cardinality(B)
  <2>1. Minutes(from, from + (n + 1) * Step) = W \cup B /\ W \cap B = {}
    BY StepIs
  <2>2. Cardinality(W \cap B) = 0
    BY <2>1, FS_EmptySet
  <2>. HIDE DEF W, B
  <2>3. Cardinality(W \cup B) = Cardinality(W) + Cardinality(B) - Cardinality(W \cap B)
    BY <1>2, FS_Union
  <2>4. Cardinality(W \cup B) = Cardinality(W) + Cardinality(B)
    BY <1>2, <2>2, <2>3
  <2>. QED
    BY <2>1, <2>4
<1>4. n + 1 \in Nat /\ n \notin S /\ n \notin R
  BY StepIs DEF Broken
<1>5. Step * Cardinality(S) <= Cardinality(W) + (Step - 1) * Cardinality(R)
  BY DEF CountsWork
<1>6. /\ Step * Cardinality(S) \in Nat /\ (Step - 1) * Cardinality(R) \in Nat
      /\ Step * (Cardinality(S) + 1) = Step * Cardinality(S) + Step
      /\ (Step - 1) * (Cardinality(R) + 1) = (Step - 1) * Cardinality(R) + (Step - 1)
  BY <1>1, <1>2, MoreTimes
<1>7. CASE ~IsWithinWorkingHours(t)
  <2>1. StepsWorked(from, n + 1) = S
    BY <1>7, StepIs
  <2>2. Broken(from, n + 1) = R
    BY <2>1 DEF Broken
  <2>3. Step * Cardinality(S) <= (Cardinality(W) + Cardinality(B)) + (Step - 1) * Cardinality(R)
    <3>. HIDE DEF W, B, S, R
    <3>. QED
      BY <1>2, <1>5, <1>6
  <2>. QED
    BY <1>3, <2>1, <2>2, <2>3 DEF CountsWork
<1>8. CASE IsWithinWorkingHours(t)
  <2>1. StepsWorked(from, n + 1) = S \cup {n}
    BY <1>8, StepIs
  <2>2. Cardinality(StepsWorked(from, n + 1)) = Cardinality(S) + 1
    BY <1>2, <1>4, <2>1, FS_AddElement
  <2>3. CASE \A i \in 0 .. Step - 1 : IsWithinWorkingHours(t + i)
    <3>1. Broken(from, n + 1) = R
      BY <2>1, <2>3 DEF Broken
    <3>2. Cardinality(B) >= Step
      BY <1>1, <1>8, <2>3, StepMinutes
    <3>3. Step * (Cardinality(S) + 1) <= (Cardinality(W) + Cardinality(B)) + (Step - 1) * Cardinality(R)
      <4>. HIDE DEF W, B, S, R
      <4>. QED
        BY <1>1, <1>2, <1>5, <1>6, <3>2
    <3>. QED
      BY <1>3, <2>2, <3>1, <3>3 DEF CountsWork
  <2>4. CASE \E i \in 0 .. Step - 1 : ~IsWithinWorkingHours(t + i)
    <3>1. Broken(from, n + 1) = R \cup {n}
      BY <2>1, <2>4 DEF Broken
    <3>2. Cardinality(Broken(from, n + 1)) = Cardinality(R) + 1
      BY <1>2, <1>4, <3>1, FS_AddElement
    <3>3. Cardinality(B) >= 1
      BY <1>1, <1>8, StepMinutes
    <3>4. Step * (Cardinality(S) + 1)
            <= (Cardinality(W) + Cardinality(B)) + (Step - 1) * (Cardinality(R) + 1)
      <4>. HIDE DEF W, B, S, R
      <4>. QED
        BY <1>1, <1>2, <1>5, <1>6, <3>3
    <3>. QED
      BY <1>3, <2>2, <3>2, <3>4 DEF CountsWork
  <2>. QED
    BY <2>3, <2>4
<1>. QED
  BY <1>7, <1>8

LEMMA CountsAlways ==
    ASSUME NEW from \in Nat, NEW n \in Nat
    PROVE  CountsWork(from, n)
<1>. DEFINE bad == {m \in Nat : ~CountsWork(from, m)}
<1>1. CountsWork(from, 0)
  <2>1. StepsWorked(from, 0) = {} /\ Broken(from, 0) = {}
    BY DEF StepsWorked, Broken
  <2>2. /\ Step \in Nat \ {0} /\ 0 * Step \in Nat /\ Cardinality({}) = 0
        /\ Step * 0 = 0 /\ (Step - 1) * 0 = 0
    BY Calendar, FS_EmptySet
  <2>3. Cardinality(Minutes(from, from + 0 * Step)) \in Nat
    BY <2>2, MinutesFinite
  <2>. QED
    BY <2>1, <2>2, <2>3 DEF CountsWork
<1>2. ASSUME bad # {} PROVE FALSE
  <2>1. PICK m \in bad : \A y \in bad : m <= y
    <3>1. bad \in SUBSET Nat
      OBVIOUS
    <3>. HIDE DEF bad
    <3>. QED
      BY <1>2, <3>1, MinIs
  <2>2. m \in Nat /\ m # 0
    BY <1>1
  <2>3. m - 1 \in Nat /\ (m - 1) + 1 = m /\ ~(m <= m - 1)
    BY <2>2
  <2>4. CountsWork(from, m - 1)
    BY <2>1, <2>3
  <2>. QED
    BY <2>3, <2>4, CountsOneMore
<1>. QED
  BY <1>2

\* When the walk ends: before the cap it has counted the time, and what it has
\* counted was worked, but for less than a step on every day in D.
LEMMA WalkEnds ==
    ASSUME NEW from \in Nat, NEW minutes \in Nat
    PROVE  /\ WorkingTimeAfter(from, minutes) \in Nat /\ from <= WorkingTimeAfter(from, minutes)
           /\ \/ from + CapDays * DayLength <= WorkingTimeAfter(from, minutes)
              \/ \A D : IsFiniteSet(D) /\ (\A t \in Minutes(from, WorkingTimeAfter(from, minutes)) : Day(t) \in D)
                   => minutes <= Cardinality(Minutes(from, WorkingTimeAfter(from, minutes)))
                                   + (Step - 1) * Cardinality(D)
<1>. DEFINE cap == CapDays * DayLength
            Ended(n) == minutes <= Step * Cardinality(StepsWorked(from, n)) \/ cap <= n * Step
            ends == {n \in 0 .. cap : Ended(n)}
            n == Min(ends)
            due == from + n * Step
<1>1. cap \in Nat /\ Step \in Nat \ {0}
  BY Calendar
<1>2. cap \in ends
  <2>1. cap <= cap * Step /\ cap \in 0 .. cap
    <3>. HIDE DEF cap
    <3>. QED
      BY <1>1, StepTimes
  <2>. QED
    BY <2>1
<1>3. n \in ends
  <2>1. ends \in SUBSET Nat /\ ends # {}
    BY <1>1, <1>2
  <2>. HIDE DEF ends
  <2>. QED
    BY <2>1, MinIs
<1>4. n \in Nat /\ Ended(n)
  <2>1. n \in 0 .. cap
    BY <1>3
  <2>2. Ended(n)
    BY <1>3
  <2>. HIDE DEF n, Ended
  <2>. QED
    BY <1>1, <2>1, <2>2
<1>5. WorkingTimeAfter(from, minutes) = due
  <2>1. WorkingTimeAfter(from, minutes) = from + Step * n
    BY DEF WorkingTimeAfter
  <2>. HIDE DEF n
  <2>2. Step * n = n * Step
    BY <1>1, <1>4, StepTimes
  <2>. QED
    BY <2>1, <2>2
<1>. HIDE DEF n, cap
<1>6. n * Step \in Nat /\ due \in Nat /\ from <= due
  <2>1. n * Step \in Nat
    BY <1>1, <1>4, StepTimes
  <2>. QED
    BY <2>1
<1>7. CASE cap <= n * Step
  <2>1. from + cap <= due
    BY <1>1, <1>6, <1>7
  <2>. QED
    BY <1>5, <1>6, <2>1 DEF cap
<1>8. CASE minutes <= Step * Cardinality(StepsWorked(from, n))
  <2>1. ASSUME NEW D, IsFiniteSet(D), \A t \in Minutes(from, due) : Day(t) \in D
        PROVE  minutes <= Cardinality(Minutes(from, due)) + (Step - 1) * Cardinality(D)
    <3>1. ASSUME NEW k \in Broken(from, n)
          PROVE  Day(from + k * Step) \in D
      <4>1. k \in Nat /\ k < n /\ IsWithinWorkingHours(from + k * Step)
        BY <1>4 DEF Broken, StepsWorked
      <4>2. k * Step \in Nat /\ k * Step + Step <= n * Step
        BY <1>1, <1>4, <4>1, StepTimes, StepOrder
      <4>3. from + k * Step \in from .. due - 1
        BY <1>1, <1>6, <4>2
      <4>4. from + k * Step \in Minutes(from, due)
        BY <4>1, <4>3 DEF Minutes
      <4>. QED
        BY <2>1, <4>4
    <3>2. Cardinality(Broken(from, n)) <= Cardinality(D)
      BY <1>4, <2>1, <3>1, BreaksAreOnDays
    <3>3. /\ Cardinality(Broken(from, n)) \in Nat /\ Cardinality(D) \in Nat
          /\ Cardinality(StepsWorked(from, n)) \in Nat /\ Cardinality(Minutes(from, due)) \in Nat
      BY <1>4, <1>6, <2>1, StepsFinite, MinutesFinite, FS_CardinalityType
    <3>4. (Step - 1) * Cardinality(Broken(from, n)) <= (Step - 1) * Cardinality(D)
      <4>1. \A r, a, b \in Nat : a <= b => r * a <= r * b
        OBVIOUS
      <4>2. Step - 1 \in Nat
        BY <1>1
      <4>. QED
        BY <3>2, <3>3, <4>1, <4>2
    <3>5. CountsWork(from, n)
      BY <1>4, CountsAlways
    <3>6. Step * Cardinality(StepsWorked(from, n))
            <= Cardinality(Minutes(from, due)) + (Step - 1) * Cardinality(Broken(from, n))
      BY <3>5 DEF CountsWork
    <3>7. /\ Step * Cardinality(StepsWorked(from, n)) \in Nat
          /\ (Step - 1) * Cardinality(Broken(from, n)) \in Nat /\ (Step - 1) * Cardinality(D) \in Nat
      BY <1>1, <3>3, MoreTimes
    <3>. QED
      BY <1>8, <3>3, <3>4, <3>6, <3>7
  <2>. QED
    BY <1>5, <1>6, <2>1
<1>. QED
  BY <1>4, <1>7, <1>8 DEF cap

-----------------------------------------------------------------------------
(* The proposal.                                                           *)

\* Its deadline was worked out at some moment after it was posted, and it is
\* agreed when that has come.
ProposalInv ==
    /\ now \in Nat
    /\ proposal \in [at : {"none", "running", "waiting", "agreed"}, posted : Nat, due : Nat]
    /\ proposal.at # "none" => proposal.posted <= now
    /\ proposal.at \in {"waiting", "agreed"} =>
         \E from \in proposal.posted .. now : proposal.due = WorkingTimeAfter(from, Consent)
    /\ proposal.at = "agreed" => proposal.due <= now

LEMMA ProposalSteps ==
    ASSUME ProposalInv, [Next]_vars
    PROVE  ProposalInv'
<1>0. Consent \in Nat /\ NoProposal \in [at : {"none"}, posted : Nat, due : Nat] /\ NoProposal.at = "none"
  BY Calendar DEF NoProposal, Never
<1>1. CASE UNCHANGED <<now, proposal>>
  BY <1>1 DEF ProposalInv, WorkingTimeAfter, StepsWorked, IsWithinWorkingHours, Weekday, HourOf
<1>2. CASE AskTeam
  <2>1. now' = now /\ proposal' = [at |-> "running", posted |-> now, due |-> Never]
    BY <1>2 DEF AskTeam, NoProposal
  <2>. QED
    BY <2>1 DEF ProposalInv, Never
<1>3. CASE InstallDeadline
  <2>. DEFINE due == WorkingTimeAfter(now, Consent)
  <2>1. now' = now /\ proposal' = [proposal EXCEPT !.at = "waiting", !.due = due]
    BY <1>3 DEF InstallDeadline
  <2>2. due \in Nat
    BY <1>0, WalkEnds DEF ProposalInv
  <2>3. proposal.at = "running" /\ now \in proposal.posted .. now /\ now \in Nat
    BY <1>3 DEF ProposalInv, InstallDeadline
  <2>. QED
    BY <2>1, <2>2, <2>3 DEF ProposalInv
<1>4. CASE ConsentBySilence
  BY <1>4 DEF ProposalInv, ConsentBySilence
<1>5. CASE Settle \/ (Restart /\ proposal.at = "running")
  <2>1. now' = now /\ proposal' = NoProposal
    BY <1>5 DEF Settle, Restart
  <2>. QED
    BY <1>0, <2>1 DEF ProposalInv
<1>6. CASE Pass
  <2>1. now' = now + 1 /\ proposal' = proposal /\ now \in Nat
    BY <1>6 DEF Pass, ProposalInv
  <2>2. proposal.posted .. now \subseteq proposal.posted .. now'
    BY <2>1 DEF ProposalInv
  <2>. QED
    BY <2>1, <2>2 DEF ProposalInv
<1>7. CASE Restart /\ proposal.at # "running"
  BY <1>1, <1>7 DEF Restart
<1>. QED
  BY <1>1, <1>2, <1>3, <1>4, <1>5, <1>6, <1>7 DEF Next, vars, Send, Dropped

\* The deadline of a proposal is where a walk of working_time_after ended, and
\* _consent_by_silence comes after it.
THEOREM ProposalInductive == Spec => []ProposalInv
<1>1. Init => ProposalInv
  BY CommunicatorAssumption DEF Init, ProposalInv, NoProposal, Never
<1>2. ProposalInv /\ [Next]_vars => ProposalInv'
  BY ProposalSteps
<1>. QED
  BY <1>1, <1>2, PTL DEF Spec

LEMMA AgreedAfterWorkingTime == ASSUME ProposalInv PROVE SilenceIsWorkingTime
<1>. DEFINE posted == proposal.posted
            days == {t \div DayLength : t \in {u \in posted .. now : IsWithinWorkingHours(u)}}
<1>. SUFFICES ASSUME proposal.at = "agreed"
              PROVE  \/ Worked(posted, now) + (Step - 1) * Cardinality(days) >= Consent
                     \/ now >= posted + CapDays * DayLength
  BY DEF SilenceIsWorkingTime
<1>1. /\ now \in Nat /\ posted \in Nat /\ posted <= now /\ Consent \in Nat
      /\ Step \in Nat \ {0} /\ DayLength \in Nat \ {0} /\ CapDays * DayLength \in Nat
  BY Calendar DEF ProposalInv
<1>2. PICK from \in posted .. now : proposal.due = WorkingTimeAfter(from, Consent)
  BY DEF ProposalInv
<1>. DEFINE due == WorkingTimeAfter(from, Consent)
<1>3. from \in Nat /\ due <= now
  BY <1>1, <1>2 DEF ProposalInv
<1>4. due \in Nat /\ from <= due
  BY <1>1, <1>3, WalkEnds
<1>5. Minutes(from, due) \in SUBSET Minutes(posted, now)
  <2>. HIDE DEF due, posted
  <2>1. from .. due - 1 \subseteq posted .. now - 1
    BY <1>1, <1>2, <1>3, <1>4
  <2>. QED
    BY <2>1 DEF Minutes
<1>6. IsFiniteSet(days)
  <2>1. IsFiniteSet(0 .. now \div DayLength)
    BY <1>1, DivMod, FS_Interval
  <2>2. ASSUME NEW u \in posted .. now
        PROVE  u \div DayLength \in 0 .. now \div DayLength
    <3>1. u \in Nat /\ u <= now
      BY <1>1
    <3>2. u \div DayLength \in Nat /\ now \div DayLength \in Nat
      BY <1>1, <3>1, DivMod
    <3>3. u \div DayLength <= now \div DayLength
      BY <1>1, <3>1, DivMonotone
    <3>. QED
      BY <3>2, <3>3
  <2>3. days \in SUBSET (0 .. now \div DayLength)
    BY <2>2
  <2>. QED
    BY <2>1, <2>3, FS_Subset
<1>7. \A t \in Minutes(from, due) : Day(t) \in days
  <2>1. \A t \in Minutes(from, due) : t \in posted .. now /\ IsWithinWorkingHours(t)
    <3>1. \A t \in Minutes(posted, now) : t \in posted .. now /\ IsWithinWorkingHours(t)
      BY <1>1 DEF Minutes
    <3>. QED
      BY <1>5, <3>1
  <2>. QED
    BY <2>1 DEF Day
<1>. HIDE DEF due, posted, days
<1>8. Cardinality(Minutes(from, due)) <= Worked(posted, now)
  <2>1. Worked(posted, now) = Cardinality(Minutes(posted, now))
    BY DEF Worked, Minutes
  <2>. QED
    BY <1>1, <1>5, <2>1, MinutesFinite, FS_Subset
<1>9. /\ Cardinality(Minutes(from, due)) \in Nat /\ Worked(posted, now) \in Nat
      /\ (Step - 1) * Cardinality(days) \in Nat
  <2>1. Worked(posted, now) \in Nat /\ Cardinality(Minutes(from, due)) \in Nat
    BY <1>1, <1>3, <1>4, MinutesFinite DEF Worked, Minutes
  <2>2. Cardinality(days) \in Nat
    BY <1>6, FS_CardinalityType
  <2>. QED
    BY <1>1, <2>1, <2>2, MoreTimes
<1>10. CASE from + CapDays * DayLength <= due
  BY <1>1, <1>2, <1>3, <1>4, <1>10
<1>11. CASE Consent <= Cardinality(Minutes(from, due)) + (Step - 1) * Cardinality(days)
  BY <1>1, <1>8, <1>9, <1>11
<1>12. \/ from + CapDays * DayLength <= due
       \/ Consent <= Cardinality(Minutes(from, due)) + (Step - 1) * Cardinality(days)
  <2>1. \/ from + CapDays * DayLength <= due
        \/ \A D : IsFiniteSet(D) /\ (\A t \in Minutes(from, due) : Day(t) \in D)
             => Consent <= Cardinality(Minutes(from, due)) + (Step - 1) * Cardinality(D)
    BY <1>1, <1>3, WalkEnds DEF due
  <2>. QED
    BY <1>6, <1>7, <2>1
<1>. QED
  BY <1>10, <1>11, <1>12

\* A proposal that working_time_after takes for agreed had its working time of
\* silence, but for less than a step on every working day, or two weeks: for
\* every calendar, a window that never opens included.
THEOREM ConsentTakesWorkingTime == Spec => []SilenceIsWorkingTime
<1>1. ProposalInv => SilenceIsWorkingTime
  BY AgreedAfterWorkingTime
<1>. QED
  BY <1>1, ProposalInductive, PTL
=============================================================================
