--------------------------- MODULE PlanningProofs ---------------------------
(***************************************************************************)
(* Proofs about PlanningRounds, for any trips, markets, answers of the     *)
(* assessors and the arbitrator, and settings of the pruning.              *)
(*                                                                         *)
(* The planner is a computation, so most of the work is in lemmas about    *)
(* its operators: selections keep what leads their ranking (LowestLeads,   *)
(* Pruned), every score and figure is a number (RowTypes), representatives *)
(* are taken from the rows (PicksIn, CheapAndClean), what searches find    *)
(* and merges keep are candidates, an id only once (SearchFinds,           *)
(* CaptureIn, MergedStock), and a repair leaves scores (AppliedScores).    *)
(* With them the invariant Inv is inductive: the input stays a request and *)
(* a plan under review is the planner's answer to that very input.  The    *)
(* veto needs an invariant of its own (VetoInv), and nothing of the above. *)
(***************************************************************************)
EXTENDS PlanningRounds, FiniteSetTheorems, WellFoundedInduction, TLAPS

(* A set of numbers has a least one. *)
LEMMA LeastNumber ==
    ASSUME NEW T, T \subseteq Nat, T # {}
    PROVE  \E m \in T : \A n \in T : m <= n
<1> DEFINE R == {p \in Nat \X Nat : p[1] < p[2]}
<1>1. IsWellFoundedOn(R, Nat)
    BY NatLessThanWellFounded, Zenon DEF OpToRel
<1>2. PICK m \in T : \A n \in T : <<n, m>> \notin R
    <2> HIDE DEF R
    <2> QED
        BY <1>1, WFMin
<1>3. ASSUME NEW n \in T
      PROVE  m <= n
    <2>1. n \in Nat /\ m \in Nat /\ (n < m => <<n, m>> \in R)
        OBVIOUS
    <2> QED
        BY <1>2, <2>1
<1> QED
    BY <1>3

(* Induction, for a set. *)
LEMMA Counting ==
    ASSUME NEW T, 0 \in T, \A n \in Nat : n \in T => n + 1 \in T
    PROVE  \A n \in Nat : n \in T
<1> DEFINE Out == {n \in Nat : n \notin T}
<1> SUFFICES ASSUME Out # {}
             PROVE  FALSE
    OBVIOUS
<1>1. PICK m \in Out : \A n \in Out : m <= n
    BY LeastNumber
<1>2. m # 0 /\ m \in Nat
    OBVIOUS
<1>3. m - 1 \in Nat /\ m - 1 \notin Out
    BY <1>1, <1>2
<1>4. (m - 1) + 1 \in T
    BY <1>3
<1> QED
    BY <1>2, <1>4

(* The steps of G taken from a, one after the other, staying in S. *)
Iterates(f, n, S, a, G) ==
    f \in [0 .. n -> S] /\ f[0] = a /\ \A k \in 1 .. n : f[k] = G[k][f[k-1]]

LEMMA Iteration ==
    ASSUME NEW S, NEW a \in S, NEW G, G \in [Nat -> [S -> S]], NEW n \in Nat
    PROVE  \E f : Iterates(f, n, S, a, G)
<1> DEFINE Runs(m) == {f \in [0 .. m -> S] :
                         f[0] = a /\ \A k \in 1 .. m : f[k] = G[k][f[k-1]]}
           T == {m \in Nat : Runs(m) # {}}
<1>1. 0 \in T
    <2>1. [k \in 0 .. 0 |-> a] \in Runs(0)
        OBVIOUS
    <2> QED
        BY <2>1
<1>2. ASSUME NEW m \in Nat, m \in T
      PROVE  m + 1 \in T
    <2>1. PICK f \in [0 .. m -> S] : f[0] = a /\ \A k \in 1 .. m : f[k] = G[k][f[k-1]]
        BY <1>2
    <2> DEFINE g == [k \in 0 .. m + 1 |-> IF k \in 0 .. m THEN f[k] ELSE G[m+1][f[m]]]
    <2>2. f[m] \in S /\ G[m+1] \in [S -> S]
        OBVIOUS
    <2>3. g \in [0 .. m + 1 -> S]
        BY <2>2
    <2>4. g[0] = a
        BY <2>1
    <2>5. ASSUME NEW k \in 1 .. m + 1
          PROVE  g[k] = G[k][g[k-1]]
        <3>1. CASE k = m + 1
            BY <3>1
        <3>2. CASE k \in 1 .. m
            BY <2>1, <3>2
        <3> QED
            BY <3>1, <3>2
    <2>6. g \in Runs(m + 1)
        <3> HIDE DEF g
        <3> QED
            BY <2>3, <2>4, <2>5
    <2> HIDE DEF Runs
    <2> QED
        BY <2>6
<1>3. n \in T
    <2>1. \A m \in Nat : m \in T => m + 1 \in T
        BY <1>2
    <2> HIDE DEF T
    <2> QED
        BY <1>1, <2>1, Counting
<1> QED
    BY <1>3 DEF Iterates

(* A finite set with a total preorder has a greatest element. *)
LEMMA Greatest ==
    ASSUME NEW S, IsFiniteSet(S), S # {}, NEW R,
           \A a, b \in S : <<a, b>> \in R \/ <<b, a>> \in R,
           \A a, b, c \in S : <<a, b>> \in R /\ <<b, c>> \in R => <<a, c>> \in R
    PROVE  \E m \in S : \A b \in S : <<m, b>> \in R
<1> DEFINE Topped(X) == \E m \in X : \A b \in X : <<m, b>> \in R
           T == {n \in Nat : \A X \in SUBSET S : Cardinality(X) = n /\ X # {} => Topped(X)}
<1>1. 0 \in T
    BY FS_Subset, FS_EmptySet
<1>2. ASSUME NEW n \in Nat, n \in T
      PROVE  n + 1 \in T
    <2> SUFFICES ASSUME NEW X \in SUBSET S, Cardinality(X) = n + 1, X # {}
                 PROVE  Topped(X)
        OBVIOUS
    <2>1. PICK x \in X : TRUE
        OBVIOUS
    <2>2. IsFiniteSet(X)
        BY FS_Subset
    <2>3. Cardinality(X \ {x}) = n /\ X \ {x} \in SUBSET S
        <3>1. Cardinality(X \ {x}) = Cardinality(X) - 1
            BY <2>2, FS_RemoveElement, Zenon
        <3> QED
            BY <3>1
    <2>4. CASE X \ {x} = {}
        <3>1. X = {x} /\ <<x, x>> \in R
            BY <2>4
        <3> QED
            BY <3>1
    <2>5. CASE X \ {x} # {}
        <3>1. Topped(X \ {x})
            BY <1>2, <2>3, <2>5
        <3>2. PICK m \in X \ {x} : \A b \in X \ {x} : <<m, b>> \in R
            BY <3>1
        <3>3. CASE <<m, x>> \in R
            BY <3>2, <3>3
        <3>4. CASE <<x, m>> \in R
            <4>1. \A b \in X : <<x, b>> \in R
                BY <3>2, <3>4
            <4> QED
                BY <4>1
        <3> QED
            BY <3>3, <3>4
    <2> QED
        BY <2>4, <2>5
<1>3. Cardinality(S) \in Nat /\ Cardinality(S) \in T
    <2>1. Cardinality(S) \in Nat
        BY FS_CardinalityType
    <2>2. \A n \in Nat : n \in T => n + 1 \in T
        BY <1>2
    <2> HIDE DEF T
    <2> QED
        BY <2>1, <2>2, <1>1, Counting
<1> QED
    BY <1>3

(* Extrema of finite sets of numbers. *)
LEMMA MaxOf ==
    ASSUME NEW S, IsFiniteSet(S), S # {}, S \subseteq Int
    PROVE  Max(S) \in S /\ \A x \in S : Max(S) >= x
<1> DEFINE R == {p \in S \X S : p[1] >= p[2]}
<1>1. /\ \A a, b \in S : <<a, b>> \in R \/ <<b, a>> \in R
      /\ \A a, b, c \in S : <<a, b>> \in R /\ <<b, c>> \in R => <<a, c>> \in R
    OBVIOUS
<1>2. PICK m \in S : \A b \in S : <<m, b>> \in R
    <2> HIDE DEF R
    <2> QED
        BY <1>1, Greatest
<1>3. \A b \in S : m >= b
    BY <1>2
<1> QED
    BY <1>3 DEF Max

(* The values of a function on a finite set are finitely many. *)
LEMMA FiniteImage ==
    ASSUME NEW S, IsFiniteSet(S), NEW f, S \subseteq DOMAIN f
    PROVE  IsFiniteSet({f[x] : x \in S})
<1> DEFINE T == {f[x] : x \in S}
           g == [x \in S |-> f[x]]
<1>1. g \in Surjection(S, T)
    BY DEF Surjection
<1> QED
    BY <1>1, FS_Surjection
-----------------------------------------------------------------------------
(* Pruning. *)

LEMMA LeaderIn ==
    ASSUME NEW options, NEW r
    PROVE  Leader(options, r) \subseteq options
BY DEF Leader

(* What is selected are options, the first of the first ranking included. *)
LEMMA Selected ==
    ASSUME NEW options, NEW limit \in Nat, NEW rankings, Len(rankings) \in Nat \ {0}
    PROVE  /\ SelectDiverse(options, limit, rankings) \subseteq options
           /\ limit # 0 => Leader(options, rankings[1])
                             \subseteq SelectDiverse(options, limit, rankings)
<1> DEFINE S == SUBSET options
           turn(k) == rankings[((k-1) % Len(rankings)) + 1]
           G == [k \in Nat |-> [X \in S |-> X \cup Leader(options \ X, turn(k))]]
<1>1. CASE limit >= Cardinality(options)
    BY <1>1, LeaderIn DEF SelectDiverse
<1>2. CASE ~(limit >= Cardinality(options))
    <2>1. G \in [Nat -> [S -> S]]
        <3>1. \A r : \A X \in S : X \cup Leader(options \ X, r) \in S
            BY LeaderIn
        <3> HIDE DEF S
        <3> QED
            BY <3>1
    <2>2. PICK f : Iterates(f, limit, S, {}, G)
        <3>1. {} \in S
            OBVIOUS
        <3> HIDE DEF G, S
        <3> QED
            BY <2>1, <3>1, Iteration
    <2>3. \A k \in 1 .. limit : f[k] = f[k-1] \cup Leader(options \ f[k-1], turn(k))
        <3> SUFFICES ASSUME NEW k \in 1 .. limit
                     PROVE  f[k] = f[k-1] \cup Leader(options \ f[k-1], turn(k))
            OBVIOUS
        <3>1. k-1 \in 0 .. limit /\ f[k-1] \in S /\ k \in Nat
            BY <2>2 DEF Iterates
        <3>2. f[k] = G[k][f[k-1]]
            BY <2>2 DEF Iterates
        <3> HIDE DEF S
        <3> QED
            BY <3>1, <3>2
    <2>4. f = [k \in 0 .. limit |->
                  IF k = 0 THEN {} ELSE f[k-1] \cup Leader(options \ f[k-1], turn(k))]
        <3>1. f = [k \in 0 .. limit |-> f[k]] /\ f[0] = {}
            BY <2>2 DEF Iterates
        <3>2. \A k \in 0 .. limit : k = 0 \/ k \in 1 .. limit
            OBVIOUS
        <3>3. \A k \in 0 .. limit :
                f[k] = IF k = 0 THEN {} ELSE f[k-1] \cup Leader(options \ f[k-1], turn(k))
            BY <2>3, <3>1, <3>2, Zenon
        <3> HIDE DEF turn, G, S
        <3> QED
            BY <3>1, <3>3
    <2> DEFINE Runs(t) == t = [k \in 0 .. limit |->
                  IF k = 0 THEN {} ELSE t[k-1] \cup Leader(options \ t[k-1], turn(k))]
               taken == CHOOSE t : Runs(t)
    <2>5. Runs(taken)
        BY <2>4
    <2>6. SelectDiverse(options, limit, rankings) = taken[limit]
        BY <1>2 DEF SelectDiverse
    <2>7. taken[0] = {} /\ \A k \in 1 .. limit : taken[k] = taken[k-1] \cup Leader(options \ taken[k-1], turn(k))
        <3>1. \A k \in 0 .. limit : taken[k] =
                  IF k = 0 THEN {} ELSE taken[k-1] \cup Leader(options \ taken[k-1], turn(k))
            <4> HIDE DEF taken, turn
            <4> QED
                BY <2>5
        <3>2. 0 \in 0 .. limit /\ \A k \in 1 .. limit : k \in 0 .. limit /\ k # 0
            OBVIOUS
        <3> HIDE DEF taken, turn
        <3> QED
            BY <3>1, <3>2, Zenon
    <2> HIDE DEF Runs, taken
    <2> DEFINE Kept(k) == taken[k] \subseteq options
                          /\ (k # 0 => Leader(options, rankings[1]) \subseteq taken[k])
               T == {k \in Nat : k <= limit => Kept(k)}
    <2>8. 0 \in T
        BY <2>7
    <2>9. ASSUME NEW k \in Nat, k \in T
          PROVE  k + 1 \in T
        <3> SUFFICES ASSUME k + 1 <= limit
                     PROVE  Kept(k + 1)
            OBVIOUS
        <3>1. Kept(k) /\ k + 1 \in 1 .. limit /\ (k + 1) - 1 = k
            BY <2>9
        <3>2. taken[k+1] = taken[k] \cup Leader(options \ taken[k], turn(k+1))
            BY <2>7, <3>1
        <3>3. Leader(options \ taken[k], turn(k+1)) \subseteq options
            BY LeaderIn
        <3>4. CASE k = 0
            <4>1. turn(k+1) = rankings[1]
                BY <3>4
            <4>2. taken[k] = {} /\ options \ {} = options
                BY <2>7, <3>4
            <4> HIDE DEF turn
            <4> QED
                BY <3>1, <3>2, <3>3, <3>4, <4>1, <4>2
        <3>5. CASE k # 0
            <4> HIDE DEF turn
            <4> QED
                BY <3>1, <3>2, <3>3, <3>5
        <3> QED
            BY <3>4, <3>5
    <2>10. limit \in T
        <3>1. \A k \in Nat : k \in T => k + 1 \in T
            BY <2>9
        <3> HIDE DEF T
        <3> QED
            BY <2>8, <3>1, Counting
    <2> QED
        BY <2>6, <2>10
<1> QED
    BY <1>1, <1>2

(* The first of a ranking that begins with the low numbers has the lowest. *)
LEMMA LowestLeads ==
    ASSUME NEW options, options # {}, NEW r, r.low = TRUE, r.of \in [options -> Nat],
           \A c \in options : c.id \in Nat, Unique(options)
    PROVE  \E c \in Leader(options, r) : \A d \in options : r.of[c] <= r.of[d]
<1> DEFINE of == r.of
           values == {of[c] : c \in options}
<1>1. PICK low \in values : \A n \in values : low <= n
    <2>1. values \subseteq Nat /\ values # {}
        OBVIOUS
    <2> HIDE DEF values
    <2> QED
        BY <2>1, LeastNumber
<1> DEFINE ids == {c.id : c \in {d \in options : of[d] = low}}
<1>2. PICK first \in ids : \A n \in ids : first <= n
    <2>1. ids \subseteq Nat /\ ids # {}
        OBVIOUS
    <2> HIDE DEF ids
    <2> QED
        BY <2>1, LeastNumber
<1>3. PICK c \in options : of[c] = low /\ c.id = first
    OBVIOUS
<1>4. ASSUME NEW d \in options \ {c}
      PROVE  Ahead(r, c, d)
    <2>1. of[d] \in Nat /\ d.id \in Nat /\ of[c] \in Nat /\ c.id \in Nat /\ d.id # c.id
        BY DEF Unique
    <2>2. of[c] <= of[d]
        BY <1>1, <1>3
    <2>3. CASE of[d] = low
        <3>1. first <= d.id
            BY <1>2, <2>3
        <3>2. (c.id < d.id) = TRUE
            BY <1>3, <2>1, <3>1
        <3> QED
            BY <1>3, <2>3, <3>2 DEF Ahead
    <2>4. CASE of[d] # low
        <3>1. (of[c] < of[d]) = TRUE
            BY <1>3, <2>1, <2>2, <2>4
        <3> QED
            BY <1>3, <2>4, <3>1 DEF Ahead
    <2> QED
        BY <2>3, <2>4
<1>5. c \in Leader(options, r)
    BY <1>4 DEF Leader
<1>6. \A d \in options : of[c] <= of[d]
    BY <1>1, <1>3
<1> QED
    BY <1>5, <1>6

(* No dimension that has an option loses them all. *)
LEMMA CapsPositive ==
    ASSUME NEW lengths, lengths \in [1 .. 3 -> Nat \ {0}]
    PROVE  Caps(lengths) \in [1 .. 3 -> Nat \ {0}]
<1> DEFINE S == [1 .. 3 -> Nat \ {0}]
<1> SUFFICES ASSUME NEW target
             PROVE  DimensionCaps(lengths, target) \in S
    BY DEF Caps
<1> DEFINE largest(c) == CHOOSE i \in 1..3 :
                            \A j \in 1..3 : c[i] > c[j] \/ (c[i] = c[j] /\ i <= j)
           shrunk(c) == IF Product(c) <= target \/ \A i \in 1..3 : c[i] <= 1 THEN c
                        ELSE [c EXCEPT ![largest(c)] = @ - 1]
           G == [k \in Nat |-> [c \in S |-> shrunk(c)]]
           steps == lengths[1] + lengths[2] + lengths[3]
<1>1. ASSUME NEW c \in S
      PROVE  shrunk(c) \in S
    <2>1. CASE Product(c) <= target \/ \A i \in 1..3 : c[i] <= 1
        BY <2>1
    <2>2. CASE ~(Product(c) <= target \/ \A i \in 1..3 : c[i] <= 1)
        <3>1. PICK k \in 1 .. 3 : ~(c[k] <= 1)
            BY <2>2
        <3>2. c[1] \in Nat \ {0} /\ c[2] \in Nat \ {0} /\ c[3] \in Nat \ {0}
            OBVIOUS
        <3>3. \E i \in 1..3 : \A j \in 1..3 : c[i] > c[j] \/ (c[i] = c[j] /\ i <= j)
            <4>1. CASE c[1] >= c[2] /\ c[1] >= c[3]
                <5>1. \A j \in 1..3 : c[1] > c[j] \/ (c[1] = c[j] /\ 1 <= j)
                    BY <3>2, <4>1
                <5> QED
                    BY <5>1
            <4>2. CASE c[2] > c[1] /\ c[2] >= c[3]
                <5>1. \A j \in 1..3 : c[2] > c[j] \/ (c[2] = c[j] /\ 2 <= j)
                    BY <3>2, <4>2
                <5> QED
                    BY <5>1
            <4>3. CASE c[3] > c[1] /\ c[3] > c[2]
                <5>1. \A j \in 1..3 : c[3] > c[j] \/ (c[3] = c[j] /\ 3 <= j)
                    BY <3>2, <4>3
                <5> QED
                    BY <5>1
            <4> QED
                BY <3>2, <4>1, <4>2, <4>3
        <3>4. /\ largest(c) \in 1 .. 3
              /\ \A j \in 1..3 : c[largest(c)] > c[j] \/ (c[largest(c)] = c[j] /\ largest(c) <= j)
            BY <3>3
        <3> HIDE DEF largest
        <3>5. c[largest(c)] \in Nat \ {0} /\ c[largest(c)] >= c[k] /\ c[k] \in Nat
            BY <3>4
        <3>6. c[largest(c)] - 1 \in Nat \ {0}
            BY <3>1, <3>5
        <3> QED
            BY <2>2, <3>4, <3>6
    <2> QED
        BY <2>1, <2>2
<1>2. G \in [Nat -> [S -> S]]
    <2> HIDE DEF S, shrunk
    <2> QED
        BY <1>1
<1>3. steps \in Nat
    OBVIOUS
<1>4. PICK f : Iterates(f, steps, S, lengths, G)
    <2>1. lengths \in S
        OBVIOUS
    <2> HIDE DEF S, G, steps
    <2> QED
        BY <1>2, <1>3, <2>1, Iteration
<1> DEFINE Runs(t) == t = [n \in 0 .. steps |-> IF n = 0 THEN lengths ELSE shrunk(t[n-1])]
           caps == CHOOSE t : Runs(t)
<1>5. Runs(f)
    <2>1. f = [n \in 0 .. steps |-> f[n]] /\ f[0] = lengths
        BY <1>4 DEF Iterates
    <2>2. ASSUME NEW n \in 1 .. steps
          PROVE  f[n] = shrunk(f[n-1])
        <3>1. n-1 \in 0 .. steps /\ f[n-1] \in S /\ n \in Nat
            BY <1>3, <1>4 DEF Iterates
        <3>2. f[n] = G[n][f[n-1]]
            BY <1>4 DEF Iterates
        <3> HIDE DEF S, shrunk
        <3> QED
            BY <3>1, <3>2
    <2>3. \A n \in 0 .. steps : n = 0 \/ n \in 1 .. steps
        BY <1>3
    <2>4. \A n \in 0 .. steps : f[n] = IF n = 0 THEN lengths ELSE shrunk(f[n-1])
        <3> HIDE DEF shrunk, S, G, steps
        <3> QED
            BY <2>1, <2>2, <2>3
    <2> HIDE DEF shrunk, S, G, steps
    <2> QED
        BY <2>1, <2>4
<1>6. Runs(caps)
    <2> HIDE DEF Runs
    <2> QED
        BY <1>5
<1>7. DimensionCaps(lengths, target) = caps[steps]
    BY DEF DimensionCaps
<1> HIDE DEF caps
<1>8. \A n \in 0 .. steps : caps[n] = IF n = 0 THEN lengths ELSE shrunk(caps[n-1])
    <2> HIDE DEF shrunk, S, G, steps
    <2> QED
        BY <1>6
<1> DEFINE T == {n \in Nat : n <= steps => caps[n] \in S}
<1> HIDE DEF Runs, S, shrunk, steps, G
<1>9. 0 \in T
    <2>1. 0 \in 0 .. steps
        BY <1>3
    <2>2. lengths \in S
        BY DEF S
    <2> QED
        BY <1>8, <2>1, <2>2
<1>10. ASSUME NEW n \in Nat, n \in T
       PROVE  n + 1 \in T
    <2> SUFFICES ASSUME n + 1 <= steps
                 PROVE  caps[n+1] \in S
        OBVIOUS
    <2>1. n + 1 \in 0 .. steps /\ n + 1 # 0 /\ (n + 1) - 1 = n /\ caps[n] \in S
        BY <1>3, <1>10
    <2>2. caps[n+1] = shrunk(caps[n])
        BY <1>8, <2>1
    <2> QED
        BY <1>1, <2>1, <2>2
<1>11. steps \in T
    <2>1. \A n \in Nat : n \in T => n + 1 \in T
        BY <1>10
    <2> HIDE DEF T
    <2> QED
        BY <1>3, <1>9, <2>1, Counting
<1> QED
    BY <1>3, <1>7, <1>11

(* Candidates with ids of their own are finitely many. *)
LEMMA FewCandidates ==
    ASSUME NEW C, NEW Ids, IsFiniteSet(Ids), \A c \in C : c.id \in Ids, Unique(C)
    PROVE  IsFiniteSet(C)
<1> DEFINE f == [c \in C |-> c.id]
<1>1. f \in Injection(C, Ids)
    BY DEF Injection, Unique, IsInjective
<1> QED
    BY <1>1, FS_Injection

(* A search space of candidates, with all three dimensions filled. *)
Filled(space) ==
    /\ space.out \subseteq Legs /\ space.out # {} /\ Unique(space.out)
    /\ space.back \subseteq Legs /\ space.back # {} /\ Unique(space.back)
    /\ space.hotels \subseteq Stays /\ space.hotels # {} /\ Unique(space.hotels)

Undercuts(c, options) == \A d \in options : c.price <= d.price
UndercutsPriced(c, options) == \A d \in options : d.price > 0 => c.price <= d.price

LEMMA LegFields ==
    ASSUME NEW o \in Legs
    PROVE  /\ o.id \in TransportIds /\ o.id \in Nat /\ o.price \in Nat
           /\ o.departs \in Int /\ o.arrives \in Int
<1>1. o.id \in TransportIds /\ o.price \in Nat /\ o.departs \in Hours /\ o.arrives \in Hours
    BY DEF Legs
<1>2. Hours \subseteq Int
    BY DEF Hours, Unknown
<1>3. TransportIds \subseteq Nat
    BY RoundsAssumption
<1> QED
    BY <1>1, <1>2, <1>3

LEMMA StayFields ==
    ASSUME NEW h \in Stays
    PROVE  h.id \in HotelIds /\ h.id \in Nat /\ h.price \in Nat /\ h.nights \in Nat
BY RoundsAssumption DEF Stays

LEMMA SpaceFinite ==
    ASSUME NEW space, Filled(space)
    PROVE  IsFiniteSet(space.out) /\ IsFiniteSet(space.back) /\ IsFiniteSet(space.hotels)
<1>1. /\ \A c \in space.out : c.id \in TransportIds
      /\ \A c \in space.back : c.id \in TransportIds
      /\ \A c \in space.hotels : c.id \in HotelIds
    BY LegFields, StayFields DEF Filled
<1> QED
    BY <1>1, FewCandidates, RoundsAssumption DEF Filled

(* One dimension: what is kept are options, one of the lowest of the first *)
(* ranking among them.                                                     *)
LEMMA LowestSelected ==
    ASSUME NEW options, options # {}, \A c \in options : c.id \in Nat,
           Unique(options), NEW limit \in Nat \ {0}, NEW rankings,
           Len(rankings) \in Nat \ {0}, rankings[1].low = TRUE,
           rankings[1].of \in [options -> Nat]
    PROVE  /\ SelectDiverse(options, limit, rankings) \subseteq options
           /\ \E c \in SelectDiverse(options, limit, rankings) :
                 \A d \in options : rankings[1].of[c] <= rankings[1].of[d]
<1>1. PICK c \in Leader(options, rankings[1]) :
            \A d \in options : rankings[1].of[c] <= rankings[1].of[d]
    BY LowestLeads
<1> QED
    BY <1>1, Selected

LEMMA CheapestSelected ==
    ASSUME NEW options, options # {}, \A c \in options : c.price \in Nat /\ c.id \in Nat,
           Unique(options), NEW limit \in Nat \ {0}, NEW rankings,
           Len(rankings) \in Nat \ {0}, rankings[1].low = TRUE,
           rankings[1].of = [o \in options |-> o.price]
    PROVE  /\ SelectDiverse(options, limit, rankings) \subseteq options
           /\ \E c \in SelectDiverse(options, limit, rankings) : Undercuts(c, options)
<1>1. /\ rankings[1].of \in [options -> Nat]
      /\ \A c \in options : rankings[1].of[c] = c.price
    OBVIOUS
<1>2. /\ SelectDiverse(options, limit, rankings) \subseteq options
      /\ \E c \in SelectDiverse(options, limit, rankings) :
            \A d \in options : rankings[1].of[c] <= rankings[1].of[d]
    BY <1>1, LowestSelected
<1> QED
    BY <1>1, <1>2 DEF Undercuts

(* A hotel that is first by its nightly price undercuts the priced ones.   *)
LEMMA NightlyPrice ==
    ASSUME NEW options, IsFiniteSet(options), \A c \in options : c.price \in Nat
    PROVE  /\ \A c \in options : Nightly(c, options) \in Nat
           /\ \A c \in options :
                 (\A d \in options : Nightly(c, options) <= Nightly(d, options))
                    => UndercutsPriced(c, options)
<1> DEFINE price == [o \in options |-> o.price]
           prices == {o.price : o \in options}
           dearest == Max(prices)
<1> SUFFICES ASSUME NEW c \in options
             PROVE  /\ Nightly(c, options) \in Nat
                    /\ (\A d \in options : Nightly(c, options) <= Nightly(d, options))
                          => UndercutsPriced(c, options)
    OBVIOUS
<1>1. dearest \in Nat /\ \A d \in options : d.price <= dearest
    <2>1. IsFiniteSet(prices)
        <3>1. options \subseteq DOMAIN price /\ prices = {price[o] : o \in options}
            OBVIOUS
        <3> HIDE DEF price, prices
        <3> QED
            BY <3>1, FiniteImage
    <2>2. prices # {} /\ prices \subseteq Nat /\ \A d \in options : d.price \in prices
        OBVIOUS
    <2> HIDE DEF prices
    <2>3. prices \subseteq Int
        BY <2>2
    <2>4. dearest \in prices /\ \A x \in prices : dearest >= x
        BY <2>1, <2>2, <2>3, MaxOf
    <2> HIDE DEF dearest
    <2> QED
        BY <2>2, <2>4
<1>2. \A d \in options : Nightly(d, options) = IF d.price = 0 THEN dearest + 1 ELSE d.price
    BY DEF Nightly
<1> HIDE DEF dearest
<1>3. ASSUME \A d \in options : Nightly(c, options) <= Nightly(d, options),
             NEW d \in options, d.price > 0
      PROVE  c.price <= d.price
    <2>1. Nightly(c, options) <= Nightly(d, options)
        BY <1>3
    <2>2. Nightly(d, options) = d.price /\ d.price <= dearest /\ d.price \in Nat
        BY <1>1, <1>2, <1>3
    <2>3. c.price \in Nat
        OBVIOUS
    <2> QED
        BY <1>1, <1>2, <2>1, <2>2, <2>3
<1> QED
    BY <1>1, <1>2, <1>3 DEF UndercutsPriced

LEMMA Pruned ==
    ASSUME NEW space, Filled(space), NEW scores, NEW policy, NEW kept,
           kept = Prune(space, scores, policy)
    PROVE  /\ kept.out \subseteq space.out /\ \E c \in kept.out : Undercuts(c, space.out)
           /\ kept.back \subseteq space.back /\ \E c \in kept.back : Undercuts(c, space.back)
           /\ kept.hotels \subseteq space.hotels
           /\ \E c \in kept.hotels : UndercutsPriced(c, space.hotels)
<1> DEFINE lengths == <<Cardinality(space.out), Cardinality(space.hotels), Cardinality(space.back)>>
           caps == Caps(lengths)
<1>1. lengths \in [1 .. 3 -> Nat \ {0}]
    <2>1. /\ Cardinality(space.out) \in Nat \ {0} /\ Cardinality(space.hotels) \in Nat \ {0}
          /\ Cardinality(space.back) \in Nat \ {0}
        BY SpaceFinite, FS_CardinalityType, FS_EmptySet DEF Filled
    <2> QED
        BY <2>1
<1>2. caps[1] \in Nat \ {0} /\ caps[2] \in Nat \ {0} /\ caps[3] \in Nat \ {0}
    <2> HIDE DEF lengths
    <2>1. caps \in [1 .. 3 -> Nat \ {0}]
        BY <1>1, CapsPositive
    <2> HIDE DEF caps
    <2> QED
        BY <2>1
<1>3. /\ kept.out = SelectDiverse(space.out, caps[1], TransportRankings(space.out, scores, policy))
      /\ kept.hotels = SelectDiverse(space.hotels, caps[2], HotelRankings(space.hotels, scores, policy))
      /\ kept.back = SelectDiverse(space.back, caps[3], TransportRankings(space.back, scores, policy))
    BY DEF Prune
<1>4. \A options : LET r == TransportRankings(options, scores, policy)
                   IN  /\ Len(r) \in Nat \ {0} /\ r[1].low = TRUE
                       /\ r[1].of = [o \in options |-> o.price]
    BY DEF TransportRankings
<1>5. \A options : LET r == HotelRankings(options, scores, policy)
                   IN  /\ Len(r) \in Nat \ {0} /\ r[1].low = TRUE
                       /\ r[1].of = [h \in options |-> Nightly(h, options)]
    BY DEF HotelRankings
<1> HIDE DEF caps
<1>6. kept.out \subseteq space.out /\ \E c \in kept.out : Undercuts(c, space.out)
    <2> DEFINE r == TransportRankings(space.out, scores, policy)
    <2>1. /\ Len(r) \in Nat \ {0} /\ r[1].low = TRUE
          /\ r[1].of = [o \in space.out |-> o.price]
        BY <1>4
    <2>2. /\ space.out # {} /\ Unique(space.out)
          /\ \A c \in space.out : c.price \in Nat /\ c.id \in Nat
        BY LegFields DEF Filled
    <2> HIDE DEF r
    <2>3. SelectDiverse(space.out, caps[1], r) \subseteq space.out
          /\ \E c \in SelectDiverse(space.out, caps[1], r) : Undercuts(c, space.out)
        BY <1>2, <2>1, <2>2, CheapestSelected
    <2> QED
        BY <1>3, <2>3 DEF r
<1>7. kept.back \subseteq space.back /\ \E c \in kept.back : Undercuts(c, space.back)
    <2> DEFINE r == TransportRankings(space.back, scores, policy)
    <2>1. /\ Len(r) \in Nat \ {0} /\ r[1].low = TRUE
          /\ r[1].of = [o \in space.back |-> o.price]
        BY <1>4
    <2>2. /\ space.back # {} /\ Unique(space.back)
          /\ \A c \in space.back : c.price \in Nat /\ c.id \in Nat
        BY LegFields DEF Filled
    <2> HIDE DEF r
    <2>3. SelectDiverse(space.back, caps[3], r) \subseteq space.back
          /\ \E c \in SelectDiverse(space.back, caps[3], r) : Undercuts(c, space.back)
        BY <1>2, <2>1, <2>2, CheapestSelected
    <2> QED
        BY <1>3, <2>3 DEF r
<1>8. kept.hotels \subseteq space.hotels
      /\ \E c \in kept.hotels : UndercutsPriced(c, space.hotels)
    <2> DEFINE r == HotelRankings(space.hotels, scores, policy)
               nightly(h) == Nightly(h, space.hotels)
    <2>1. /\ Len(r) \in Nat \ {0} /\ r[1].low = TRUE
          /\ r[1].of = [h \in space.hotels |-> nightly(h)]
        BY <1>5
    <2>2. /\ space.hotels # {} /\ Unique(space.hotels)
          /\ \A c \in space.hotels : c.price \in Nat /\ c.id \in Nat
        BY StayFields DEF Filled
    <2>3. /\ \A c \in space.hotels : nightly(c) \in Nat
          /\ \A c \in space.hotels : (\A d \in space.hotels : nightly(c) <= nightly(d))
                                       => UndercutsPriced(c, space.hotels)
        BY <2>2, SpaceFinite, NightlyPrice
    <2> HIDE DEF r, nightly
    <2>4. r[1].of \in [space.hotels -> Nat] /\ \A c \in space.hotels : r[1].of[c] = nightly(c)
        BY <2>1, <2>3
    <2>5. /\ SelectDiverse(space.hotels, caps[2], r) \subseteq space.hotels
          /\ \E c \in SelectDiverse(space.hotels, caps[2], r) :
                \A d \in space.hotels : r[1].of[c] <= r[1].of[d]
        BY <1>2, <2>1, <2>2, <2>4, LowestSelected
    <2>6. PICK c \in SelectDiverse(space.hotels, caps[2], r) :
                \A d \in space.hotels : r[1].of[c] <= r[1].of[d]
        BY <2>5
    <2>7. UndercutsPriced(c, space.hotels)
        BY <2>3, <2>4, <2>5, <2>6
    <2> QED
        BY <1>3, <2>5, <2>6, <2>7 DEF r
<1> QED
    BY <1>6, <1>7, <1>8
-----------------------------------------------------------------------------
(* Scores. *)

LEMMA MinOf ==
    ASSUME NEW S, IsFiniteSet(S), S # {}, S \subseteq Int
    PROVE  Min(S) \in S /\ \A x \in S : Min(S) <= x
<1> DEFINE R == {p \in S \X S : p[1] <= p[2]}
<1>1. /\ \A a, b \in S : <<a, b>> \in R \/ <<b, a>> \in R
      /\ \A a, b, c \in S : <<a, b>> \in R /\ <<b, c>> \in R => <<a, c>> \in R
    OBVIOUS
<1>2. PICK m \in S : \A b \in S : <<m, b>> \in R
    <2> HIDE DEF R
    <2> QED
        BY <1>1, Greatest
<1>3. \A b \in S : m <= b
    BY <1>2
<1> QED
    BY <1>3 DEF Min

LEMMA NotNegative ==
    ASSUME NEW x \in Int
    PROVE  Max({0, x}) \in Int
<1>1. CASE 0 >= x
    BY <1>1 DEF Max
<1>2. CASE x >= 0
    BY <1>2 DEF Max
<1> QED
    BY <1>1, <1>2

LEMMA AtMost ==
    ASSUME NEW a \in Int, NEW x \in Int
    PROVE  Min({a, x}) \in Int
<1>1. CASE a <= x
    BY <1>1 DEF Min
<1>2. CASE x <= a
    BY <1>2 DEF Min
<1> QED
    BY <1>1, <1>2

LEMMA EntryType ==
    ASSUME NEW x \in Int
    PROVE  Entry(x) \in Int
<1> DEFINE m == Min({100, x})
<1>1. m \in Int
    BY AtMost
<1>2. Entry(x) = Max({0, m})
    BY DEF Entry
<1> HIDE DEF m
<1> QED
    BY <1>1, <1>2, NotNegative

LEMMA PointsType ==
    ASSUME NEW c, NEW wishes, NEW w \in Wishes
    PROVE  Points(c, wishes, w) \in Int
<1>1. Gain[w] \in Int /\ Loss[w] \in Int
    BY DEF Gain, Loss, Wishes
<1>2. -Loss[w] \in Int
    BY <1>1
<1> QED
    BY <1>1, <1>2 DEF Points

LEMMA RuleType ==
    ASSUME NEW c, NEW wishes
    PROVE  ScoreTransport(c, wishes) \in Int /\ ScoreHotel(c, wishes) \in Int
<1>1. {"direct", "refund", "slot", "token", "kind", "brand", "room", "breakfast", "near", "star"}
        \subseteq Wishes
    BY DEF Wishes, Gain
<1> DEFINE of(w) == Points(c, wishes, w)
<1>2. \A w \in {"direct", "refund", "slot", "token", "kind", "brand", "room", "breakfast",
                "near", "star"} : of(w) \in Int
    BY <1>1, PointsType
<1>3. /\ ScoreTransport(c, wishes) =
           Entry(50 + of("direct") + of("refund") + of("slot") + of("token") + of("kind"))
      /\ ScoreHotel(c, wishes) =
           Entry(50 + of("brand") + of("room") + of("breakfast") + of("near") + of("star"))
    BY DEF ScoreTransport, ScoreHotel
<1> HIDE DEF of
<1>4. /\ 50 + of("direct") + of("refund") + of("slot") + of("token") + of("kind") \in Int
      /\ 50 + of("brand") + of("room") + of("breakfast") + of("near") + of("star") \in Int
    BY <1>2
<1> QED
    BY <1>3, <1>4, EntryType

(* Every candidate of the search space has a score. *)
LEMMA ScoresType ==
    ASSUME NEW trip, Request(trip), NEW c,
           c \in SearchSpace(trip).out \cup SearchSpace(trip).back \cup SearchSpace(trip).hotels
    PROVE  Scores(trip)[c.id] \in Int
<1> DEFINE space == SearchSpace(trip)
           transports == space.out \cup space.back
           ids == {o.id : o \in transports \cup space.hotels}
           given == [id \in ids |-> IF id \in DOMAIN trip.given THEN trip.given[id] ELSE 0]
           scored == ScoreCandidates(transports, space.hotels, trip.wishes, trip.supplied)
           base == IF trip.given = << >> THEN scored ELSE given
<1> HIDE DEF space
<1>1. c.id \in ids
    BY DEF space
<1>2. \A id \in ids : given[id] \in Int
    BY DEF Request, Scoring
<1>3. DOMAIN scored = ids /\ \A id \in ids : scored[id] \in Int
    <2>1. DOMAIN scored = ids
        BY DEF ScoreCandidates
    <2>2. ASSUME NEW id \in ids
          PROVE  scored[id] \in Int
        <3>1. \/ \E o : scored[id] \in {ScoreHotel(o, trip.wishes), ScoreTransport(o, trip.wishes)}
              \/ id \in DOMAIN trip.supplied /\ scored[id] = Entry(trip.supplied[id])
            BY DEF ScoreCandidates
        <3> HIDE DEF scored
        <3> QED
            BY <3>1, RuleType, EntryType DEF Request, Scoring
    <2> QED
        BY <2>1, <2>2
<1> HIDE DEF scored
<1>4. DOMAIN base = ids /\ \A id \in ids : base[id] \in Int
    BY <1>2, <1>3
<1>5. Scores(trip) = Overridden(base, trip.overrides)
    BY DEF Scores, space, scored
<1> HIDE DEF base, ids
<1>6. Scores(trip)[c.id] =
          IF c.id \in DOMAIN trip.overrides THEN Entry(trip.overrides[c.id]) ELSE base[c.id]
    BY <1>1, <1>4, <1>5 DEF Overridden
<1> QED
    BY <1>1, <1>4, <1>6, EntryType DEF Request, Scoring
-----------------------------------------------------------------------------
(* The rows of the combinations, and the representatives among them. *)

LEMMA Percentage ==
    ASSUME NEW all, IsFiniteSet(all), all \subseteq Int, NEW value \in all, NEW higher
    PROVE  MinMax(value, all, higher) \in Int
<1> DEFINE low == Min(all)
           high == Max(all)
           up == (10000 * (value - low)) \div (high - low)
<1>1. low \in Int /\ high \in Int /\ low <= value /\ value <= high
    BY MinOf, MaxOf
<1>2. MinMax(value, all, higher) =
          IF high = low THEN 10000 ELSE IF higher THEN up ELSE 10000 - up
    BY DEF MinMax
<1> HIDE DEF low, high
<1>3. ASSUME high # low
      PROVE  up \in Int /\ 10000 - up \in Int
    <2>1. high - low \in Nat \ {0} /\ 10000 * (value - low) \in Int
        BY <1>1, <1>3
    <2> QED
        BY <2>1
<1> HIDE DEF up
<1> QED
    BY <1>2, <1>3

LEMMA DurationType ==
    ASSUME NEW o \in Legs
    PROVE  Duration(o) \in Int
<1> DEFINE d == o.arrives - o.departs
<1>1. d \in Int
    BY LegFields
<1>2. Duration(o) = Max({0, d}) \/ Duration(o) = -1
    BY DEF Duration, Unknown
<1> HIDE DEF d
<1> QED
    BY <1>1, <1>2, NotNegative

(* Combinations of legs and stays. *)
Combos == [out : Legs, hotel : Stays, back : Legs]

LEMMA FigureTypes ==
    ASSUME NEW c \in Combos, NEW storm
    PROVE  /\ TotalPrice(c) \in Nat /\ TotalTransit(c) \in Int
           /\ Experience(c, storm).score \in Int /\ Experience(c, storm).flagged \in BOOLEAN
<1>1. c.out \in Legs /\ c.hotel \in Stays /\ c.back \in Legs
    BY DEF Combos
<1>2. TotalPrice(c) \in Nat
    <2>1. c.out.price \in Nat /\ c.back.price \in Nat /\ c.hotel.price \in Nat /\ c.hotel.nights \in Nat
        BY <1>1, LegFields, StayFields
    <2>2. Stayed(c.hotel) \in Nat
        BY <2>1 DEF Stayed
    <2>3. c.hotel.price * Stayed(c.hotel) \in Nat
        BY <2>1, <2>2
    <2> QED
        BY <2>1, <2>3 DEF TotalPrice
<1>3. TotalTransit(c) \in Int
    <2>1. Duration(c.out) \in Int /\ Duration(c.back) \in Int
        BY <1>1, DurationType
    <2> QED
        BY <2>1 DEF TotalTransit
<1> DEFINE feeling == Experience(c, storm)
<1>4. PICK off \in Int : feeling = [score |-> Max({0, 100 - off}), flagged |-> off > 0]
    <2> DEFINE redEye(o) == o.kind = "flight" /\ RedEye(o)
               long(o) == IF Duration(o) >= 6 THEN 25 ELSE IF Duration(o) >= 4 THEN 15 ELSE 0
               late == Known(c.out.arrives) /\ c.out.arrives % 24 >= 21
               last == c.back.kind = "flight" /\ Known(c.back.departs) /\ c.back.departs % 24 >= 21
               windy == storm /\ "flight" \in {c.out.kind, c.back.kind}
               off == 30 * (Flag(redEye(c.out)) + Flag(redEye(c.back))) + 15 * Flag(late)
                      + 10 * Flag(last) + long(c.out) + long(c.back) + 25 * Flag(windy)
    <2>1. feeling = [score |-> Max({0, 100 - off}), flagged |-> off > 0]
        BY DEF Experience
    <2>2. \A b : Flag(b) \in Int
        BY DEF Flag
    <2>3. long(c.out) \in Int /\ long(c.back) \in Int
        OBVIOUS
    <2> HIDE DEF redEye, long, late, last, windy
    <2>4. off \in Int
        BY <2>2, <2>3
    <2> HIDE DEF off
    <2> QED
        BY <2>1, <2>4
<1>5. 100 - off \in Int /\ (off > 0) \in BOOLEAN
    OBVIOUS
<1>6. feeling.score = Max({0, 100 - off}) /\ feeling.flagged = (off > 0)
    BY <1>4
<1> HIDE DEF feeling
<1>7. feeling.score \in Int /\ feeling.flagged \in BOOLEAN
    <2> DEFINE rest == 100 - off
    <2>1. rest \in Int
        BY <1>5
    <2> HIDE DEF rest
    <2>2. Max({0, rest}) \in Int
        BY <2>1, NotNegative
    <2> QED
        BY <1>5, <1>6, <2>2 DEF rest
<1> QED
    BY <1>2, <1>3, <1>7 DEF feeling

LEMMA PolicyScoreType ==
    ASSUME NEW c, NEW policy
    PROVE  PolicyScore(c, policy) \in Int
<1> DEFINE violations == Flag(~PriceFits(c.hotel, policy)) + Flag(TotalPrice(c) > policy.threshold)
           warnings == Flag(~StarsFit(c.hotel, policy)) + Flag(~ClassFits(c.out, policy))
                       + Flag(~ClassFits(c.back, policy))
           left == 100 - 40 * violations - 15 * warnings
<1>1. violations \in Int /\ warnings \in Int
    <2>1. \A b : Flag(b) \in Int
        BY DEF Flag
    <2> QED
        BY <2>1
<1>2. PolicyScore(c, policy) = Max({0, left})
    BY DEF PolicyScore
<1> HIDE DEF violations, warnings
<1>3. left \in Int
    BY <1>1
<1> HIDE DEF left
<1> QED
    BY <1>2, <1>3, NotNegative

(* What the representatives are chosen by. *)
Columns == {"price", "time", "preference", "overall"}

RowFields(r) ==
    /\ \A column \in Columns : r[column] \in Int
    /\ r.price \in Nat /\ r.flagged \in BOOLEAN

LEMMA RowTypes ==
    ASSUME NEW combos, combos \subseteq Combos, IsFiniteSet(combos), NEW scores,
           \A c \in combos : /\ scores[c.out.id] \in Int /\ scores[c.hotel.id] \in Int
                             /\ scores[c.back.id] \in Int,
           NEW policy, NEW storm
    PROVE  LET rows == Scored(combos, scores, policy, storm)
           IN  /\ IsFiniteSet(rows)
               /\ \A r \in rows : /\ r.combo \in combos /\ r.price = TotalPrice(r.combo)
                                  /\ RowFields(r)
               /\ \A c \in combos : \E r \in rows : r.combo = c
<1> DEFINE prices == {TotalPrice(c) : c \in combos}
           times == {TotalTransit(c) : c \in combos}
           feelings == {Experience(c, storm).score : c \in combos}
           preference(c) == ((scores[c.out.id] + scores[c.hotel.id] + scores[c.back.id]) * 100) \div 3
           up(c) == 20 * MinMax(TotalTransit(c), times, FALSE) + 10 * MinMax(TotalPrice(c), prices, FALSE)
                    + 40 * preference(c)
                    + 30 * MinMax(Experience(c, storm).score, feelings, TRUE)
           overall(c) == up(c) \div 100 - (100 - PolicyScore(c, policy)) * PenaltyPercent
           row == [c \in combos |->
                     [combo |-> c, price |-> TotalPrice(c), time |-> TotalTransit(c),
                      preference |-> preference(c), overall |-> Max({0, overall(c)}),
                      flagged |-> Experience(c, storm).flagged]]
           rows == {row[c] : c \in combos}
<1>1. Scored(combos, scores, policy, storm) = rows
    BY DEF Scored
<1>2. IsFiniteSet(rows)
    <2>1. combos \subseteq DOMAIN row
        OBVIOUS
    <2> HIDE DEF row
    <2> QED
        BY <2>1, FiniteImage
<1>3. ASSUME NEW c \in combos
      PROVE  preference(c) \in Int /\ overall(c) \in Int
    <2>1. /\ TotalPrice(c) \in prices /\ TotalTransit(c) \in times
          /\ Experience(c, storm).score \in feelings
        OBVIOUS
    <2>2. /\ prices \subseteq Int /\ times \subseteq Int /\ feelings \subseteq Int
        <3>1. \A d \in combos : /\ TotalPrice(d) \in Int /\ TotalTransit(d) \in Int
                                 /\ Experience(d, storm).score \in Int
            BY FigureTypes
        <3> QED
            BY <3>1
    <2>3. IsFiniteSet(prices) /\ IsFiniteSet(times) /\ IsFiniteSet(feelings)
        <3> DEFINE price == [d \in combos |-> TotalPrice(d)]
                   time == [d \in combos |-> TotalTransit(d)]
                   feeling == [d \in combos |-> Experience(d, storm).score]
        <3>1. IsFiniteSet({price[d] : d \in combos})
            <4>1. combos \subseteq DOMAIN price
                OBVIOUS
            <4> HIDE DEF price
            <4> QED
                BY <4>1, FiniteImage
        <3>2. IsFiniteSet({time[d] : d \in combos})
            <4>1. combos \subseteq DOMAIN time
                OBVIOUS
            <4> HIDE DEF time
            <4> QED
                BY <4>1, FiniteImage
        <3>3. IsFiniteSet({feeling[d] : d \in combos})
            <4>1. combos \subseteq DOMAIN feeling
                OBVIOUS
            <4> HIDE DEF feeling
            <4> QED
                BY <4>1, FiniteImage
        <3>4. /\ prices = {price[d] : d \in combos} /\ times = {time[d] : d \in combos}
              /\ feelings = {feeling[d] : d \in combos}
            OBVIOUS
        <3> QED
            BY <3>1, <3>2, <3>3, <3>4
    <2> HIDE DEF prices, times, feelings
    <2>4. /\ MinMax(TotalTransit(c), times, FALSE) \in Int
          /\ MinMax(TotalPrice(c), prices, FALSE) \in Int
          /\ MinMax(Experience(c, storm).score, feelings, TRUE) \in Int
        BY <2>1, <2>2, <2>3, Percentage
    <2>5. preference(c) \in Int
        <3>1. scores[c.out.id] \in Int /\ scores[c.hotel.id] \in Int /\ scores[c.back.id] \in Int
            OBVIOUS
        <3> QED
            BY <3>1
    <2> HIDE DEF preference
    <2>6. up(c) \in Int
        <3> DEFINE a == MinMax(TotalTransit(c), times, FALSE)
                   b == MinMax(TotalPrice(c), prices, FALSE)
                   d == preference(c)
                   e == MinMax(Experience(c, storm).score, feelings, TRUE)
        <3>1. a \in Int /\ b \in Int /\ d \in Int /\ e \in Int
            BY <2>4, <2>5
        <3>2. up(c) = 20 * a + 10 * b + 40 * d + 30 * e
            OBVIOUS
        <3> HIDE DEF a, b, d, e, up
        <3> QED
            BY <3>1, <3>2
    <2> HIDE DEF up
    <2>7. (100 - PolicyScore(c, policy)) * PenaltyPercent \in Int
        BY PlannerAssumption, PolicyScoreType
    <2> QED
        BY <2>5, <2>6, <2>7
<1>4. ASSUME NEW c \in combos
      PROVE  /\ row[c].combo = c /\ row[c].price = TotalPrice(c)
             /\ RowFields(row[c])
    <2>1. /\ row[c].combo = c /\ row[c].price = TotalPrice(c) /\ row[c].time = TotalTransit(c)
          /\ row[c].preference = preference(c) /\ row[c].overall = Max({0, overall(c)})
          /\ row[c].flagged = Experience(c, storm).flagged
        OBVIOUS
    <2> HIDE DEF row, preference, overall
    <2>2. Max({0, overall(c)}) \in Int
        <3> DEFINE x == overall(c)
        <3>1. x \in Int
            BY <1>3
        <3> HIDE DEF x
        <3>2. Max({0, x}) \in Int
            BY <3>1, NotNegative
        <3> QED
            BY <3>2 DEF x
    <2> QED
        BY <1>3, <2>1, <2>2, FigureTypes DEF RowFields, Columns
<1> HIDE DEF row
<1> QED
    BY <1>1, <1>2, <1>4

LEMMA LowestIn ==
    ASSUME NEW rows, IsFiniteSet(rows), rows # {}, \A r \in rows : RowFields(r),
           NEW key \in Columns, NEW tie \in Columns
    PROVE  /\ Lowest(rows, key, tie) \in rows
           /\ \A s \in rows : Lowest(rows, key, tie)[key] <= s[key]
<1> DEFINE below(r, s) == r[key] < s[key] \/ (r[key] = s[key] /\ r[tie] <= s[tie])
           R == {p \in rows \X rows : below(p[1], p[2])}
<1>1. \A r \in rows : r[key] \in Int /\ r[tie] \in Int
    BY DEF RowFields
<1>2. \A a, b \in rows : <<a, b>> \in R <=> below(a, b)
    OBVIOUS
<1>3. /\ \A a, b \in rows : below(a, b) \/ below(b, a)
      /\ \A a, b, c \in rows : below(a, b) /\ below(b, c) => below(a, c)
    BY <1>1
<1> HIDE DEF R
<1>4. PICK m \in rows : \A b \in rows : <<m, b>> \in R
    <2> HIDE DEF below
    <2>1. /\ \A a, b \in rows : <<a, b>> \in R \/ <<b, a>> \in R
          /\ \A a, b, c \in rows : <<a, b>> \in R /\ <<b, c>> \in R => <<a, c>> \in R
        BY <1>2, <1>3
    <2> QED
        BY <2>1, Greatest
<1>5. \A b \in rows : below(m, b)
    BY <1>2, <1>4
<1> DEFINE low == Lowest(rows, key, tie)
<1>6. low \in rows /\ \A b \in rows : below(low, b)
    BY <1>5 DEF Lowest
<1> HIDE DEF low
<1> QED
    BY <1>1, <1>6 DEF low

LEMMA HighestIn ==
    ASSUME NEW rows, IsFiniteSet(rows), rows # {}, \A r \in rows : RowFields(r),
           NEW key \in Columns, NEW tie \in Columns
    PROVE  Highest(rows, key, tie) \in rows
<1> DEFINE above(r, s) == r[key] > s[key] \/ (r[key] = s[key] /\ r[tie] >= s[tie])
           R == {p \in rows \X rows : above(p[1], p[2])}
<1>1. \A r \in rows : r[key] \in Int /\ r[tie] \in Int
    BY DEF RowFields
<1>2. \A a, b \in rows : <<a, b>> \in R <=> above(a, b)
    OBVIOUS
<1>3. /\ \A a, b \in rows : above(a, b) \/ above(b, a)
      /\ \A a, b, c \in rows : above(a, b) /\ above(b, c) => above(a, c)
    BY <1>1
<1> HIDE DEF R
<1>4. PICK m \in rows : \A b \in rows : <<m, b>> \in R
    <2> HIDE DEF above
    <2>1. /\ \A a, b \in rows : <<a, b>> \in R \/ <<b, a>> \in R
          /\ \A a, b, c \in rows : <<a, b>> \in R /\ <<b, c>> \in R => <<a, c>> \in R
        BY <1>2, <1>3
    <2> QED
        BY <2>1, Greatest
<1>5. \A b \in rows : above(m, b)
    BY <1>2, <1>4
<1> QED
    BY <1>5 DEF Highest

(* The winner of a column, comfort considered. *)
LEMMA AwareIn ==
    ASSUME NEW rows, IsFiniteSet(rows), rows # {}, \A r \in rows : RowFields(r),
           NEW key \in Columns, NEW tie \in Columns
    PROVE  ExperienceAware(rows, key, tie) \in rows
<1> DEFINE best == Lowest(rows, key, tie)
           clean == {r \in rows : ~r.flagged /\ 100 * r[key] <= 115 * best[key]}
<1>1. best \in rows
    BY LowestIn
<1> HIDE DEF best
<1>2. ASSUME clean # {}
      PROVE  Lowest(clean, key, tie) \in rows
    <2>1. IsFiniteSet(clean) /\ \A r \in clean : RowFields(r)
        BY FS_Subset
    <2>2. clean \subseteq rows
        OBVIOUS
    <2> HIDE DEF clean
    <2> QED
        BY <1>2, <2>1, <2>2, LowestIn
<1>3. ExperienceAware(rows, key, tie) =
        IF best.flagged /\ clean # {} THEN Lowest(clean, key, tie) ELSE best
    BY DEF ExperienceAware, best
<1> HIDE DEF clean
<1> QED
    BY <1>1, <1>2, <1>3

(* The cheapest representative costs 15 percent more at most, and only for *)
(* comfort.                                                                *)
LEMMA CheapAndClean ==
    ASSUME NEW rows, IsFiniteSet(rows), rows # {}, \A r \in rows : RowFields(r),
           NEW p, p = ExperienceAware(rows, "price", "time"), NEW q \in rows
    PROVE  /\ 100 * p.price <= 115 * q.price
           /\ q.price < p.price => q.flagged /\ ~p.flagged
<1> DEFINE best == Lowest(rows, "price", "time")
           clean == {r \in rows : ~r.flagged /\ 100 * r.price <= 115 * best.price}
<1>1. best \in rows /\ \A s \in rows : best.price <= s.price
    <2>1. "price" \in Columns /\ "time" \in Columns
        BY DEF Columns
    <2>2. best \in rows /\ \A s \in rows : best["price"] <= s["price"]
        BY <2>1, LowestIn
    <2> HIDE DEF best
    <2> QED
        BY <2>2
<1>2. p = IF best.flagged /\ clean # {} THEN Lowest(clean, "price", "time") ELSE best
    BY DEF ExperienceAware
<1> HIDE DEF best
<1>3. \A r \in rows : r.price \in Nat /\ r.flagged \in BOOLEAN
    BY DEF RowFields
<1>4. CASE best.flagged /\ clean # {}
    <2>1. p \in clean /\ \A s \in clean : p.price <= s.price
        <3>1. "price" \in Columns /\ "time" \in Columns
            BY DEF Columns
        <3>2. IsFiniteSet(clean) /\ \A r \in clean : RowFields(r)
            BY FS_Subset
        <3> HIDE DEF clean
        <3>3. p \in clean /\ \A s \in clean : p["price"] <= s["price"]
            BY <1>2, <1>4, <3>1, <3>2, LowestIn
        <3> QED
            BY <3>3
    <2>2. ~p.flagged /\ 100 * p.price <= 115 * best.price /\ p \in rows
        BY <2>1
    <2>3. best.price <= q.price /\ best.price \in Nat /\ q.price \in Nat /\ p.price \in Nat
        BY <1>1, <1>3, <2>2
    <2>4. 100 * p.price <= 115 * q.price
        BY <2>2, <2>3
    <2>5. ASSUME q.price < p.price, ~q.flagged
          PROVE  FALSE
        <3>1. 100 * q.price <= 115 * best.price
            BY <2>2, <2>3, <2>5
        <3>2. q \in clean
            BY <2>5, <3>1
        <3>3. p.price <= q.price
            BY <2>1, <3>2
        <3> QED
            BY <2>3, <2>5, <3>3
    <2> QED
        BY <2>2, <2>4, <2>5
<1>5. CASE ~(best.flagged /\ clean # {})
    <2>1. p = best
        <3> HIDE DEF clean
        <3> QED
            BY <1>2, <1>5
    <2>2. p.price <= q.price /\ p.price \in Nat /\ q.price \in Nat
        BY <1>1, <1>3, <2>1
    <2> QED
        BY <2>2
<1> QED
    BY <1>4, <1>5

LEMMA TagSet == TagNames = {"overall", "time", "price", "preference"}
<1>1. /\ Tags[1] = "overall" /\ Tags[2] = "time" /\ Tags[3] = "price" /\ Tags[4] = "preference"
    BY DEF Tags
<1>2. 1 .. 4 = {1, 2, 3, 4}
    OBVIOUS
<1> QED
    BY <1>1, <1>2 DEF TagNames

LEMMA PicksIn ==
    ASSUME NEW rows, IsFiniteSet(rows), rows # {}, \A r \in rows : RowFields(r)
    PROVE  \A t \in TagNames : Picks(rows)[t] \in rows
<1>1. Columns = {"price", "time", "preference", "overall"}
    BY DEF Columns
<1>2. /\ Highest(rows, "overall", "preference") \in rows
      /\ Highest(rows, "preference", "overall") \in rows
    BY <1>1, HighestIn
<1>3. /\ ExperienceAware(rows, "time", "price") \in rows
      /\ ExperienceAware(rows, "price", "time") \in rows
    BY <1>1, AwareIn
<1> QED
    BY <1>2, <1>3, TagSet DEF Picks

(* Each tag is on one proposal, which is the representative of the tag.    *)
LEMMA OneEach ==
    ASSUME NEW rows, NEW t \in TagNames
    PROVE  LET tagged == {p \in Proposals(rows) : t \in p.tags}
           IN  Cardinality(tagged) = 1 /\ \A p \in tagged : p.row = Picks(rows)[t]
<1> DEFINE picks == Picks(rows)
           all == {[row |-> picks[u], tags |-> {v \in TagNames : picks[v] = picks[u]}] : u \in TagNames}
           one == [row |-> picks[t], tags |-> {v \in TagNames : picks[v] = picks[t]}]
<1>1. Proposals(rows) = all
    BY DEF Proposals
<1> HIDE DEF picks
<1>2. {p \in all : t \in p.tags} = {one}
    <2>1. one \in all /\ t \in one.tags
        OBVIOUS
    <2>2. ASSUME NEW p \in all, t \in p.tags
          PROVE  p = one
        <3>1. PICK u \in TagNames :
                p = [row |-> picks[u], tags |-> {v \in TagNames : picks[v] = picks[u]}]
            OBVIOUS
        <3>2. picks[t] = picks[u]
            BY <2>2, <3>1
        <3> QED
            BY <3>1, <3>2
    <2> QED
        BY <2>1, <2>2
<1>3. Cardinality({one}) = 1
    BY FS_Singleton
<1>4. one.row = picks[t]
    OBVIOUS
<1> HIDE DEF one, all
<1> QED
    BY <1>1, <1>2, <1>3, <1>4 DEF picks
-----------------------------------------------------------------------------
(* The plan. *)

(* What is known of the rows a plan's proposals were taken from. *)
RowsOf(rows, trip) ==
    /\ IsFiniteSet(rows) /\ rows # {} /\ \A r \in rows : RowFields(r)
    /\ \A r \in rows : r.combo \in Combinations(SearchSpace(trip)) /\ r.price = TotalPrice(r.combo)

(* A combination of the options no other undercuts (of the hotels, no      *)
(* priced one), if it goes together in time.                               *)
Bargain(c, space) ==
    /\ c \in Combinations(space)
    /\ Undercuts(c.out, space.out) /\ UndercutsPriced(c.hotel, space.hotels)
    /\ Undercuts(c.back, space.back)

LEMMA SpaceTypes ==
    ASSUME NEW trip, Request(trip), NEW space, space = SearchSpace(trip)
    PROVE  /\ space.out \subseteq trip.transports /\ space.back \subseteq trip.transports
           /\ space.hotels \subseteq trip.hotels
           /\ space.out \subseteq Legs /\ Unique(space.out)
           /\ space.back \subseteq Legs /\ Unique(space.back)
           /\ space.hotels \subseteq Stays /\ Unique(space.hotels)
<1>1. /\ space.out \subseteq trip.transports /\ space.back \subseteq trip.transports
      /\ space.hotels \subseteq trip.hotels
    BY DEF SearchSpace
<1> QED
    BY <1>1 DEF Request, Unique

LEMMA PlanRows ==
    ASSUME NEW trip, Request(trip), PlanItinerary(trip).ok
    PROVE  \E rows : /\ RowsOf(rows, trip)
                     /\ PlanItinerary(trip).proposals = Proposals(rows)
                     /\ \/ \E r \in rows : Bargain(r.combo, SearchSpace(trip))
                        \/ \E o \in Cheapest(SearchSpace(trip).out), b \in Cheapest(SearchSpace(trip).back) :
                              ~InOrder(o, b)
<1> DEFINE space == SearchSpace(trip)
           scores == Scores(trip)
           kept == Prune(space, scores, trip.policy)
           combos == Combinations(kept)
           rows == Scored(combos, scores, trip.policy, trip.badWeather)
<1>1. /\ space.out # {} /\ space.back # {} /\ space.hotels # {} /\ combos # {}
      /\ PlanItinerary(trip).proposals = Proposals(rows)
    BY DEF PlanItinerary, Failed
<1>2. Filled(space)
    BY <1>1, SpaceTypes DEF Filled
<1>3. \A c \in space.out \cup space.back \cup space.hotels : scores[c.id] \in Int
    BY ScoresType
<1> HIDE DEF space, scores
<1>4. /\ kept.out \subseteq space.out /\ \E c \in kept.out : Undercuts(c, space.out)
      /\ kept.back \subseteq space.back /\ \E c \in kept.back : Undercuts(c, space.back)
      /\ kept.hotels \subseteq space.hotels
      /\ \E c \in kept.hotels : UndercutsPriced(c, space.hotels)
    BY <1>2, Pruned
<1> HIDE DEF kept
<1>5. combos \subseteq Combinations(space) /\ combos \subseteq Combos
    BY <1>2, <1>4 DEF Combinations, Combos, Filled
<1>6. IsFiniteSet(combos)
    <2> DEFINE box == (kept.out \X kept.hotels) \X kept.back
               combo == [p \in box |-> [out |-> p[1][1], hotel |-> p[1][2], back |-> p[2]]]
    <2>1. IsFiniteSet(kept.out) /\ IsFiniteSet(kept.hotels) /\ IsFiniteSet(kept.back)
        BY <1>2, <1>4, SpaceFinite, FS_Subset
    <2>2. IsFiniteSet(kept.out \X kept.hotels)
        BY <2>1, FS_Product
    <2>3. IsFiniteSet(box)
        BY <2>1, <2>2, FS_Product
    <2>4. IsFiniteSet({combo[p] : p \in box})
        <3>1. box \subseteq DOMAIN combo
            OBVIOUS
        <3> HIDE DEF box, combo
        <3> QED
            BY <2>3, <3>1, FiniteImage
    <2>5. combos \subseteq {combo[p] : p \in box}
        <3> SUFFICES ASSUME NEW c \in combos
                     PROVE  c \in {combo[p] : p \in box}
            OBVIOUS
        <3>1. c \in [out : kept.out, hotel : kept.hotels, back : kept.back]
            BY DEF Combinations
        <3> DEFINE p == <<<<c.out, c.hotel>>, c.back>>
        <3>2. p \in box
            BY <3>1
        <3>3. c = [out |-> c.out, hotel |-> c.hotel, back |-> c.back]
            BY <3>1
        <3>4. combo[p] = c
            BY <3>2, <3>3
        <3> QED
            BY <3>2, <3>4
    <2> HIDE DEF box, combo
    <2> QED
        BY <2>4, <2>5, FS_Subset
<1>7. \A c \in combos : /\ scores[c.out.id] \in Int /\ scores[c.hotel.id] \in Int
                        /\ scores[c.back.id] \in Int
    BY <1>3, <1>5 DEF Combinations
<1> HIDE DEF combos
<1>8. /\ IsFiniteSet(rows)
      /\ \A r \in rows : r.combo \in combos /\ r.price = TotalPrice(r.combo) /\ RowFields(r)
      /\ \A c \in combos : \E r \in rows : r.combo = c
    BY <1>5, <1>6, <1>7, RowTypes
<1> HIDE DEF rows
<1>9. RowsOf(rows, trip)
    BY <1>1, <1>5, <1>8 DEF RowsOf, space
<1>10. ASSUME \A o \in Cheapest(space.out), b \in Cheapest(space.back) : InOrder(o, b)
       PROVE  \E r \in rows : Bargain(r.combo, space)
    <2>1. PICK o \in kept.out : Undercuts(o, space.out)
        BY <1>4
    <2>2. PICK h \in kept.hotels : UndercutsPriced(h, space.hotels)
        BY <1>4
    <2>3. PICK b \in kept.back : Undercuts(b, space.back)
        BY <1>4
    <2>4. InOrder(o, b)
        BY <1>4, <1>10, <2>1, <2>3 DEF Cheapest, Undercuts
    <2> DEFINE c == [out |-> o, hotel |-> h, back |-> b]
    <2>5. c \in combos
        BY <2>4 DEF combos, Combinations
    <2>6. c.out = o /\ c.hotel = h /\ c.back = b
        OBVIOUS
    <2> HIDE DEF c
    <2>7. Bargain(c, space)
        BY <1>5, <2>1, <2>2, <2>3, <2>5, <2>6 DEF Bargain
    <2> QED
        BY <1>8, <2>5, <2>7
<1> QED
    BY <1>1, <1>9, <1>10 DEF space
-----------------------------------------------------------------------------
(* What the search finds. *)

StaysFor(nights) == {h \in Stays : h.nights = nights}

(* Candidates for so many nights. *)
Finds(found, nights) == found.transports \subseteq Legs /\ found.hotels \subseteq StaysFor(nights)

LEMMA DistinctIn ==
    ASSUME NEW found
    PROVE  Sourcing!Distinct(found) \subseteq found /\ Unique(Sourcing!Distinct(found))
<1> DEFINE of(i) == CHOOSE c \in found : c.id = i
<1>1. Sourcing!Distinct(found) = {of(d.id) : d \in found}
    BY DEF Sourcing!Distinct
<1>2. \A d \in found : of(d.id) \in found /\ of(d.id).id = d.id
    OBVIOUS
<1> HIDE DEF of
<1> QED
    BY <1>1, <1>2 DEF Unique

LEMMA MergedIn ==
    ASSUME NEW left, NEW right
    PROVE  /\ Sourcing!MergeById(left, right) \subseteq left \cup right
           /\ Unique(Sourcing!MergeById(left, right))
<1> DEFINE new == Sourcing!Distinct(right)
           old == {c \in Sourcing!Distinct(left) : \A d \in right : d.id # c.id}
<1>1. Sourcing!MergeById(left, right) = new \cup old
    BY DEF Sourcing!MergeById
<1>2. new \subseteq right /\ Unique(new)
    BY DistinctIn
<1>3. old \subseteq left /\ Unique(old) /\ \A c \in old, d \in right : d.id # c.id
    BY DistinctIn DEF Unique
<1> HIDE DEF new, old
<1> QED
    BY <1>1, <1>2, <1>3 DEF Unique

LEMMA TravelType ==
    ASSUME NEW kind \in {"flight", "train"}, NEW o \in Offers(kind), NEW p \in o.places,
           NEW marked \in {"none", "outbound", "return"}, NEW way \in Routes
    PROVE  Sourcing!Travel(o, p, marked, way) \in Legs
<1>1. p \in Places(kind) /\ o.departs \in Hours /\ o.arrives \in Hours /\ o.kind = kind
    BY DEF Offers
<1>2. p.id \in TransportIds /\ p.price \in Nat /\ p.class \in Nat /\ p.meets \in SUBSET Wishes
    BY <1>1 DEF Places
<1> QED
    BY <1>1, <1>2 DEF Sourcing!Travel, Legs

LEMMA RoomType ==
    ASSUME NEW o \in Offers("hotel"), NEW p \in o.places, NEW nights \in Nat,
           NEW stars \in Nat, NEW distance \in Nat
    PROVE  Sourcing!Room(p, nights, stars, distance) \in StaysFor(nights)
<1>1. p \in Places("hotel")
    BY DEF Offers
<1>2. p.id \in HotelIds /\ p.price \in Nat /\ p.meets \in SUBSET Wishes
    BY <1>1 DEF Places
<1>3. Sourcing!Room(p, nights, stars, distance) \in Stays
    BY <1>2 DEF Sourcing!Room, Stays
<1> QED
    BY <1>3 DEF Sourcing!Room, StaysFor

LEMMA CheapestPlaceIn ==
    ASSUME NEW kind, NEW o \in Offers(kind)
    PROVE  Sourcing!CheapestPlace(o) \in o.places
<1>1. o.places # {} /\ \A p \in o.places : p.price \in Nat
    BY DEF Offers, Places
<1> DEFINE prices == {p.price : p \in o.places}
<1>2. prices \subseteq Nat /\ prices # {}
    BY <1>1
<1>3. PICK low \in prices : \A n \in prices : low <= n
    <2> HIDE DEF prices
    <2> QED
        BY <1>2, LeastNumber
<1>4. \E p \in o.places : \A q \in o.places : p.price <= q.price
    BY <1>3
<1> QED
    BY <1>4 DEF Sourcing!CheapestPlace

LEMMA OffersIn ==
    ASSUME NEW kind, NEW offers \in Seq(Offers(kind))
    PROVE  Sourcing!ToSet(offers) \subseteq Offers(kind)
BY DEF Sourcing!ToSet

LEMMA AnswerIn ==
    ASSUME NEW market \in Markets, NEW provider \in Providers, NEW call \in Calls
    PROVE  Sourcing!Answer(market, provider, call) \in Seq(Offers(call[1]))
<1>1. Catalogue(market.answers[provider])
    BY RoundsAssumption
<1>2. << >> \in Seq(Offers(call[1]))
    OBVIOUS
<1> QED
    BY <1>1, <1>2 DEF Catalogue, Sourcing!Answer

LEMMA BuiltIn ==
    ASSUME NEW kept, Catalogue(kept), NEW nights \in Nat
    PROVE  Finds(Sourcing!BuildCandidates(kept, nights), nights)
<1> DEFINE offers(call) == IF call \in DOMAIN kept THEN Sourcing!ToSet(kept[call]) ELSE {}
           seats(o) == {p \in o.places : o.kind = "train" => p.left}
           travel(way) == UNION {{Sourcing!Travel(o, p, "none", way) : p \in seats(o)} :
                                 o \in offers(<<"flight", way>>) \cup offers(<<"train", way>>)}
           rooms == UNION {{Sourcing!Room(p, nights, p.class, 0) : p \in o.places} :
                           o \in offers(<<"hotel", "stay">>)}
<1>1. Sourcing!BuildCandidates(kept, nights) =
        [transports |-> UNION {travel(way) : way \in Sourcing!Ways}, hotels |-> rooms]
    BY DEF Sourcing!BuildCandidates
<1>2. \A call \in Calls : offers(call) \subseteq Offers(call[1])
    <2> SUFFICES ASSUME NEW call \in Calls, call \in DOMAIN kept
                 PROVE  Sourcing!ToSet(kept[call]) \subseteq Offers(call[1])
        OBVIOUS
    <2>1. kept[call] \in Seq(Offers(call[1]))
        BY DEF Catalogue
    <2> QED
        BY <2>1, OffersIn
<1> HIDE DEF offers
<1>3. ASSUME NEW way \in {"there", "back"}
      PROVE  travel(way) \subseteq Legs
    <2>1. /\ offers(<<"flight", way>>) \subseteq Offers("flight")
          /\ offers(<<"train", way>>) \subseteq Offers("train")
        BY <1>2 DEF Calls
    <2>2. ASSUME NEW o \in offers(<<"flight", way>>) \cup offers(<<"train", way>>), NEW p \in seats(o)
          PROVE  Sourcing!Travel(o, p, "none", way) \in Legs
        BY <2>1, TravelType DEF Routes
    <2> QED
        BY <2>2
<1>4. rooms \subseteq StaysFor(nights)
    <2>1. offers(<<"hotel", "stay">>) \subseteq Offers("hotel")
        BY <1>2 DEF Calls
    <2>2. ASSUME NEW o \in offers(<<"hotel", "stay">>), NEW p \in o.places
          PROVE  Sourcing!Room(p, nights, p.class, 0) \in StaysFor(nights)
        <3>1. p.class \in Nat
            BY <2>1 DEF Offers, Places
        <3> QED
            BY <2>1, <3>1, RoomType
    <2> QED
        BY <2>2
<1> HIDE DEF travel, rooms
<1> QED
    BY <1>1, <1>3, <1>4 DEF Finds, Sourcing!Ways

LEMMA TravelsFound ==
    ASSUME NEW market \in Markets, NEW provider \in Providers, NEW kind \in {"flight", "train"},
           NEW way \in {"there", "back"}, NEW marked \in {"none", "outbound", "return"}
    PROVE  Sourcing!Normalized(market, provider, <<kind, way>>, marked) \subseteq Legs
<1> DEFINE call == <<kind, way>>
           offers == Sourcing!ToSet(Sourcing!Answer(market, provider, call))
<1>1. offers \subseteq Offers(kind)
    <2>1. call \in Calls /\ call[1] = kind
        BY DEF Calls
    <2> HIDE DEF call
    <2> QED
        BY <2>1, AnswerIn, OffersIn
<1>2. Sourcing!Normalized(market, provider, call, marked) =
        {Sourcing!Travel(o, Sourcing!CheapestPlace(o), marked, o.way) : o \in offers}
    BY DEF Sourcing!Normalized
<1> HIDE DEF offers
<1>3. ASSUME NEW o \in offers
      PROVE  Sourcing!Travel(o, Sourcing!CheapestPlace(o), marked, o.way) \in Legs
    <2>1. o.way \in Routes /\ Sourcing!CheapestPlace(o) \in o.places
        BY <1>1, CheapestPlaceIn DEF Offers
    <2> QED
        BY <1>1, <2>1, TravelType
<1> QED
    BY <1>2, <1>3

LEMMA RoomsFound ==
    ASSUME NEW market \in Markets, NEW provider \in Providers, NEW nights \in Nat, NEW found,
           NEW rooms, rooms = Sourcing!ToSet(Sourcing!Answer(market, provider, <<"hotel", "stay">>)),
           \A h \in found : \E o \in rooms, stars \in Nat :
               h = Sourcing!Room(Sourcing!CheapestPlace(o), nights, stars, Sourcing!Unlisted)
    PROVE  found \subseteq StaysFor(nights)
<1>1. rooms \subseteq Offers("hotel")
    <2> DEFINE call == <<"hotel", "stay">>
    <2>1. call \in Calls /\ call[1] = "hotel"
        BY DEF Calls
    <2>2. rooms = Sourcing!ToSet(Sourcing!Answer(market, provider, call))
        OBVIOUS
    <2> HIDE DEF call
    <2> QED
        BY <2>1, <2>2, AnswerIn, OffersIn
<1>2. ASSUME NEW h \in found
      PROVE  h \in StaysFor(nights)
    <2>1. PICK o \in rooms, stars \in Nat :
            h = Sourcing!Room(Sourcing!CheapestPlace(o), nights, stars, Sourcing!Unlisted)
        OBVIOUS
    <2>2. Sourcing!CheapestPlace(o) \in o.places /\ Sourcing!Unlisted \in Nat
        BY <1>1, CheapestPlaceIn DEF Sourcing!Unlisted
    <2> QED
        BY <1>1, <2>1, <2>2, RoomType
<1> QED
    BY <1>2

LEMMA ClassOfPlace ==
    ASSUME NEW market \in Markets, NEW provider \in Providers,
           NEW o \in Sourcing!ToSet(Sourcing!Answer(market, provider, <<"hotel", "stay">>))
    PROVE  Sourcing!CheapestPlace(o).class \in Nat
<1> DEFINE call == <<"hotel", "stay">>
<1>1. call \in Calls /\ call[1] = "hotel"
    BY DEF Calls
<1>2. o \in Sourcing!ToSet(Sourcing!Answer(market, provider, call))
    OBVIOUS
<1> HIDE DEF call
<1>3. o \in Offers("hotel")
    BY <1>1, <1>2, AnswerIn, OffersIn
<1> QED
    BY <1>3, CheapestPlaceIn DEF Offers, Places

LEMMA FlyAiFinds ==
    ASSUME NEW market \in Markets, NEW nights \in Nat, NEW wanted
    PROVE  Finds(Sourcing!FlyAiSearch(wanted, market, nights), nights)
<1> DEFINE class(p) == p.class
           travels == UNION {Sourcing!Normalized(market, "flyai", <<kind, way>>, Sourcing!Marked(way)) :
                             kind \in {"flight", "train"}, way \in Sourcing!Ways}
           rooms == Sourcing!ToSet(Sourcing!Answer(market, "flyai", <<"hotel", "stay">>))
           hotels == {Sourcing!Room(Sourcing!CheapestPlace(o), nights, Sourcing!CheapestPlace(o).class,
                                    Sourcing!Unlisted) : o \in rooms}
           found == Sourcing!FlyAiSearch(wanted, market, nights)
<1>1. "flyai" \in Providers
    BY DEF Providers
<1>2. /\ found.transports \in {{}, travels} /\ found.hotels \in {{}, hotels}
    BY DEF Sourcing!FlyAiSearch, Sourcing!NormalizedHotels
<1>3. travels \subseteq Legs
    <2>1. \A way \in {"there", "back"} : Sourcing!Marked(way) \in {"none", "outbound", "return"}
        BY DEF Sourcing!Marked
    <2>2. \A kind \in {"flight", "train"}, way \in {"there", "back"} :
            Sourcing!Normalized(market, "flyai", <<kind, way>>, Sourcing!Marked(way)) \subseteq Legs
        BY <1>1, <2>1, TravelsFound
    <2> QED
        BY <2>2 DEF Sourcing!Ways
<1>4. hotels \subseteq StaysFor(nights)
    <2>1. \A o \in rooms : Sourcing!CheapestPlace(o).class \in Nat
        BY <1>1, ClassOfPlace
    <2>2. ASSUME NEW h \in hotels
          PROVE  \E o \in rooms, stars \in Nat :
                   h = Sourcing!Room(Sourcing!CheapestPlace(o), nights, stars, Sourcing!Unlisted)
        <3>1. PICK o \in rooms :
                h = Sourcing!Room(Sourcing!CheapestPlace(o), nights,
                                  Sourcing!CheapestPlace(o).class, Sourcing!Unlisted)
            OBVIOUS
        <3> QED
            BY <2>1, <3>1
    <2> HIDE DEF hotels
    <2> QED
        BY <1>1, <2>2, RoomsFound
<1> HIDE DEF travels, hotels, found
<1> QED
    BY <1>2, <1>3, <1>4 DEF Finds, found

LEMMA FlightManagerFinds ==
    ASSUME NEW market \in Markets, NEW nights \in Nat, NEW wanted
    PROVE  Finds(Sourcing!FlightManagerSearch(wanted, market), nights)
<1> DEFINE travels == UNION {Sourcing!Normalized(market, "flight-manager", <<"flight", way>>,
                                                 Sourcing!Marked(way)) : way \in Sourcing!Ways}
           found == Sourcing!FlightManagerSearch(wanted, market)
<1>1. found.transports \in {{}, travels} /\ found.hotels = {}
    BY DEF Sourcing!FlightManagerSearch
<1>2. travels \subseteq Legs
    <2>1. \A way \in {"there", "back"} : Sourcing!Marked(way) \in {"none", "outbound", "return"}
        BY DEF Sourcing!Marked
    <2>2. \A way \in {"there", "back"} :
            Sourcing!Normalized(market, "flight-manager", <<"flight", way>>, Sourcing!Marked(way))
              \subseteq Legs
        BY <2>1, TravelsFound DEF Providers
    <2> QED
        BY <2>2 DEF Sourcing!Ways
<1> HIDE DEF travels, found
<1> QED
    BY <1>1, <1>2 DEF Finds, found

LEMMA RollingGoFinds ==
    ASSUME NEW market \in Markets, NEW nights \in Nat, NEW wanted
    PROVE  Finds(Sourcing!RollingGoSearch(wanted, market, nights), nights)
<1> DEFINE rooms == Sourcing!ToSet(Sourcing!Answer(market, "rolling-go-hotel", <<"hotel", "stay">>))
           hotels == {Sourcing!Room(Sourcing!CheapestPlace(o), nights, 0, Sourcing!Unlisted) : o \in rooms}
           found == Sourcing!RollingGoSearch(wanted, market, nights)
<1>1. found.transports = {} /\ found.hotels \in {{}, hotels}
    BY DEF Sourcing!RollingGoSearch, Sourcing!NormalizedHotels
<1>2. hotels \subseteq StaysFor(nights)
    <2>1. "rolling-go-hotel" \in Providers
        BY DEF Providers
    <2>2. ASSUME NEW h \in hotels
          PROVE  \E o \in rooms, stars \in Nat :
                   h = Sourcing!Room(Sourcing!CheapestPlace(o), nights, stars, Sourcing!Unlisted)
        <3>1. PICK o \in rooms :
                h = Sourcing!Room(Sourcing!CheapestPlace(o), nights, 0, Sourcing!Unlisted)
            OBVIOUS
        <3>2. 0 \in Nat
            OBVIOUS
        <3> QED
            BY <3>1, <3>2
    <2> HIDE DEF hotels
    <2> QED
        BY <2>1, <2>2, RoomsFound
<1> HIDE DEF hotels, found
<1> QED
    BY <1>1, <1>2 DEF Finds, found

LEMMA TuniuFinds ==
    ASSUME NEW market \in Markets, NEW nights \in Nat, NEW requests, NEW kept, Catalogue(kept)
    PROVE  Finds(Sourcing!TuniuSearch(requests, kept, market, nights), nights)
<1>1. Finds(Sourcing!BuildCandidates(kept, nights), nights)
    BY BuiltIn
<1>2. Sourcing!TuniuSearch(requests, kept, market, nights) = Sourcing!BuildCandidates(kept, nights)
    BY DEF Sourcing!TuniuSearch, Sourcing!Capture
<1> QED
    BY <1>1, <1>2

(* Whatever the ready providers answer, the search finds legs, and stays   *)
(* for the nights asked for.                                               *)
LEMMA SearchFinds ==
    ASSUME NEW market \in Markets, NEW nights \in Nat, NEW requests, NEW kept, Catalogue(kept)
    PROVE  Finds(Sourcing!Search(requests, kept, market, nights), nights)
<1> DEFINE wanted == Sourcing!WantedTypes(requests)
           result(provider) ==
               CASE provider = "tuniu-cli" -> Sourcing!TuniuSearch(requests, kept, market, nights)
                 [] provider = "flyai" -> Sourcing!FlyAiSearch(wanted, market, nights)
                 [] provider = "flight-manager" -> Sourcing!FlightManagerSearch(wanted, market)
                 [] provider = "rolling-go-hotel" -> Sourcing!RollingGoSearch(wanted, market, nights)
           answering == Sourcing!Answering(market)
           transports == UNION {result(p).transports : p \in answering}
           hotels == UNION {result(p).hotels : p \in answering}
<1>1. \A p \in Providers : Finds(result(p), nights)
    <2> SUFFICES ASSUME NEW p \in Providers
                 PROVE  Finds(result(p), nights)
        OBVIOUS
    <2>1. CASE p = "tuniu-cli"
        BY <2>1, TuniuFinds
    <2>2. CASE p = "flyai"
        BY <2>2, FlyAiFinds
    <2>3. CASE p = "flight-manager"
        BY <2>3, FlightManagerFinds
    <2>4. CASE p = "rolling-go-hotel"
        BY <2>4, RollingGoFinds
    <2> QED
        BY <2>1, <2>2, <2>3, <2>4 DEF Providers
<1>2. answering \subseteq Providers
    BY RoundsAssumption DEF Sourcing!Answering
<1>3. Sourcing!Search(requests, kept, market, nights) =
        [transports |-> Sourcing!Distinct(transports), hotels |-> Sourcing!Distinct(hotels)]
    BY DEF Sourcing!Search
<1> HIDE DEF result
<1>4. transports \subseteq Legs /\ hotels \subseteq StaysFor(nights)
    BY <1>1, <1>2 DEF Finds
<1> HIDE DEF transports, hotels
<1>5. Sourcing!Distinct(transports) \subseteq Legs /\ Sourcing!Distinct(hotels) \subseteq StaysFor(nights)
    BY <1>4, DistinctIn
<1> QED
    BY <1>3, <1>5 DEF Finds

LEMMA LatestOfRunIn ==
    ASSUME NEW S, NEW offers \in Seq(S)
    PROVE  Sourcing!LatestOfRun(offers) \in Seq(S)
<1> DEFINE again(n) == \E j \in n + 1 .. Len(offers) : offers[j].run = offers[n].run
           next(n, s) == IF again(n) THEN s ELSE Append(s, offers[n])
           G == [n \in Nat |-> [s \in Seq(S) |-> IF n \in 1 .. Len(offers) THEN next(n, s) ELSE s]]
           size == Len(offers)
           Runs(t) == t = [n \in 0 .. size |->
                              IF n = 0 THEN << >>
                              ELSE IF again(n) THEN t[n-1] ELSE Append(t[n-1], offers[n])]
           kept == CHOOSE t : Runs(t)
<1>1. size \in Nat
    OBVIOUS
<1>2. ASSUME NEW n \in 1 .. size, NEW s \in Seq(S)
      PROVE  next(n, s) \in Seq(S)
    <2>1. offers[n] \in S
        OBVIOUS
    <2>2. Append(s, offers[n]) \in Seq(S)
        BY <2>1
    <2> HIDE DEF again
    <2> QED
        BY <2>2
<1>3. G \in [Nat -> [Seq(S) -> Seq(S)]]
    <2> HIDE DEF next
    <2> QED
        BY <1>2
<1>4. PICK f : Iterates(f, size, Seq(S), << >>, G)
    <2>1. << >> \in Seq(S)
        OBVIOUS
    <2> HIDE DEF G, size
    <2> QED
        BY <1>1, <1>3, <2>1, Iteration
<1>5. Runs(f)
    <2>1. f = [n \in 0 .. size |-> f[n]] /\ f[0] = << >>
        BY <1>4 DEF Iterates
    <2>2. ASSUME NEW n \in 1 .. size
          PROVE  f[n] = IF again(n) THEN f[n-1] ELSE Append(f[n-1], offers[n])
        <3>1. n-1 \in 0 .. size /\ f[n-1] \in Seq(S) /\ n \in Nat
            BY <1>4 DEF Iterates
        <3>2. f[n] = G[n][f[n-1]]
            BY <1>4 DEF Iterates
        <3> HIDE DEF again
        <3> QED
            BY <3>1, <3>2
    <2>3. \A n \in 0 .. size : n = 0 \/ n \in 1 .. size
        OBVIOUS
    <2> HIDE DEF again, G, size
    <2>4. \A n \in 0 .. size :
            f[n] = IF n = 0 THEN << >> ELSE IF again(n) THEN f[n-1] ELSE Append(f[n-1], offers[n])
        BY <2>1, <2>2, <2>3
    <2> QED
        BY <2>1, <2>4
<1>6. Runs(kept)
    <2> HIDE DEF Runs
    <2> QED
        BY <1>5
<1>7. Sourcing!LatestOfRun(offers) = kept[size]
    BY DEF Sourcing!LatestOfRun
<1> HIDE DEF kept
<1>8. \A n \in 0 .. size : kept[n] = IF n = 0 THEN << >> ELSE next(n, kept[n-1])
    <2> HIDE DEF again, size, G
    <2> QED
        BY <1>6
<1> DEFINE T == {n \in Nat : n <= size => kept[n] \in Seq(S)}
<1> HIDE DEF Runs, next, size, G
<1>9. 0 \in T
    <2>1. 0 \in 0 .. size /\ << >> \in Seq(S)
        BY <1>1
    <2> QED
        BY <1>8, <2>1
<1>10. ASSUME NEW n \in Nat, n \in T
       PROVE  n + 1 \in T
    <2> SUFFICES ASSUME n + 1 <= size
                 PROVE  kept[n+1] \in Seq(S)
        OBVIOUS
    <2>1. n + 1 \in 0 .. size /\ n + 1 \in 1 .. size /\ n + 1 # 0 /\ (n + 1) - 1 = n /\ kept[n] \in Seq(S)
        BY <1>1, <1>10
    <2>2. kept[n+1] = next(n+1, kept[n])
        BY <1>8, <2>1
    <2> QED
        BY <1>2, <2>1, <2>2
<1>11. size \in T
    <2>1. \A n \in Nat : n \in T => n + 1 \in T
        BY <1>10
    <2> HIDE DEF T
    <2> QED
        BY <1>1, <1>9, <2>1, Counting
<1> QED
    BY <1>1, <1>7, <1>11

LEMMA CaptureIn ==
    ASSUME NEW kept, Catalogue(kept), NEW answers, Catalogue(answers)
    PROVE  Catalogue(Sourcing!Capture(kept, TRUE, answers))
<1> DEFINE merged == [call \in DOMAIN kept \cup DOMAIN answers |->
                         CASE call \notin DOMAIN answers -> kept[call]
                           [] call \notin DOMAIN kept -> answers[call]
                           [] OTHER -> Sourcing!LatestOfRun(kept[call] \o answers[call])]
<1>1. Sourcing!Capture(kept, TRUE, answers) = merged
    BY DEF Sourcing!Capture
<1>2. ASSUME NEW call \in DOMAIN kept \cup DOMAIN answers
      PROVE  call \in Calls /\ merged[call] \in Seq(Offers(call[1]))
    <2>1. /\ call \in DOMAIN kept => call \in Calls /\ kept[call] \in Seq(Offers(call[1]))
          /\ call \in DOMAIN answers => call \in Calls /\ answers[call] \in Seq(Offers(call[1]))
        BY DEF Catalogue
    <2>2. CASE call \notin DOMAIN answers
        BY <2>1, <2>2
    <2>3. CASE call \in DOMAIN answers /\ call \notin DOMAIN kept
        BY <2>1, <2>3
    <2>4. CASE call \in DOMAIN answers /\ call \in DOMAIN kept
        <3>1. kept[call] \o answers[call] \in Seq(Offers(call[1]))
            BY <2>1, <2>4
        <3>2. Sourcing!LatestOfRun(kept[call] \o answers[call]) \in Seq(Offers(call[1]))
            BY <3>1, LatestOfRunIn
        <3>3. merged[call] = Sourcing!LatestOfRun(kept[call] \o answers[call])
            BY <2>4
        <3> QED
            BY <2>1, <2>4, <3>2, <3>3
    <2> QED
        BY <2>2, <2>3, <2>4
<1> QED
    BY <1>1, <1>2 DEF Catalogue
-----------------------------------------------------------------------------
(* What a repair asks for. *)

LEMMA OverrideScores ==
    ASSUME NEW scores, Scoring(scores), NEW rescores, IsFiniteSet(rescores),
           \A a \in rescores : a.priority \in Int /\ a.place \in Int /\ Scoring(a.scores)
    PROVE  Scoring(Repairs!Override(scores, rescores))
<1> DEFINE given(a) == Repairs!NewScores(a)
           naming(id) == {a \in rescores : id \in DOMAIN given(a)}
           last(id) == CHOOSE a \in naming(id) : \A b \in naming(id) : ~Repairs!Before(a, b)
           ids == DOMAIN scores \cup UNION {DOMAIN given(a) : a \in rescores}
           after == [id \in ids |-> IF naming(id) = {} THEN scores[id] ELSE given(last(id))[id]]
<1>1. Repairs!Override(scores, rescores) = after
    BY DEF Repairs!Override
<1>2. ASSUME NEW a \in rescores, NEW id \in DOMAIN given(a)
      PROVE  given(a)[id] \in Int
    BY DEF Repairs!NewScores, Scoring
<1>3. ASSUME NEW id, naming(id) # {}
      PROVE  last(id) \in naming(id)
    <2> DEFINE N == naming(id)
               R == {p \in N \X N : ~Repairs!Before(p[1], p[2])}
    <2>1. IsFiniteSet(N)
        BY FS_Subset
    <2>2. \A a \in N : a.priority \in Int /\ a.place \in Int
        OBVIOUS
    <2> HIDE DEF naming
    <2>3. /\ \A a, b \in N : ~Repairs!Before(a, b) \/ ~Repairs!Before(b, a)
          /\ \A a, b, c \in N : ~Repairs!Before(a, b) /\ ~Repairs!Before(b, c) => ~Repairs!Before(a, c)
        BY <2>2 DEF Repairs!Before
    <2> HIDE DEF N
    <2>4. /\ \A a, b \in N : <<a, b>> \in R \/ <<b, a>> \in R
          /\ \A a, b, c \in N : <<a, b>> \in R /\ <<b, c>> \in R => <<a, c>> \in R
        BY <2>3
    <2>5. N # {}
        BY <1>3 DEF N
    <2>6. PICK m \in N : \A b \in N : <<m, b>> \in R
        <3> HIDE DEF R
        <3> QED
            BY <2>1, <2>4, <2>5, Greatest
    <2>7. \A b \in N : ~Repairs!Before(m, b)
        BY <2>6
    <2> QED
        BY <2>7 DEF N
<1> HIDE DEF last
<1>4. ASSUME NEW id \in ids
      PROVE  after[id] \in Int
    <2>1. CASE naming(id) = {}
        <3>1. id \in DOMAIN scores
            BY <2>1
        <3> QED
            BY <2>1, <3>1 DEF Scoring
    <2>2. CASE naming(id) # {}
        <3>1. last(id) \in rescores /\ id \in DOMAIN given(last(id))
            BY <1>3, <2>2
        <3>2. given(last(id))[id] \in Int
            BY <1>2, <3>1
        <3> HIDE DEF given
        <3> QED
            BY <2>2, <3>2
    <2> QED
        BY <2>1, <2>2
<1> QED
    BY <1>1, <1>4 DEF Scoring

LEMMA RescoresTyped ==
    ASSUME NEW items, ItemList(items), NEW findings, NEW continue, NEW proposals, NEW rescores,
           rescores = {a \in Repairs!Executable(Repairs!Compile(items, findings, continue, proposals)) :
                         a.action = "rescore"}
    PROVE  /\ IsFiniteSet(rescores)
           /\ \A a \in rescores : a.priority \in Int /\ a.place \in Int /\ Scoring(a.scores)
<1> DEFINE actions == Repairs!Compile(items, findings, continue, proposals)
<1>1. rescores \subseteq {a \in actions : a.action = "rescore"}
    BY DEF Repairs!Executable
<1>2. CASE items = << >> /\ continue
    <2>1. actions = Repairs!FallbackActions(findings, proposals)
        BY <1>2 DEF Repairs!Compile
    <2>2. \A a \in actions : a.action \in {"exclude", "manual"}
        BY <2>1 DEF Repairs!FallbackActions, Repairs!Manual
    <2>3. rescores = {}
        BY <1>1, <2>2
    <2> QED
        BY <2>3, FS_EmptySet
<1>3. CASE ~(items = << >> /\ continue)
    <2> DEFINE compiled == [i \in DOMAIN items |-> Repairs!CompileItem(items[i], i, proposals)]
    <2>1. actions = {compiled[i] : i \in DOMAIN items}
        BY <1>3 DEF Repairs!Compile
    <2>2. IsFiniteSet({compiled[i] : i \in DOMAIN items})
        <3>1. DOMAIN items \subseteq DOMAIN compiled /\ IsFiniteSet(DOMAIN items)
            BY DEF ItemList
        <3> HIDE DEF compiled
        <3> QED
            BY <3>1, FiniteImage
    <2>3. \A i \in DOMAIN items : /\ compiled[i].priority \in Int /\ compiled[i].place \in Int
                                  /\ Scoring(compiled[i].scores)
        <3> SUFFICES ASSUME NEW i \in DOMAIN items
                     PROVE  LET a == Repairs!CompileItem(items[i], i, proposals)
                            IN  a.priority \in Int /\ a.place \in Int /\ Scoring(a.scores)
            OBVIOUS
        <3> DEFINE a == Repairs!CompileItem(items[i], i, proposals)
        <3>1. i \in Nat /\ items[i].priority \in Int /\ Scoring(items[i].scores)
            BY DEF ItemList
        <3>2. a.priority = Repairs!Priority(items[i]) /\ a.place = i
            BY DEF Repairs!CompileItem
        <3>3. Repairs!Priority(items[i]) \in Int
            BY <3>1 DEF Repairs!Priority
        <3>4. a.scores = items[i].scores \/ \E ids : a.scores = [id \in ids |-> 0]
            <4> DEFINE wanted == Repairs!InferActionType(items[i])
                       ids == IF items[i].ids = {} /\ wanted \in {"exclude", "rescore"}
                              THEN Repairs!CandidateIds(items[i].affected, proposals,
                                       Repairs!InferTargetType(items[i]), items[i].leg)
                              ELSE items[i].ids
            <4>1. a.scores = IF wanted = "rescore" /\ items[i].scores = << >>
                             THEN [id \in ids |-> 0] ELSE items[i].scores
                BY DEF Repairs!CompileItem
            <4> HIDE DEF ids, wanted, a
            <4> QED
                BY <4>1
        <3> HIDE DEF a
        <3>5. Scoring(a.scores)
            <4>1. CASE a.scores = items[i].scores
                BY <3>1, <4>1
            <4>2. CASE \E ids : a.scores = [id \in ids |-> 0]
                <5>1. PICK ids : a.scores = [id \in ids |-> 0]
                    BY <4>2
                <5>2. DOMAIN a.scores = ids /\ \A id \in ids : a.scores[id] = 0
                    BY <5>1
                <5> QED
                    BY <5>2 DEF Scoring
            <4> QED
                BY <3>4, <4>1, <4>2
        <3> QED
            BY <3>1, <3>2, <3>3, <3>5 DEF a
    <2> HIDE DEF compiled, actions
    <2>4. rescores \subseteq {compiled[i] : i \in DOMAIN items}
        BY <1>1, <2>1
    <2> QED
        BY <2>2, <2>3, <2>4, FS_Subset
<1> QED
    BY <1>2, <1>3

LEMMA AppliedScores ==
    ASSUME NEW items, ItemList(items), NEW findings, NEW continue, NEW proposals,
           NEW limits, Scoring(limits.overrides)
    PROVE  Scoring(Repairs!Apply(Repairs!Compile(items, findings, continue, proposals),
                                 limits).overrides)
<1> DEFINE actions == Repairs!Compile(items, findings, continue, proposals)
           rescores == {a \in Repairs!Executable(actions) : a.action = "rescore"}
<1>1. Repairs!Apply(actions, limits).overrides = Repairs!Override(limits.overrides, rescores)
    BY DEF Repairs!Apply
<1>2. /\ IsFiniteSet(rescores)
      /\ \A a \in rescores : a.priority \in Int /\ a.place \in Int /\ Scoring(a.scores)
    BY RescoresTyped
<1> HIDE DEF rescores
<1> QED
    BY <1>1, <1>2, OverrideScores
-----------------------------------------------------------------------------
(* The invariant: the input stays a request, the store a catalogue, and a  *)
(* repair has typed items; the plan under review is the planner's answer   *)
(* to that very input.                                                     *)
Inputs ==
    /\ Request(in) /\ Catalogue(store)
    /\ stage = "repair" => ItemList(report.items)

Planned == stage = "review" => plan = PlanItinerary(in) /\ plan.ok

Inv == Inputs /\ Planned

LEMMA NightsType ==
    ASSUME Request(in)
    PROVE  Nights \in Nat
<1>1. in.returnDay \in Int
    BY DEF Request
<1>2. CASE 1 >= in.returnDay
    BY <1>1, <1>2 DEF Nights, Max
<1>3. CASE in.returnDay >= 1
    BY <1>1, <1>3 DEF Nights, Max
<1> QED
    BY <1>1, <1>2, <1>3

(* Candidates a trip may have. *)
Stock(found) ==
    /\ found.transports \subseteq Legs /\ Unique(found.transports)
    /\ found.hotels \subseteq Stays /\ Unique(found.hotels)

LEMMA MergedStock ==
    ASSUME NEW left, Stock(left), NEW right, NEW nights, Finds(right, nights)
    PROVE  /\ Stock(Sourcing!MergeCandidates(left, right))
           /\ Sourcing!MergeCandidates(left, right).hotels \subseteq left.hotels \cup StaysFor(nights)
<1> DEFINE all == Sourcing!MergeCandidates(left, right)
<1>1. /\ all.transports = Sourcing!MergeById(left.transports, right.transports)
      /\ all.hotels = Sourcing!MergeById(left.hotels, right.hotels)
    BY DEF Sourcing!MergeCandidates
<1> HIDE DEF all
<1>2. /\ all.transports \subseteq left.transports \cup right.transports /\ Unique(all.transports)
      /\ all.hotels \subseteq left.hotels \cup right.hotels /\ Unique(all.hotels)
    BY <1>1, MergedIn
<1> QED
    BY <1>2 DEF Stock, Finds, StaysFor, all

LEMMA InitInv == Init => Inv
<1> SUFFICES ASSUME Init
             PROVE  Inv
    OBVIOUS
<1>1. Request(in)
    BY RoundsAssumption DEF Init
<1>2. Catalogue(store)
    BY DEF Init, Catalogue
<1> QED
    BY <1>1, <1>2 DEF Init, Inv, Inputs, Planned

LEMMA ShellKeeps ==
    ASSUME Inv, NEW market \in Markets, NEW call \in DOMAIN market.answers["tuniu-cli"],
           ShellSearch(call, market.answers["tuniu-cli"][call])
    PROVE  Inv' /\ in' = in
<1> DEFINE offers == market.answers["tuniu-cli"][call]
           answer == [c \in {call} |-> offers]
<1>1. Catalogue(answer)
    <2>1. Catalogue(market.answers["tuniu-cli"])
        BY RoundsAssumption DEF Providers
    <2>2. call \in Calls /\ offers \in Seq(Offers(call[1]))
        BY <2>1 DEF Catalogue
    <2> HIDE DEF offers
    <2> QED
        BY <2>2 DEF Catalogue
<1>2. store' = Sourcing!Capture(store, TRUE, answer)
    BY DEF ShellSearch
<1> HIDE DEF answer
<1>3. Catalogue(store)'
    BY <1>1, <1>2, CaptureIn DEF Inv, Inputs
<1>4. UNCHANGED <<in, plan, report, round, stage>>
    BY DEF ShellSearch
<1>5. Request(in)' /\ (stage' = "repair" => ItemList(report'.items))
    BY <1>4 DEF Inv, Inputs
<1>6. Planned'
    BY <1>4 DEF Inv, Planned
<1> QED
    BY <1>3, <1>4, <1>5, <1>6 DEF Inv, Inputs

(* The first search keeps the candidates of the chat, adds the stored ones *)
(* and adds what the providers find.                                       *)
LEMMA EnsureKeeps ==
    ASSUME Inv, NEW market \in Markets, EnsureCandidates(market)
    PROVE  /\ Inv' /\ in'.hotels \subseteq in.hotels \cup StaysFor(Nights)
           /\ in'.returnDay = in.returnDay
<1> DEFINE kept == Sourcing!MergeCandidates(Candidates, Sourcing!BuildCandidates(store, Nights))
           stored == IF Sourcing!Plannable(Candidates) THEN Candidates ELSE kept
           more == Sourcing!MergeCandidates(stored, Sourcing!Search({}, store, market, Nights))
           all == IF Sourcing!Plannable(stored) THEN stored ELSE more
           bound == in.hotels \cup StaysFor(Nights)
<1>1. Request(in) /\ Catalogue(store) /\ Nights \in Nat
    BY NightsType DEF Inv, Inputs
<1>2. Stock(Candidates) /\ Candidates.hotels = in.hotels
    BY <1>1 DEF Stock, Candidates, Request
<1>3. Stock(stored) /\ stored.hotels \subseteq bound
    <2>1. Finds(Sourcing!BuildCandidates(store, Nights), Nights)
        BY <1>1, BuiltIn
    <2>2. Stock(kept) /\ kept.hotels \subseteq bound
        BY <1>2, <2>1, MergedStock
    <2> HIDE DEF kept
    <2> QED
        BY <1>2, <2>2
<1> HIDE DEF stored
<1>4. Stock(all) /\ all.hotels \subseteq bound
    <2>1. Finds(Sourcing!Search({}, store, market, Nights), Nights)
        BY <1>1, SearchFinds
    <2>2. Stock(more) /\ more.hotels \subseteq bound
        BY <1>3, <2>1, MergedStock
    <2> HIDE DEF more
    <2> QED
        BY <1>3, <2>2
<1>5. /\ in' = [in EXCEPT !.transports = all.transports, !.hotels = all.hotels]
      /\ stage' = "generate" /\ store' = store
    BY DEF EnsureCandidates, stored
<1> HIDE DEF all
<1>6. /\ DOMAIN in' = DOMAIN in /\ in'.transports = all.transports /\ in'.hotels = all.hotels
      /\ in'.returnDay = in.returnDay /\ in'.supplied = in.supplied /\ in'.given = in.given
      /\ in'.overrides = in.overrides
    BY <1>1, <1>5 DEF Request
<1>7. Request(in')
    BY <1>1, <1>4, <1>6 DEF Request, Stock
<1>8. Catalogue(store')
    BY <1>1, <1>5
<1> QED
    BY <1>4, <1>5, <1>6, <1>7, <1>8 DEF Inv, Inputs, Planned

LEMMA GenerateKeeps ==
    ASSUME Inv, Generate
    PROVE  Inv' /\ in' = in
<1>1. UNCHANGED <<store, in, report>> /\ plan' = PlanItinerary(in)
      /\ stage' = IF plan'.ok THEN "review" ELSE "render"
    BY DEF Generate
<1>2. PlanItinerary(in)' = PlanItinerary(in)
    BY <1>1
<1>3. Planned'
    BY <1>1, <1>2 DEF Planned
<1>4. Request(in') /\ Catalogue(store') /\ stage' # "repair"
    BY <1>1 DEF Inv, Inputs
<1> QED
    BY <1>1, <1>3, <1>4 DEF Inv, Inputs

(* A review passes the items of the arbitrator on, or has none. *)
LEMMA ReviewItems ==
    ASSUME NEW proposals, NEW policy, NEW today, NEW assessors, NEW answer
    PROVE  Review!ReviewItinerary(proposals, policy, today, assessors, answer).items
             \in {answer.items, << >>}
<1> DEFINE objective == Review!ObjectiveBatch(proposals, policy, today)
           subjective == {Review!Assessed(a) : a \in assessors}
           arbitrated == Review!Arbitrate(objective, subjective, answer)
           arbitration == Review!Vetoed(objective, arbitrated)
<1>1. Review!ReviewItinerary(proposals, policy, today, assessors, answer).items = arbitration.items
    BY DEF Review!ReviewItinerary
<1>2. arbitrated.items \in {answer.items, << >>}
    BY DEF Review!Arbitrate, Review!FallbackArbitrate
<1>3. arbitration.items = arbitrated.items
    <2>1. {"verdict", "items"} \subseteq DOMAIN arbitrated
        BY DEF Review!Arbitrate, Review!FallbackArbitrate
    <2> HIDE DEF arbitrated, objective
    <2> QED
        BY <2>1 DEF Review!Vetoed
<1> HIDE DEF arbitration, arbitrated
<1> QED
    BY <1>1, <1>2, <1>3

LEMMA AnswerItems ==
    ASSUME NEW answer \in Answers
    PROVE  ItemList(answer.items) /\ ItemList(<< >>)
<1>1. ItemList(<< >>)
    <2>1. DOMAIN << >> = {}
        OBVIOUS
    <2> QED
        BY <2>1, FS_EmptySet DEF ItemList
<1>2. \/ answer.items = << >>
      \/ \E p : \E kinds \in ItemKinds :
           answer.items = [i \in DOMAIN kinds |-> [kinds[i] EXCEPT !.affected = {p}]]
    <2> DEFINE named(kinds, p) == [i \in DOMAIN kinds |-> [kinds[i] EXCEPT !.affected = {p}]]
               idents == {Ident(q.row.combo) : q \in plan.proposals}
               failed == [failed |-> TRUE, verdict |-> "none", items |-> << >>,
                          recommended |-> Review!NoProposal]
               given(v, kinds, p) == [failed |-> FALSE, verdict |-> v,
                                      recommended |-> p, items |-> named(kinds, p)]
    <2>1. answer = failed \/ \E v \in Verdicts, kinds \in ItemKinds, p \in idents :
                                answer = given(v, kinds, p)
        BY DEF Answers
    <2>2. failed.items = << >>
        OBVIOUS
    <2>3. \A v, kinds, p : given(v, kinds, p).items = named(kinds, p)
        OBVIOUS
    <2> HIDE DEF failed, given, idents
    <2>4. CASE answer = failed
        BY <2>2, <2>4
    <2>5. ASSUME NEW v, NEW kinds \in ItemKinds, NEW p, answer = given(v, kinds, p)
          PROVE  \E q : \E k \in ItemKinds : answer.items = named(k, q)
        <3>1. answer.items = named(kinds, p)
            BY <2>3, <2>5
        <3> HIDE DEF named
        <3> QED
            BY <3>1
    <2>6. answer.items = << >> \/ \E q : \E k \in ItemKinds : answer.items = named(k, q)
        <3>1. CASE answer # failed
            <4>1. PICK v \in Verdicts, kinds \in ItemKinds, p \in idents : answer = given(v, kinds, p)
                BY <2>1, <3>1
            <4> QED
                BY <2>5, <4>1
        <3> QED
            BY <2>4, <3>1
    <2> QED
        BY <2>6
<1>3. ASSUME NEW kinds \in ItemKinds, NEW p,
             answer.items = [i \in DOMAIN kinds |-> [kinds[i] EXCEPT !.affected = {p}]]
      PROVE  ItemList(answer.items)
    <2>1. ItemList(kinds)
        BY RoundsAssumption
    <2>2. DOMAIN answer.items = DOMAIN kinds
        BY <1>3
    <2>3. ASSUME NEW i \in DOMAIN kinds
          PROVE  /\ DOMAIN answer.items[i] = DOMAIN kinds[i]
                 /\ answer.items[i].priority = kinds[i].priority
                 /\ answer.items[i].scores = kinds[i].scores
        <3>1. {"affected", "priority", "scores"} \subseteq DOMAIN kinds[i]
            BY <2>1 DEF ItemList
        <3> QED
            BY <1>3, <3>1
    <2> QED
        BY <2>1, <2>2, <2>3 DEF ItemList
<1> QED
    BY <1>1, <1>2, <1>3

LEMMA ReviewKeeps ==
    ASSUME Inv, NEW assessors, NEW answer \in Answers, ReviewProposals(assessors, answer)
    PROVE  Inv' /\ in' = in
<1>1. UNCHANGED <<store, in, plan>> /\ stage' \in {"repair", "render"}
    BY DEF ReviewProposals
<1>2. report'.items \in {answer.items, << >>}
    BY ReviewItems DEF ReviewProposals
<1>3. ItemList(report'.items)
    BY <1>2, AnswerItems
<1>4. Request(in') /\ Catalogue(store')
    BY <1>1 DEF Inv, Inputs
<1> QED
    BY <1>1, <1>3, <1>4 DEF Inv, Inputs, Planned

(* A repair excludes, rescores and searches more; what the input holds     *)
(* stays sound.                                                            *)
LEMMA RepairKeeps ==
    ASSUME Inv, NEW remarks, NEW market \in Markets, RepairPlan(remarks, market)
    PROVE  /\ Inv' /\ in'.hotels \subseteq in.hotels \cup StaysFor(Nights)
           /\ in'.returnDay = in.returnDay
<1> DEFINE actions == Repairs!Compile(report.items, Findings(remarks), report.continue, ProposalIndex)
           next == Repairs!Apply(actions, Limits)
           requests == {[target |-> t, direction |-> "both"] : t \in next.searches}
           more == Sourcing!MergeCandidates(Candidates, Sourcing!Search(requests, store, market, Nights))
           all == IF requests = {} THEN Candidates ELSE more
           bound == in.hotels \cup StaysFor(Nights)
<1>1. Request(in) /\ Catalogue(store) /\ Nights \in Nat /\ ItemList(report.items)
    BY NightsType DEF Inv, Inputs, RepairPlan
<1>2. Stock(Candidates) /\ Candidates.hotels = in.hotels
    BY <1>1 DEF Stock, Candidates, Request
<1>3. Scoring(next.overrides)
    <2>1. Scoring(Limits.overrides)
        BY <1>1 DEF Limits, Request
    <2> QED
        BY <1>1, <2>1, AppliedScores
<1> HIDE DEF next
<1>4. Stock(all) /\ all.hotels \subseteq bound
    <2>1. Finds(Sourcing!Search(requests, store, market, Nights), Nights)
        BY <1>1, SearchFinds
    <2> HIDE DEF requests
    <2>2. Stock(more) /\ more.hotels \subseteq bound
        BY <1>2, <2>1, MergedStock
    <2> HIDE DEF more
    <2> QED
        BY <1>2, <2>2
<1>5. /\ in' = [in EXCEPT !.excludedTransports = next.transports,
                          !.excludedHotels = next.hotels,
                          !.overrides = next.overrides,
                          !.transports = all.transports, !.hotels = all.hotels]
      /\ stage' \in {"generate", "render"} /\ store' = store
    BY DEF RepairPlan, next
<1> HIDE DEF all
<1>6. /\ DOMAIN in' = DOMAIN in /\ in'.transports = all.transports /\ in'.hotels = all.hotels
      /\ in'.returnDay = in.returnDay /\ in'.supplied = in.supplied /\ in'.given = in.given
      /\ in'.overrides = next.overrides
    BY <1>1, <1>5 DEF Request
<1>7. Request(in')
    BY <1>1, <1>3, <1>4, <1>6 DEF Request, Stock
<1>8. Catalogue(store')
    BY <1>1, <1>5
<1> QED
    BY <1>4, <1>5, <1>6, <1>7, <1>8 DEF Inv, Inputs, Planned

LEMMA RenderKeeps ==
    ASSUME Inv, RenderPlan
    PROVE  Inv' /\ in' = in
<1>1. UNCHANGED <<store, in, plan, report>> /\ stage' = "completed"
    BY DEF RenderPlan
<1> QED
    BY <1>1 DEF Inv, Inputs, Planned

(* Every step keeps the invariant, and adds no hotel but for the nights of *)
(* the trip.                                                               *)
LEMMA Keeps ==
    ASSUME Inv, [Next]_vars
    PROVE  /\ Inv' /\ in'.hotels \subseteq in.hotels \cup StaysFor(Nights)
           /\ in'.returnDay = in.returnDay
<1>1. CASE UNCHANGED vars
    <2>1. UNCHANGED <<store, in, plan, report, stage>>
        BY <1>1 DEF vars
    <2> QED
        BY <2>1 DEF Inv, Inputs, Planned
<1>2. ASSUME NEW market \in Markets, NEW call \in DOMAIN market.answers["tuniu-cli"],
             ShellSearch(call, market.answers["tuniu-cli"][call])
      PROVE  Inv' /\ in' = in
    BY <1>2, ShellKeeps
<1>3. ASSUME NEW market \in Markets, EnsureCandidates(market)
      PROVE  /\ Inv' /\ in'.hotels \subseteq in.hotels \cup StaysFor(Nights)
             /\ in'.returnDay = in.returnDay
    BY <1>3, EnsureKeeps
<1>4. ASSUME NEW market \in Markets, NEW remarks, RepairPlan(remarks, market)
      PROVE  /\ Inv' /\ in'.hotels \subseteq in.hotels \cup StaysFor(Nights)
             /\ in'.returnDay = in.returnDay
    BY <1>4, RepairKeeps
<1>5. CASE Generate
    BY <1>5, GenerateKeeps
<1>6. ASSUME NEW assessors, NEW answer \in Answers, ReviewProposals(assessors, answer)
      PROVE  Inv' /\ in' = in
    BY <1>6, ReviewKeeps
<1>7. CASE RenderPlan
    BY <1>7, RenderKeeps
<1> QED
    BY <1>1, <1>2, <1>3, <1>4, <1>5, <1>6, <1>7 DEF Next

(* The input of the planner stays well formed, whatever is captured, found *)
(* or repaired, and the plan under review is the planner's answer to it.   *)
THEOREM PlanOfItsInput == Spec => []Inv
<1>1. Inv /\ [Next]_vars => Inv'
    BY Keeps
<1> QED
    BY <1>1, InitInv, PTL DEF Spec
-----------------------------------------------------------------------------
(* The properties. *)

(* Every plan that goes to the review offers each tag once, only what is   *)
(* not excluded and goes together in time, and a cheapest proposal that    *)
(* yields 15 percent at most, and only to comfort.                         *)
LEMMA SoundPlan ==
    ASSUME Inv
    PROVE  RepresentativesSound
<1> SUFFICES ASSUME stage = "review"
             PROVE  RepresentativesSound
    BY DEF RepresentativesSound
<1>1. Request(in) /\ plan = PlanItinerary(in) /\ plan.ok
    BY DEF Inv, Inputs, Planned
<1>2. PICK rows : RowsOf(rows, in) /\ plan.proposals = Proposals(rows)
    BY <1>1, PlanRows
<1>3. /\ IsFiniteSet(rows) /\ rows # {} /\ \A r \in rows : RowFields(r)
      /\ \A r \in rows : r.combo \in Combinations(SearchSpace(in))
    BY <1>2 DEF RowsOf
<1>4. \A p \in plan.proposals : p.row \in rows
    <2>1. \A p \in plan.proposals : \E t \in TagNames : p.row = Picks(rows)[t]
        BY <1>2 DEF Proposals
    <2> QED
        BY <1>3, <2>1, PicksIn
<1>5. ASSUME NEW t \in TagNames
      PROVE  Cardinality(Tagged(t)) = 1
    <2>1. Tagged(t) = {p \in Proposals(rows) : t \in p.tags}
        BY <1>2 DEF Tagged
    <2> QED
        BY <2>1, OneEach
<1>6. plan.proposals # {}
    BY <1>2, TagSet DEF Proposals
<1>7. ASSUME NEW p \in plan.proposals
      PROVE  LET c == p.row.combo
             IN  /\ {c.out.id, c.back.id} \cap in.excludedTransports = {}
                 /\ c.hotel.id \notin in.excludedHotels
                 /\ InOrder(c.out, c.back)
    <2>1. p.row.combo \in Combinations(SearchSpace(in))
        BY <1>3, <1>4
    <2> QED
        BY <2>1 DEF Combinations, SearchSpace
<1>8. \A c, d \in in.transports \cup in.hotels : c.id = d.id => c = d
    <2>1. /\ \A c \in in.transports : c.id \in TransportIds
          /\ \A c \in in.hotels : c.id \in HotelIds
          /\ Unique(in.transports) /\ Unique(in.hotels)
        BY <1>1, LegFields, StayFields DEF Request
    <2>2. TransportIds \cap HotelIds = {}
        BY RoundsAssumption
    <2> QED
        BY <2>1, <2>2 DEF Unique
<1>9. ASSUME NEW p \in Tagged("price"), NEW q \in plan.proposals
      PROVE  /\ 100 * p.row.price <= 115 * q.row.price
             /\ q.row.price < p.row.price => q.row.flagged /\ ~p.row.flagged
    <2>1. p.row = ExperienceAware(rows, "price", "time")
        <3>1. "price" \in TagNames /\ Picks(rows)["price"] = ExperienceAware(rows, "price", "time")
            BY TagSet DEF Picks
        <3>2. p.row = Picks(rows)["price"]
            BY <1>2, <3>1, OneEach DEF Tagged
        <3> QED
            BY <3>1, <3>2
    <2>2. q.row \in rows
        BY <1>4
    <2> QED
        BY <1>3, <2>1, <2>2, CheapAndClean
<1> QED
    BY <1>5, <1>6, <1>7, <1>8, <1>9 DEF RepresentativesSound

THEOREM SoundRepresentatives == Spec => []RepresentativesSound
    BY PlanOfItsInput, SoundPlan, PTL

(* All hotels of a trip are for its nights. *)
OneStay == in.hotels \subseteq StaysFor(Nights)

LEMMA DearerByParts ==
    ASSUME NEW a \in Nat, NEW b \in Nat, NEW n \in Nat, a <= b
    PROVE  a * n <= b * n
OBVIOUS

LEMMA CheapPlan ==
    ASSUME Inv, OneStay
    PROVE  CheapestSurvives
<1> SUFFICES ASSUME stage = "review",
                    \A o \in Cheapest(Space.out), b \in Cheapest(Space.back) : InOrder(o, b),
                    NEW p \in Tagged("price"), NEW c \in Combinations(Space), c.hotel.price > 0
             PROVE  100 * p.row.price <= 115 * TotalPrice(c)
    BY DEF CheapestSurvives
<1>1. Request(in) /\ plan = PlanItinerary(in) /\ plan.ok
    BY DEF Inv, Inputs, Planned
<1>2. PICK rows : /\ RowsOf(rows, in) /\ plan.proposals = Proposals(rows)
                  /\ \E r \in rows : Bargain(r.combo, Space)
    BY <1>1, PlanRows DEF Space
<1>3. PICK r \in rows : Bargain(r.combo, Space)
    BY <1>2
<1>4. p.row = ExperienceAware(rows, "price", "time")
    <2>1. "price" \in TagNames /\ Picks(rows)["price"] = ExperienceAware(rows, "price", "time")
        BY TagSet DEF Picks
    <2>2. p.row = Picks(rows)["price"]
        BY <1>2, <2>1, OneEach DEF Tagged
    <2> QED
        BY <2>1, <2>2
<1>5. 100 * p.row.price <= 115 * r.price
    BY <1>2, <1>4, CheapAndClean DEF RowsOf
<1>6. p.row.price \in Nat /\ r.price \in Nat /\ r.price = TotalPrice(r.combo)
    <2>1. p.row \in rows
        BY <1>2, <1>4, AwareIn DEF RowsOf, Columns
    <2> QED
        BY <1>2, <2>1 DEF RowsOf, RowFields
<1> DEFINE d == r.combo
<1>7. /\ {d.out, c.out, d.back, c.back} \subseteq Legs /\ {d.hotel, c.hotel} \subseteq StaysFor(Nights)
      /\ d.out.price <= c.out.price /\ d.back.price <= c.back.price
      /\ d.hotel.price <= c.hotel.price
    <2>1. /\ c.out \in Space.out /\ c.hotel \in Space.hotels /\ c.back \in Space.back
          /\ d.out \in Space.out /\ d.hotel \in Space.hotels /\ d.back \in Space.back
        BY <1>3 DEF Bargain, Combinations
    <2>2. Space.out \subseteq Legs /\ Space.back \subseteq Legs /\ Space.hotels \subseteq in.hotels
        BY <1>1, SpaceTypes DEF Space
    <2> QED
        BY <1>3, <2>1, <2>2 DEF Bargain, Undercuts, UndercutsPriced, OneStay
<1> HIDE DEF d
<1>8. TotalPrice(d) \in Nat /\ TotalPrice(c) \in Nat /\ TotalPrice(d) <= TotalPrice(c)
    <2> DEFINE n == IF Nights = 0 THEN 1 ELSE Nights
    <2>1. /\ d.out.price \in Nat /\ d.back.price \in Nat /\ d.hotel.price \in Nat
          /\ c.out.price \in Nat /\ c.back.price \in Nat /\ c.hotel.price \in Nat
          /\ Stayed(d.hotel) = n /\ Stayed(c.hotel) = n /\ n \in Nat
        BY <1>1, <1>7, LegFields, StayFields, NightsType DEF StaysFor, Stayed
    <2> HIDE DEF n
    <2>2. /\ d.hotel.price * n <= c.hotel.price * n
          /\ d.hotel.price * n \in Nat /\ c.hotel.price * n \in Nat
        BY <1>7, <2>1, DearerByParts
    <2>3. /\ TotalPrice(d) = d.out.price + d.back.price + d.hotel.price * n
          /\ TotalPrice(c) = c.out.price + c.back.price + c.hotel.price * n
        BY <2>1 DEF TotalPrice
    <2> QED
        BY <1>7, <2>1, <2>2, <2>3
<1> QED
    BY <1>5, <1>6, <1>8 DEF d

(* No combination of the whole search space with a priced hotel undercuts  *)
(* the cheapest proposal by more than the 15 percent of its comfort, for   *)
(* any trips, markets and settings of the pruning, when the chat's hotels  *)
(* are for the nights of the trip.                                         *)
THEOREM NothingCheaper == ASSUME SameNights PROVE Spec => []CheapestSurvives
<1>1. Init => OneStay
    <2> SUFFICES ASSUME Init
                 PROVE  OneStay
        OBVIOUS
    <2>1. in \in Trips /\ Request(in)
        BY RoundsAssumption DEF Init
    <2> QED
        BY <2>1 DEF SameNights, OneStay, StaysFor, Nights, Request
<1>2. Inv /\ OneStay /\ [Next]_vars => OneStay'
    <2> SUFFICES ASSUME Inv, OneStay, [Next]_vars
                 PROVE  OneStay'
        OBVIOUS
    <2>1. in'.hotels \subseteq in.hotels \cup StaysFor(Nights) /\ in'.returnDay = in.returnDay
        BY Keeps
    <2>2. Nights' = Nights
        BY <2>1 DEF Nights
    <2> QED
        BY <2>1, <2>2 DEF OneStay, StaysFor
<1> QED
    BY <1>1, <1>2, PlanOfItsInput, CheapPlan, PTL DEF Spec
-----------------------------------------------------------------------------
(* The veto. *)

(* A failed proposal fails the batch. *)
LEMMA FailedBatch ==
    ASSUME NEW proposals, NEW policy, NEW today,
           NEW i \in DOMAIN Review!ObjectiveBatch(proposals, policy, today).status,
           Review!ObjectiveBatch(proposals, policy, today).status[i] = "fail"
    PROVE  Review!ObjectiveBatch(proposals, policy, today).verdict = "fail"
<1> DEFINE batch == Review!ObjectiveBatch(proposals, policy, today)
           overall == [j \in DOMAIN proposals |->
                          Review!ObjectiveReview(proposals[j].view, policy, today).overall]
<1>1. CASE proposals = << >>
    BY <1>1 DEF Review!ObjectiveBatch
<1>2. CASE proposals # << >>
    <2>1. /\ batch.status = overall
          /\ batch.verdict = Review!Worst({overall[j] : j \in DOMAIN proposals})
        BY <1>2 DEF Review!ObjectiveBatch
    <2>2. DOMAIN overall = DOMAIN proposals
        OBVIOUS
    <2> HIDE DEF batch, overall
    <2>3. i \in DOMAIN proposals /\ overall[i] = "fail"
        BY <2>1, <2>2 DEF batch
    <2> QED
        BY <2>1, <2>3 DEF batch, Review!Worst
<1> QED
    BY <1>1, <1>2

(* What the objective review fails, the report fails, and asks for a       *)
(* repair.                                                                 *)
Vetoes(review) ==
    (\E i \in DOMAIN review.objective.status : review.objective.status[i] = "fail") =>
        /\ review.verdict = "fail" /\ review.vetoed /\ review.continue

LEMMA ReviewVetoes ==
    ASSUME NEW proposals, NEW policy, NEW today, NEW assessors, NEW answer, NEW review,
           review = Review!ReviewItinerary(proposals, policy, today, assessors, answer)
    PROVE  /\ Vetoes(review)
           /\ review.verdict = "fail" => review.continue
<1> DEFINE objective == Review!ObjectiveBatch(proposals, policy, today)
           subjective == {Review!Assessed(a) : a \in assessors}
           arbitrated == Review!Arbitrate(objective, subjective, answer)
           arbitration == Review!Vetoed(objective, arbitrated)
<1>1. /\ review.verdict = arbitration.verdict /\ review.vetoed = (objective.verdict = "fail")
      /\ review.continue = Review!ContinueRemediation(arbitration)
      /\ review.objective = objective
    BY DEF Review!ReviewItinerary
<1>2. "verdict" \in DOMAIN arbitrated
    BY DEF Review!Arbitrate, Review!FallbackArbitrate
<1>3. (\E i \in DOMAIN objective.status : objective.status[i] = "fail") => objective.verdict = "fail"
    BY FailedBatch
<1> HIDE DEF objective, arbitrated
<1>4. objective.verdict = "fail" => arbitration.verdict = "fail"
    BY <1>2 DEF Review!Vetoed
<1> HIDE DEF arbitration
<1>5. arbitration.verdict = "fail" => Review!ContinueRemediation(arbitration)
    BY DEF Review!ContinueRemediation
<1> QED
    BY <1>1, <1>3, <1>4, <1>5 DEF Vetoes

(* The invariant: a report vetoes, and before the first repair the run is  *)
(* on its way to it whenever the report fails.                             *)
VetoInv ==
    /\ round \in Nat
    /\ report # NoReport =>
         /\ Vetoes(report)
         /\ round = 0 => /\ stage \in {"repair", "render", "completed"}
                         /\ report.verdict = "fail" => stage = "repair"

(* Whatever the assessors and the arbitrator answer, a failed objective    *)
(* check fails the plan, and the plan is repaired at least once before a   *)
(* run ends on it.                                                         *)
THEOREM VetoHolds == Spec => []VetoStands
<1>1. Init => VetoInv
    BY DEF Init, VetoInv
<1>2. VetoInv /\ [Next]_vars => VetoInv'
    <2> SUFFICES ASSUME VetoInv, [Next]_vars
                 PROVE  VetoInv'
        OBVIOUS
    <2>1. CASE UNCHANGED vars
        <3>1. UNCHANGED <<report, round, stage>>
            BY <2>1 DEF vars
        <3> QED
            BY <3>1 DEF VetoInv
    <2>2. ASSUME NEW market, NEW call,
                 ShellSearch(call, market.answers["tuniu-cli"][call])
          PROVE  VetoInv'
        <3>1. UNCHANGED <<report, round, stage>>
            BY <2>2 DEF ShellSearch
        <3> QED
            BY <3>1 DEF VetoInv
    <2>3. ASSUME NEW market, EnsureCandidates(market)
          PROVE  VetoInv'
        <3>1. stage = "candidates" /\ UNCHANGED <<report, round>>
            BY <2>3 DEF EnsureCandidates
        <3> QED
            BY <3>1 DEF VetoInv
    <2>4. CASE Generate
        <3>1. stage = "generate" /\ UNCHANGED <<report, round>>
            BY <2>4 DEF Generate
        <3> QED
            BY <3>1 DEF VetoInv
    <2>5. ASSUME NEW assessors, NEW answer, ReviewProposals(assessors, answer)
          PROVE  VetoInv'
        <3>1. Vetoes(report') /\ (report'.verdict = "fail" => report'.continue)
            BY <2>5, ReviewVetoes DEF ReviewProposals
        <3>2. /\ stage' = IF report'.continue /\ round < MaxRepairs THEN "repair" ELSE "render"
              /\ round' = round
            BY <2>5 DEF ReviewProposals, ShouldRepair
        <3>3. MaxRepairs \in Nat \ {0}
            BY RoundsAssumption
        <3> QED
            BY <3>1, <3>2, <3>3 DEF VetoInv
    <2>6. ASSUME NEW market, NEW remarks, RepairPlan(remarks, market)
          PROVE  VetoInv'
        <3>1. round' = round + 1 /\ report' = report
            BY <2>6 DEF RepairPlan
        <3>2. round' \in Nat /\ round' # 0
            BY <3>1 DEF VetoInv
        <3> QED
            BY <3>1, <3>2 DEF VetoInv, Vetoes
    <2>7. CASE RenderPlan
        <3>1. stage = "render" /\ stage' = "completed" /\ UNCHANGED <<report, round>>
            BY <2>7 DEF RenderPlan
        <3> QED
            BY <3>1 DEF VetoInv
    <2> QED
        BY <2>1, <2>2, <2>3, <2>4, <2>5, <2>6, <2>7 DEF Next
<1>3. VetoInv => VetoStands
    BY DEF VetoInv, Vetoes, VetoStands
<1> QED
    BY <1>1, <1>2, <1>3, PTL DEF Spec
=============================================================================
