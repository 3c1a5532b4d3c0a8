------------------------- MODULE ScalarStats_proofs -------------------------
(***************************************************************************)
(* For any number of threads, any mesh and any values: however the points  *)
(* are divided and the partial values joined, the statistics are exact.    *)
(***************************************************************************)
EXTENDS ScalarStats, TLAPS

Visited == IF comp = "none" THEN {} ELSE sel[comp] \ left

Passed ==
  CASE comp = "D"  -> {}
    [] comp = "Rx" -> {"D"}
    [] comp = "Ry" -> {"D", "Rx"}
    [] comp = "Rz" -> {"D", "Rx", "Ry"}
    [] OTHER       -> Spaces

Partial == [min : -Inf .. Inf, max : -Inf .. Inf, val : -Inf .. Inf, loc : Int]

(* Error of a solution v. *)
ErrorIn(v, p) ==
  IF v[p] = NaN THEN NaN ELSE IF IsReal(v[p]) THEN Magnitude(v[p] - Sol(p)) ELSE Inf

(* Every entry of a partial value is the identity's or comes from a point  *)
(* of V.                                                                   *)
Sound(v, r, V) ==
  /\ r.min = MaxReal \/ \E p \in V : v[p] # NaN /\ r.min = v[p]
  /\ r.max = -MaxReal \/ \E p \in V : v[p] # NaN /\ r.max = v[p]
  /\ r.val = -MaxReal \/ (r.loc \in V /\ v[r.loc] # NaN /\ r.val = ErrorIn(v, r.loc))

(* A partial value accounts for point p. *)
Bounds(v, r, p) ==
  v[p] # NaN => r.min <= v[p] /\ v[p] <= r.max /\ ErrorIn(v, p) <= r.val

StatsTypeOK ==
  /\ sel \in Selections /\ u \in [Points -> Values]
  /\ comp \in Spaces \cup {"none"}
  /\ left \in SUBSET Points /\ live \in SUBSET Threads
  /\ part \in [Threads -> Partial] /\ total \in [Spaces -> Partial]

(* The points a component's threads have visited are accounted for by a    *)
(* value that is still to be joined, and the components already reduced by *)
(* their totals.                                                           *)
StatsInv ==
  /\ StatsTypeOK
  /\ left \subseteq IF comp = "none" THEN {} ELSE sel[comp]
  /\ left # {} => live = Threads
  /\ \A t \in Threads : Sound(u, part[t], Visited)
  /\ \A p \in Visited : \E t \in live : Bounds(u, part[t], p)
  /\ \A c \in Spaces : c \notin Passed \/ sel[c] = {} => total[c] = Nothing
  /\ \A c \in Passed : sel[c] # {} =>
       Sound(u, total[c], sel[c]) /\ \A p \in sel[c] : Bounds(u, total[c], p)
  /\ stats # NoStats =>
       /\ comp = "none"
       /\ stats = [err |-> Linf, min |-> Extremes.min, max |-> Extremes.max,
                   at |-> total["D"].loc]

-----------------------------------------------------------------------------
(* A point's value is NaN or a number, and then so is its error. *)
LEMMA PointValues ==
  ASSUME StatsTypeOK, NEW p \in Points
  PROVE  /\ p \in Nat
         /\ u[p] # NaN => u[p] \in -Inf .. Inf /\ Error(p) \in 0 .. Inf
         /\ IsReal(u[p]) => Error(p) \in 0 .. 200
<1>1. /\ p \in Nat /\ Sol(p) \in -100 .. 100
  BY ScalarStatsAssumption DEF StatsTypeOK, Points, Spaces
<1>2. u[p] \in (-100 .. 100) \cup {NaN, Inf, -Inf}
  BY ScalarStatsAssumption DEF StatsTypeOK
<1>3. CASE u[p] \in -100 .. 100
  <2>1. u[p] # NaN /\ IsReal(u[p])
    BY <1>3 DEF IsReal, NaN, MaxReal
  <2>2. Error(p) = Magnitude(u[p] - Sol(p))
    BY <2>1 DEF Error
  <2>3. u[p] - Sol(p) \in -200 .. 200
    <3>1. \A a \in -100 .. 100, b \in -100 .. 100 : a - b \in -200 .. 200
      OBVIOUS
    <3> QED
      BY <3>1, <1>1, <1>3
  <2>4. \A d \in -200 .. 200 : Magnitude(d) \in 0 .. 200
    BY DEF Magnitude
  <2>5. Error(p) \in 0 .. 200
    BY <2>2, <2>3, <2>4
  <2> QED
    BY <1>1, <1>3, <2>5 DEF Inf
<1>4. CASE u[p] \in {Inf, -Inf}
  <2>1. u[p] # NaN /\ ~IsReal(u[p])
    <3>1. CASE u[p] = Inf
      BY <3>1 DEF IsReal, NaN, Inf, MaxReal
    <3>2. CASE u[p] = -Inf
      BY <3>2 DEF IsReal, NaN, Inf, MaxReal
    <3> QED
      BY <1>4, <3>1, <3>2
  <2>2. Error(p) = Inf
    BY <2>1 DEF Error
  <2> QED
    BY <1>1, <1>4, <2>1, <2>2 DEF Inf
<1>5. CASE u[p] = NaN
  BY <1>1, <1>5 DEF IsReal, NaN, MaxReal
<1> QED
  BY <1>2, <1>3, <1>4, <1>5

(* One more point in a partial value, and two partial values in one:       *)
(* nothing accounted for is lost and nothing is made up.                   *)
LEMMA Reductions ==
  ASSUME StatsTypeOK, NEW V \in SUBSET Points, NEW x \in Partial, Sound(u, x, V)
  PROVE  /\ \A c \in Spaces, p \in Points :
              /\ Reduce(c, x, p) \in Partial
              /\ Sound(u, Reduce(c, x, p), V \cup {p})
              /\ Bounds(u, Reduce(c, x, p), p)
              /\ \A q \in V : Bounds(u, x, q) => Bounds(u, Reduce(c, x, p), q)
         /\ \A y \in Partial : Sound(u, y, V) =>
              /\ Joined(x, y) \in Partial
              /\ Sound(u, Joined(x, y), V)
              /\ \A q \in V : Bounds(u, x, q) \/ Bounds(u, y, q) => Bounds(u, Joined(x, y), q)
<1> DEFINE R == -Inf .. Inf
<1>a. \A a, b \in R : /\ (IF a > b THEN b ELSE a) \in R
                      /\ (IF a > b THEN b ELSE a) <= a /\ (IF a > b THEN b ELSE a) <= b
  BY DEF Inf
<1>b. \A a, b \in R : /\ (IF a > b THEN a ELSE b) \in R
                      /\ a <= (IF a > b THEN a ELSE b) /\ b <= (IF a > b THEN a ELSE b)
  BY DEF Inf
<1>c. \A a, b, c \in R : a <= b /\ b <= c => a <= c
  BY DEF Inf
<1>d. \A a, b \in R : Greater(a, b) <=> a > b
  BY DEF Greater, NaN, Inf
<1>e. \A e \in 0 .. Inf : e \in R
  BY DEF Inf
<1>f. \A q \in Points : /\ q \in Int
                        /\ u[q] # NaN => u[q] \in R /\ Error(q) \in R
  BY <1>e, PointValues
<1>i. \A q \in Points : ErrorIn(u, q) = Error(q)
  BY DEF ErrorIn, Error
<1>g. \A r \in Partial : r.min \in R /\ r.max \in R /\ r.val \in R /\ r.loc \in Int
  BY DEF Partial
<1>h. \A a, b, c \in R, d \in Int : [min |-> a, max |-> b, val |-> c, loc |-> d] \in Partial
  BY DEF Partial
<1> HIDE DEF R
<1>1. ASSUME NEW c \in Spaces, NEW p \in Points
      PROVE  /\ Reduce(c, x, p) \in Partial
             /\ Sound(u, Reduce(c, x, p), V \cup {p})
             /\ Bounds(u, Reduce(c, x, p), p)
             /\ \A q \in V : Bounds(u, x, q) => Bounds(u, Reduce(c, x, p), q)
  <2> DEFINE r == Reduce(c, x, p)
  <2>1. CASE u[p] = NaN
    <3>1. Error(p) = NaN
      BY <2>1 DEF Error
    <3>2. r = x
      BY <2>1, <3>1 DEF Reduce, Smaller, Larger, Greater, Partial
    <3> QED
      BY <2>1, <3>2 DEF Sound, Bounds
  <2>2. CASE u[p] # NaN
    <3>1. u[p] \in R /\ Error(p) \in R /\ p \in Int
      BY <2>2, <1>f
    <3>2. r = [min |-> IF x.min > u[p] THEN u[p] ELSE x.min,
               max |-> IF u[p] > x.max THEN u[p] ELSE x.max,
               val |-> IF Error(p) > x.val THEN Error(p) ELSE x.val,
               loc |-> IF Error(p) > x.val THEN p ELSE x.loc]
      BY <3>1, <1>d, <1>g DEF Reduce, Smaller, Larger
    <3>3. r \in Partial
      BY <3>1, <3>2, <1>a, <1>b, <1>g, <1>h
    <3>4. Sound(u, r, V \cup {p})
      BY <2>2, <3>2, <1>i DEF Sound
    <3> HIDE DEF r
    <3>5. /\ r.min <= x.min /\ r.min <= u[p] /\ x.max <= r.max /\ u[p] <= r.max
          /\ x.val <= r.val /\ Error(p) <= r.val
      BY <3>1, <3>2, <1>a, <1>b, <1>g
    <3>6. ASSUME NEW q \in V, Bounds(u, x, q) PROVE Bounds(u, r, q)
      BY <3>3, <3>5, <3>6, <1>c, <1>f, <1>g, <1>i DEF Bounds
    <3>7. Bounds(u, r, p)
      BY <3>5, <1>i DEF Bounds
    <3> QED
      BY <3>3, <3>4, <3>6, <3>7 DEF r
  <2> QED
    BY <2>1, <2>2
<1>2. ASSUME NEW y \in Partial, Sound(u, y, V)
      PROVE  /\ Joined(x, y) \in Partial
             /\ Sound(u, Joined(x, y), V)
             /\ \A q \in V : Bounds(u, x, q) \/ Bounds(u, y, q) => Bounds(u, Joined(x, y), q)
  <2> DEFINE r == Joined(x, y)
  <2>1. r = [min |-> IF x.min > y.min THEN y.min ELSE x.min,
             max |-> IF y.max > x.max THEN y.max ELSE x.max,
             val |-> IF y.val > x.val THEN y.val ELSE x.val,
             loc |-> IF y.val > x.val THEN y.loc ELSE x.loc]
    BY <1>d, <1>g DEF Joined, Smaller, Larger
  <2>2. r \in Partial
    BY <2>1, <1>a, <1>b, <1>g, <1>h
  <2>3. Sound(u, r, V)
    BY <1>2, <2>1 DEF Sound
  <2> HIDE DEF r
  <2>4. /\ r.min <= x.min /\ r.min <= y.min /\ x.max <= r.max /\ y.max <= r.max
        /\ x.val <= r.val /\ y.val <= r.val
    BY <2>1, <1>a, <1>b, <1>g
  <2>5. ASSUME NEW q \in V, Bounds(u, x, q) \/ Bounds(u, y, q) PROVE Bounds(u, r, q)
    BY <1>2, <2>2, <2>4, <2>5, <1>c, <1>f, <1>g, <1>i DEF Bounds
  <2> QED
    BY <2>2, <2>3, <2>5 DEF r
<1> QED
  BY <1>1, <1>2

-----------------------------------------------------------------------------
(* Every point of a component is accounted for once, by every step. *)
THEOREM StatsInvariant == StatsSpec => []StatsInv
<1>0. /\ \A s \in Selections : s \in [Spaces -> SUBSET Nat]
      /\ Threads # {}
  BY ScalarStatsAssumption DEF Spaces
<1>I. Identity \in Partial /\ Nothing \in Partial /\ \A V : Sound(u, Identity, V)
  BY DEF Identity, Nothing, Partial, Sound, MaxReal, Inf, NoPoint
<1>1. StatsInit => StatsInv
  <2> SUFFICES ASSUME StatsInit PROVE StatsInv
    OBVIOUS
  <2>1. StatsTypeOK
    BY <1>0, <1>I DEF StatsInit, StatsTypeOK, Spaces, Points
  <2>2. Visited = {} /\ Passed = {}
    BY DEF StatsInit, Visited, Passed
  <2> QED
    BY <2>1, <2>2, <1>I DEF StatsInit, StatsInv
<1>2. StatsInv /\ [StatsNext]_statsVars => StatsInv'
  <2> SUFFICES ASSUME StatsInv, [StatsNext]_statsVars PROVE StatsInv'
    OBVIOUS
  <2> USE DEF StatsInv
  <2>0. /\ sel \in [Spaces -> SUBSET Nat]
        /\ \A c \in Spaces : sel[c] \subseteq Points
    BY <1>0 DEF StatsTypeOK, Points
  <2>L. ASSUME NEW c, comp \in Spaces, c = Following(comp), Launch(c, sel),
               UNCHANGED <<sel, u>>, left = {} \/ sel[comp] = {}, stats' = stats,
               total' \in [Spaces -> Partial],
               \A d \in Spaces \ {comp} : total'[d] = total[d],
               sel[comp] = {} => total'[comp] = Nothing,
               sel[comp] # {} => /\ Sound(u, total'[comp], sel[comp])
                                /\ \A p \in sel[comp] : Bounds(u, total'[comp], p)
        PROVE  StatsInv'
    <3>1. /\ comp' = Following(comp) /\ live' = Threads
          /\ part' = [t \in Threads |-> Identity]
          /\ left' = IF comp' = "none" THEN {} ELSE sel'[comp']
          /\ sel' = sel /\ u' = u
      BY <2>L DEF Launch
    <3>2. /\ comp' \in Spaces \cup {"none"}
          /\ Passed' = Passed \cup {comp} /\ comp \notin Passed
      BY <2>L, <3>1 DEF Following, Passed, Spaces
    <3>3. StatsTypeOK'
      BY <2>L, <2>0, <3>1, <3>2, <1>I DEF StatsTypeOK, Points
    <3>4. Visited' = {}
      BY <3>1 DEF Visited
    <3>5. stats' = NoStats
      BY <2>L DEF Spaces
    <3>6. \A c1 \in Spaces : c1 \notin Passed' \/ sel'[c1] = {} => total'[c1] = Nothing
      BY <2>L, <3>1, <3>2
    <3>7. \A c1 \in Passed' : sel'[c1] # {} =>
            /\ Sound(u', total'[c1], sel'[c1])
            /\ \A p \in sel'[c1] : Bounds(u', total'[c1], p)
      BY <2>L, <3>1, <3>2 DEF Passed, Spaces
    <3> QED
      BY <1>I, <3>1, <3>3, <3>4, <3>5, <3>6, <3>7
  <2>1. ASSUME NEW t \in Threads, NEW p \in Points, Visit(t, p) PROVE StatsInv'
    <3>1. /\ comp \in Spaces /\ p \in left /\ left \subseteq sel[comp]
          /\ live = Threads /\ stats = NoStats
      BY <2>1 DEF Visit, StatsTypeOK
    <3>2. Visited' = Visited \cup {p} /\ Passed' = Passed /\ Visited \subseteq Points
      BY <2>0, <2>1, <3>1 DEF Visit, Visited, Passed, Spaces
    <3>3. /\ Reduce(comp, part[t], p) \in Partial
          /\ Sound(u, Reduce(comp, part[t], p), Visited')
          /\ Bounds(u, Reduce(comp, part[t], p), p)
          /\ \A q \in Visited : Bounds(u, part[t], q) => Bounds(u, Reduce(comp, part[t], p), q)
      BY <3>1, <3>2, Reductions DEF StatsTypeOK
    <3>4. part' = [part EXCEPT ![t] = Reduce(comp, part[t], p)]
      BY <2>1 DEF Visit
    <3>5. StatsTypeOK'
      BY <2>1, <3>3, <3>4 DEF Visit, StatsTypeOK, Points
    <3>6. \A s \in Threads : Sound(u, part'[s], Visited')
      BY <3>2, <3>3, <3>4 DEF StatsTypeOK, Sound
    <3>7. \A q \in Visited' : \E s \in Threads : Bounds(u, part'[s], q)
      BY <3>1, <3>2, <3>3, <3>4 DEF StatsTypeOK
    <3> QED
      BY <2>1, <3>1, <3>2, <3>5, <3>6, <3>7 DEF Visit
  <2>2. ASSUME NEW s \in Threads, NEW t \in Threads, Join(s, t) PROVE StatsInv'
    <3>1. Visited' = Visited /\ Passed' = Passed /\ Visited \subseteq Points
      BY <2>0, <2>2 DEF Join, Visited, Passed, Spaces, StatsTypeOK
    <3>2. /\ Joined(part[s], part[t]) \in Partial
          /\ Sound(u, Joined(part[s], part[t]), Visited)
          /\ \A q \in Visited : Bounds(u, part[s], q) \/ Bounds(u, part[t], q)
                                 => Bounds(u, Joined(part[s], part[t]), q)
      BY <3>1, Reductions DEF StatsTypeOK
    <3>3. /\ part' = [part EXCEPT ![s] = Joined(part[s], part[t]), ![t] = Identity]
          /\ live' = live \ {t} /\ s \in live /\ s # t
      BY <2>2 DEF Join
    <3>4. StatsTypeOK'
      BY <2>2, <3>2, <3>3, <1>I DEF Join, StatsTypeOK, Points
    <3>5. \A r \in Threads : Sound(u, part'[r], Visited)
      BY <3>2, <3>3, <1>I DEF StatsTypeOK
    <3>6. \A q \in Visited : \E r \in live' : Bounds(u, part'[r], q)
      BY <3>2, <3>3 DEF StatsTypeOK
    <3> QED
      BY <2>2, <3>1, <3>4, <3>5, <3>6 DEF Join
  <2>3. ASSUME NEW t \in Threads, Finish(t) PROVE StatsInv'
    <3>1. /\ comp \in Spaces /\ left = {} /\ Visited = sel[comp] /\ live = {t}
          /\ sel[comp] # {} /\ total' = [total EXCEPT ![comp] = part[t]]
          /\ part[t] \in Partial
      BY <2>3 DEF Finish, Visited, StatsTypeOK
    <3>2. total' \in [Spaces -> Partial] /\ total'[comp] = part[t]
      BY <3>1 DEF StatsTypeOK
    <3>3. /\ Sound(u, total'[comp], sel[comp])
          /\ \A p \in sel[comp] : Bounds(u, total'[comp], p)
      BY <3>1, <3>2
    <3> QED
      BY <2>3, <2>L, <3>1, <3>2, <3>3 DEF Finish, StatsTypeOK
  <2>4. CASE SkipEmpty
    <3>1. comp \in Spaces /\ comp \notin Passed
      BY <2>4 DEF SkipEmpty, StatsTypeOK, Passed, Spaces
    <3> QED
      BY <2>4, <2>L, <3>1 DEF SkipEmpty, StatsTypeOK
  <2>5. CASE Combine
    <3>1. Visited' = Visited /\ Passed' = Passed /\ Linf' = Linf /\ Extremes' = Extremes
      BY <2>5 DEF Combine, Visited, Passed, Linf, Extremes
    <3> QED
      BY <2>5, <3>1 DEF Combine, StatsTypeOK, Points
  <2>6. CASE UNCHANGED statsVars
    <3>1. Visited' = Visited /\ Passed' = Passed /\ Linf' = Linf /\ Extremes' = Extremes
      BY <2>6 DEF statsVars, Visited, Passed, Linf, Extremes
    <3> QED
      BY <2>6, <3>1 DEF statsVars, StatsTypeOK, Points
  <2> QED
    BY <2>1, <2>2, <2>3, <2>4, <2>5, <2>6 DEF StatsNext, Known
<1> QED
  BY <1>1, <1>2, PTL DEF StatsSpec

-----------------------------------------------------------------------------
(* What the totals are when the statistics are there, and the error they   *)
(* give: no less than that of any point that is a number, and one of them. *)
LEMMA Totals ==
  ASSUME StatsInv, stats # NoStats
  PROVE  /\ \A c \in Spaces : total[c] \in Partial
         /\ \A c \in Spaces : sel[c] = {} => total[c].val = 0
         /\ \A c \in Spaces : sel[c] # {} =>
              /\ Sound(u, total[c], sel[c])
              /\ \A p \in sel[c] : Bounds(u, total[c], p)
         /\ stats.err \in -Inf .. Inf
         /\ \E c \in Spaces : stats.err = total[c].val
         /\ \A c \in Spaces : total[c].val <= stats.err
<1>1. Passed = Spaces
  BY DEF StatsInv, Passed
<1>2. /\ \A c \in Spaces : total[c] \in Partial
      /\ \A c \in Spaces : sel[c] = {} => total[c].val = 0
      /\ \A c \in Spaces : sel[c] # {} =>
           /\ Sound(u, total[c], sel[c])
           /\ \A p \in sel[c] : Bounds(u, total[c], p)
  BY <1>1 DEF StatsInv, StatsTypeOK, Nothing
<1>3. stats.err = Linf
  BY DEF StatsInv
<1>4. \A c \in Spaces : total[c].val \in -Inf .. Inf
  BY <1>2 DEF Partial
<1>5. \A a, b \in -Inf .. Inf : /\ Larger(a, b) \in {a, b}
                               /\ a <= Larger(a, b) /\ b <= Larger(a, b)
  BY DEF Larger, Greater, NaN, Inf
<1>6. \A a, b, c, d \in -Inf .. Inf :
        LET m == Larger(Larger(Larger(a, b), c), d)
        IN  m \in {a, b, c, d} /\ a <= m /\ b <= m /\ c <= m /\ d <= m
  <2> TAKE a, b, c, d \in -Inf .. Inf
  <2> DEFINE m1 == Larger(a, b)
             m2 == Larger(m1, c)
             m3 == Larger(m2, d)
  <2>1. m1 \in {a, b} /\ a <= m1 /\ b <= m1
    BY <1>5
  <2>2. m2 \in {a, b, c} /\ m1 <= m2 /\ c <= m2
    BY <1>5, <2>1
  <2>3. m3 \in {a, b, c, d} /\ m2 <= m3 /\ d <= m3
    BY <1>5, <2>2
  <2>4. \A x, y, z \in -Inf .. Inf : x <= y /\ y <= z => x <= z
    BY DEF Inf
  <2> QED
    BY <2>1, <2>2, <2>3, <2>4
<1>7. /\ Linf \in {total["D"].val, total["Rx"].val, total["Ry"].val, total["Rz"].val}
      /\ total["D"].val <= Linf /\ total["Rx"].val <= Linf
      /\ total["Ry"].val <= Linf /\ total["Rz"].val <= Linf
  BY <1>4, <1>6 DEF Linf, Spaces
<1> QED
  BY <1>2, <1>3, <1>4, <1>7 DEF Spaces

(* An infinite value, or one too far off, at any point ends the run.       *)
THEOREM UnboundedSolutionStopsRun == StatsSpec => []UnboundedStopsRun
<1>1. StatsInv => UnboundedStopsRun
  <2> SUFFICES ASSUME StatsInv, stats # NoStats,
                      NEW p \in Points, Error(p) # NaN, Error(p) > Limit
               PROVE  ~Valid
    BY DEF UnboundedStopsRun
  <2>1. PICK c \in Spaces : p \in sel[c]
    BY DEF Points
  <2>2. u[p] # NaN /\ Error(p) = ErrorIn(u, p)
    BY DEF Error, ErrorIn
  <2>3. Error(p) \in 0 .. Inf
    BY <2>2, PointValues DEF StatsInv
  <2>4. Error(p) <= total[c].val /\ total[c].val <= stats.err
    BY <2>1, <2>2, Totals DEF Bounds
  <2>5. stats.err \in -Inf .. Inf /\ total[c].val \in -Inf .. Inf
    BY Totals DEF Partial
  <2>6. \A e \in 0 .. Inf, v, m \in -Inf .. Inf : e > Limit /\ e <= v /\ v <= m => ~(Magnitude(m) <= Limit)
    BY ScalarStatsAssumption DEF Magnitude, Inf
  <2> QED
    BY <2>3, <2>4, <2>5, <2>6 DEF Valid
<1> QED
  BY <1>1, StatsInvariant, PTL

(* The statistics are the largest error, a place where it is taken and the *)
(* range of the numbers.                                                   *)
THEOREM StatsAreExact == StatsSpec => []StatsExact
<1>0. ASSUME StatsInv, stats # NoStats
      PROVE  StatsExact
  <2> DEFINE numbers(c) == {u[p] : p \in sel[c]} \ {NaN}
             all == UNION {numbers(c) : c \in Spaces}
  <2>0. StatsTypeOK /\ \A c \in Spaces : sel[c] \subseteq Points
    BY <1>0 DEF StatsInv, Points
  <2>1. ASSUME \A p \in Points : u[p] # NaN
        PROVE  /\ stats.err = Max({0} \cup {Error(p) : p \in Points})
               /\ sel["D"] # {} =>
                    stats.at \in {p \in sel["D"] : \A q \in sel["D"] : Error(q) <= Error(p)}
    <3>1. \A p \in Points : Error(p) \in 0 .. Inf /\ ErrorIn(u, p) = Error(p)
      BY <2>0, <2>1, PointValues DEF Error, ErrorIn
    <3>2. \A c \in Spaces : sel[c] # {} =>
            /\ total[c].loc \in sel[c] /\ total[c].val = Error(total[c].loc)
            /\ \A q \in sel[c] : Error(q) <= total[c].val
      <4> TAKE c \in Spaces
      <4> SUFFICES ASSUME sel[c] # {}
                   PROVE  /\ total[c].loc \in sel[c] /\ total[c].val = Error(total[c].loc)
                          /\ \A q \in sel[c] : Error(q) <= total[c].val
        OBVIOUS
      <4>1. \A q \in sel[c] : Error(q) <= total[c].val
        BY <1>0, <2>0, <2>1, <3>1, Totals DEF Bounds
      <4>2. PICK q \in sel[c] : TRUE
        OBVIOUS
      <4>3. \A e \in 0 .. Inf, v \in -Inf .. Inf : e <= v => v # -MaxReal
        BY DEF Inf, MaxReal
      <4>4. total[c].val # -MaxReal
        BY <1>0, <2>0, <3>1, <4>1, <4>2, <4>3, Totals DEF Partial
      <4> QED
        BY <1>0, <2>0, <3>1, <4>1, <4>4, Totals DEF Sound
    <3>3. ASSUME sel["D"] # {}
          PROVE  stats.at \in {p \in sel["D"] : \A q \in sel["D"] : Error(q) <= Error(p)}
      <4>1. stats.at = total["D"].loc
        BY <1>0 DEF StatsInv
      <4> QED
        BY <3>2, <3>3, <4>1 DEF Spaces
    <3>4. stats.err \in {0} \cup {Error(p) : p \in Points}
      <4>1. PICK c \in Spaces : stats.err = total[c].val
        BY <1>0, Totals
      <4> QED
        BY <1>0, <2>0, <3>2, <4>1, Totals
    <3>5. \A e \in {0} \cup {Error(p) : p \in Points} : e \in Int /\ stats.err >= e
      <4>1. \A p \in Points : Error(p) <= stats.err
        <5> TAKE p \in Points
        <5>1. PICK c \in Spaces : p \in sel[c]
          BY DEF Points
        <5>2. /\ Error(p) \in -Inf .. Inf /\ total[c].val \in -Inf .. Inf
              /\ stats.err \in -Inf .. Inf
          <6>1. \A x \in 0 .. Inf : x \in -Inf .. Inf
            BY DEF Inf
          <6>2. \A a \in Spaces : total[a].val \in -Inf .. Inf
            BY <1>0, Totals DEF Partial
          <6>3. PICK a \in Spaces : stats.err = total[a].val
            BY <1>0, Totals
          <6> QED
            BY <3>1, <6>1, <6>2, <6>3
        <5>3. Error(p) <= total[c].val /\ total[c].val <= stats.err
          BY <1>0, <3>2, <5>1, Totals
        <5>4. \A x, y, z \in -Inf .. Inf : x <= y /\ y <= z => x <= z
          BY DEF Inf
        <5> QED
          BY <5>2, <5>3, <5>4
      <4>2. stats.err \in 0 .. Inf
        BY <3>1, <3>4 DEF Inf
      <4>3. \A e, x \in 0 .. Inf : e \in Int /\ x >= 0 /\ (e <= x => x >= e)
        BY DEF Inf
      <4> QED
        BY <3>1, <4>1, <4>2, <4>3
    <3>6. stats.err = Max({0} \cup {Error(p) : p \in Points})
      <4> DEFINE S == {0} \cup {Error(p) : p \in Points}
      <4>1. \A m \in S : (\A e \in S : m >= e) => m = stats.err
        <5>1. \A x, y \in Int : x >= y /\ y >= x => x = y
          OBVIOUS
        <5> QED
          BY <3>4, <3>5, <5>1
      <4> HIDE DEF S
      <4>2. stats.err \in S /\ \A e \in S : stats.err >= e
        BY <3>4, <3>5 DEF S
      <4> QED
        BY <4>1, <4>2 DEF Max, S
    <3> QED
      BY <3>3, <3>6
  <2>2. ASSUME numbers("D") # {}, all \cap {Inf, -Inf} = {}
        PROVE  stats.min = Min(all) /\ stats.max = Max(all)
    <3> DEFINE A == {c \in Spaces : c = "D" \/ sel[c] # {}}
    <3>0. "D" \in A /\ A \subseteq Spaces /\ \A c \in A : sel[c] # {}
      BY <2>2 DEF Spaces
    <3>1. \A x \in all : x \in -100 .. 100
      <4>1. \A p \in Points : u[p] \in (-100 .. 100) \cup {NaN, Inf, -Inf}
        BY <2>0, ScalarStatsAssumption DEF StatsTypeOK
      <4>2. \A x \in all : \E p \in Points : x = u[p] /\ x # NaN
        BY <2>0
      <4> QED
        BY <2>2, <4>1, <4>2
    <3>2. \A c \in A : total[c].min \in -Inf .. Inf /\ total[c].max \in -Inf .. Inf
      BY <1>0, Totals DEF Partial
    <3>3. \A c \in A : \A x \in numbers(c) : x \in all /\ total[c].min <= x /\ x <= total[c].max
      BY <1>0, <3>0, Totals DEF Bounds
    <3>4. \A c \in A : /\ total[c].min = MaxReal \/ total[c].min \in numbers(c)
                       /\ total[c].max = -MaxReal \/ total[c].max \in numbers(c)
      BY <1>0, <3>0, Totals DEF Sound
    <3>5. \A x \in all : \E c \in A : x \in numbers(c)
      OBVIOUS
    <3>6. PICK x0 \in numbers("D") : TRUE
      BY <2>2
    <3>7. stats.min = Min({total[c].min : c \in A}) /\ stats.max = Max({total[c].max : c \in A})
      BY <1>0 DEF StatsInv, Extremes
    <3> HIDE DEF A, numbers, all
    <3>8. \A f \in [Spaces -> -Inf .. Inf] : \E b \in A : \A c \in A : f[b] <= f[c]
      <4> TAKE f \in [Spaces -> -Inf .. Inf]
      <4>0. \A x, y, z \in -Inf .. Inf : /\ x <= x /\ (x <= y \/ y <= x)
                                        /\ x <= y /\ y <= z => x <= z
        BY DEF Inf
      <4>1. PICK b1 \in A \cap {"D", "Rx"} : \A c \in A \cap {"D", "Rx"} : f[b1] <= f[c]
        BY <3>0, <4>0 DEF Spaces
      <4>2. PICK b2 \in A \cap {"D", "Rx", "Ry"} :
               \A c \in A \cap {"D", "Rx", "Ry"} : f[b2] <= f[c]
        BY <3>0, <4>0, <4>1 DEF Spaces
      <4>3. PICK b3 \in A : \A c \in A : f[b3] <= f[c]
        BY <3>0, <4>0, <4>2 DEF Spaces
      <4> QED
        BY <4>3
    <3>9. stats.min = Min(all)
      <4>1. PICK b \in A : \A c \in A : total[b].min <= total[c].min
        <5> DEFINE f == [c \in Spaces |-> total[c].min]
        <5>1. f \in [Spaces -> -Inf .. Inf]
          BY <1>0, Totals DEF Partial
        <5>2. PICK b \in A : \A c \in A : f[b] <= f[c]
          BY <3>8, <5>1
        <5> QED
          BY <3>0, <5>2
      <4>2. PICK a \in A : x0 \in numbers(a)
        BY <3>0, <3>6
      <4>3. total[b].min <= x0
        <5>1. total[b].min <= total[a].min /\ total[a].min <= x0
          BY <3>3, <4>1, <4>2
        <5>2. \A x, y \in -Inf .. Inf, z \in -100 .. 100 : x <= y /\ y <= z => x <= z
          BY DEF Inf
        <5>3. /\ total[a].min \in -Inf .. Inf /\ total[b].min \in -Inf .. Inf
              /\ x0 \in -100 .. 100
          BY <3>1, <3>2, <3>3, <4>2
        <5> QED
          BY <5>1, <5>2, <5>3
      <4>4. total[b].min \in all
        <5>1. \A z \in -100 .. 100 : ~(MaxReal <= z)
          BY DEF MaxReal
        <5>2. x0 \in -100 .. 100
          BY <3>1, <3>3, <4>2
        <5>3. total[b].min # MaxReal
          BY <4>3, <5>1, <5>2
        <5>4. total[b].min \in numbers(b)
          BY <3>4, <5>3
        <5> QED
          BY <3>3, <5>4
      <4>5. \A y \in all : total[b].min <= y
        <5> TAKE y \in all
        <5>1. PICK c \in A : y \in numbers(c)
          BY <3>5
        <5>2. total[b].min <= total[c].min /\ total[c].min <= y
          BY <3>3, <4>1, <5>1
        <5>3. \A w, x \in -Inf .. Inf, z \in -100 .. 100 : w <= x /\ x <= z => w <= z
          BY DEF Inf
        <5> QED
          BY <3>1, <3>2, <5>2, <5>3
      <4>6. \A x, y \in -Inf .. Inf : x <= y /\ y <= x => x = y
        BY DEF Inf
      <4>7. Min(all) = total[b].min
        <5>1. \A x, y \in -100 .. 100 : x <= y /\ y <= x => x = y
          OBVIOUS
        <5>2. \A x, y \in -100 .. 100 : x =< y <=> x <= y
          OBVIOUS
        <5>3. total[b].min \in all /\ \A y \in all : total[b].min =< y
          BY <3>1, <4>4, <4>5, <5>2
        <5>4. \A m \in all : (\A y \in all : m =< y) => m = total[b].min
          BY <3>1, <4>4, <4>5, <5>1, <5>2
        <5> QED
          BY <5>3, <5>4 DEF Min
      <4>8. Min({total[c].min : c \in A}) = total[b].min
        <5> DEFINE T == {total[c].min : c \in A}
        <5>1. \A x, y \in -Inf .. Inf : x =< y <=> x <= y
          BY DEF Inf
        <5>2. total[b].min \in T /\ \A y \in T : y \in -Inf .. Inf /\ total[b].min =< y
          BY <3>2, <4>1, <5>1
        <5>3. \A m \in T : (\A y \in T : m =< y) => m = total[b].min
          BY <3>2, <4>6, <5>1, <5>2
        <5> HIDE DEF T
        <5>4. Min(T) = total[b].min
          BY <5>2, <5>3 DEF Min
        <5> QED
          BY <5>4 DEF T
      <4> QED
        BY <3>7, <4>7, <4>8
    <3>10. stats.max = Max(all)
      <4>1. PICK b \in A : \A c \in A : total[c].max <= total[b].max
        <5> DEFINE f == [c \in Spaces |-> -total[c].max]
        <5>0. \A x \in -Inf .. Inf : -x \in -Inf .. Inf
          BY DEF Inf
        <5>1. f \in [Spaces -> -Inf .. Inf]
          BY <5>0, <1>0, Totals DEF Partial
        <5>2. PICK b \in A : \A c \in A : f[b] <= f[c]
          BY <3>8, <5>1
        <5>3. \A x, y \in -Inf .. Inf : -x <= -y => y <= x
          BY DEF Inf
        <5> QED
          BY <3>0, <3>2, <5>2, <5>3
      <4>2. PICK a \in A : x0 \in numbers(a)
        BY <3>0, <3>6
      <4>3. x0 <= total[b].max
        <5>1. total[a].max <= total[b].max /\ x0 <= total[a].max
          BY <3>3, <4>1, <4>2
        <5>2. \A x, y \in -Inf .. Inf, z \in -100 .. 100 : y <= x /\ z <= y => z <= x
          BY DEF Inf
        <5>3. /\ total[a].max \in -Inf .. Inf /\ total[b].max \in -Inf .. Inf
              /\ x0 \in -100 .. 100
          BY <3>1, <3>2, <3>3, <4>2
        <5> QED
          BY <5>1, <5>2, <5>3
      <4>4. total[b].max \in all
        <5>1. \A z \in -100 .. 100 : ~(z <= -MaxReal)
          BY DEF MaxReal
        <5>2. x0 \in -100 .. 100
          BY <3>1, <3>3, <4>2
        <5>3. total[b].max # -MaxReal
          BY <4>3, <5>1, <5>2
        <5>4. total[b].max \in numbers(b)
          BY <3>4, <5>3
        <5> QED
          BY <3>3, <5>4
      <4>5. \A y \in all : y <= total[b].max
        <5> TAKE y \in all
        <5>1. PICK c \in A : y \in numbers(c)
          BY <3>5
        <5>2. total[c].max <= total[b].max /\ y <= total[c].max
          BY <3>3, <4>1, <5>1
        <5>3. \A w, x \in -Inf .. Inf, z \in -100 .. 100 : x <= w /\ z <= x => z <= w
          BY DEF Inf
        <5> QED
          BY <3>1, <3>2, <5>2, <5>3
      <4>6. \A x, y \in -Inf .. Inf : y <= x /\ x <= y => x = y
        BY DEF Inf
      <4>7. Max(all) = total[b].max
        <5>1. \A x, y \in -100 .. 100 : y <= x /\ x <= y => x = y
          OBVIOUS
        <5>2. \A x, y \in -100 .. 100 : x >= y <=> y <= x
          OBVIOUS
        <5>3. total[b].max \in all /\ \A y \in all : total[b].max >= y
          BY <3>1, <4>4, <4>5, <5>2
        <5>4. \A m \in all : (\A y \in all : m >= y) => m = total[b].max
          BY <3>1, <4>4, <4>5, <5>1, <5>2
        <5> QED
          BY <5>3, <5>4 DEF Max
      <4>8. Max({total[c].max : c \in A}) = total[b].max
        <5> DEFINE T == {total[c].max : c \in A}
        <5>1. \A x, y \in -Inf .. Inf : x >= y <=> y <= x
          BY DEF Inf
        <5>2. total[b].max \in T /\ \A y \in T : y \in -Inf .. Inf /\ total[b].max >= y
          BY <3>2, <4>1, <5>1
        <5>3. \A m \in T : (\A y \in T : m >= y) => m = total[b].max
          BY <3>2, <4>6, <5>1, <5>2
        <5> HIDE DEF T
        <5>4. Max(T) = total[b].max
          BY <5>2, <5>3 DEF Max
        <5> QED
          BY <5>4 DEF T
      <4> QED
        BY <3>7, <4>7, <4>8
    <3> QED
      BY <3>9, <3>10
  <2> QED
    BY <2>1, <2>2 DEF StatsExact
<1>1. StatsInv => StatsExact
  BY <1>0 DEF StatsExact
<1> QED
  BY <1>1, StatsInvariant, PTL
=============================================================================
