------------------------ MODULE ManufacturedSolution ------------------------
(***************************************************************************)
(* Manufactured solutions (mms/): sums of Gaussians that oscillate in time *)
(* (gauss1d, gauss2d, gauss3d), solutions given by functions of a Lua      *)
(* table (lua_mms), and what manufactured_solution::from_lua makes of a    *)
(* configuration.                                                          *)
(*                                                                         *)
(* Reals are elements of StencilField.  The exponential, cosine and sine   *)
(* are parameters: the code's derivatives must be right whatever values    *)
(* they have, as only exp' = exp, cos' = -sin and sin' = cos are used.     *)
(***************************************************************************)
EXTENDS StencilField

CONSTANTS Exp(_), Cos(_), Sin(_)

Three == {0, 1, 2}
Square(a) == a ** a
Fourth(a) == Square(Square(a))

(* A Lua table is a record: keys it does not have are absent. *)
Has(t, key) == key \in DOMAIN t
GetOr(t, key, default) == IF Has(t, key) THEN t[key] ELSE default
Entry(s, e, default) == IF e < Len(s) THEN s[e + 1] ELSE default
Triple(s, defaults) == [e \in Three |-> Entry(s, e, defaults[e])]
Zeros == [e \in Three |-> 0]

-----------------------------------------------------------------------------
(* The Gaussians.  s has sequences center, variance, amplitude, frequency. *)

Distance2(s, i, d, x) == Square((x[d] -- s.center[i][d]) // s.variance[i][d])
Bump(s, i, dims, x) ==
  Exp(Residue(-FieldSum([e \in 1 .. dims |-> Distance2(s, i, e - 1, x)])) // 2)

GaussValue(s, dims, t, x) ==
  FieldSum([i \in DOMAIN s.amplitude |->
    Bump(s, i, dims, x) ** s.amplitude[i] ** Cos(t ** s.frequency[i])])

GaussDdt(s, dims, t, x) ==
  FieldSum([i \in DOMAIN s.amplitude |->
    (-Bump(s, i, dims, x)) ** s.amplitude[i] ** s.frequency[i] ** Sin(t ** s.frequency[i])])

(* Fault: the variance is not squared. *)
GaussGradient_Variance(s, dims, t, x) ==
  [d \in Three |-> IF d >= dims THEN 0 ELSE
    FieldSum([i \in DOMAIN s.amplitude |->
      (-Bump(s, i, dims, x)) ** s.amplitude[i] ** Cos(t ** s.frequency[i])
      ** ((x[d] -- s.center[i][d]) // s.variance[i][d])])]
GaussGradient(s, dims, t, x) ==
  [d \in Three |-> IF d >= dims THEN 0 ELSE
    FieldSum([i \in DOMAIN s.amplitude |->
      (-Bump(s, i, dims, x)) ** s.amplitude[i] ** Cos(t ** s.frequency[i])
      ** ((x[d] -- s.center[i][d]) // Square(s.variance[i][d]))])]

(* The laplacians are written out in expanded form, each in its own way. *)
Laplacian1d(s, t, x) ==
  LET bump(i) == Bump(s, i, 1, x)
      v(i) == s.variance[i][0]
  IN  FieldSum([i \in DOMAIN s.amplitude |->
        s.amplitude[i] ** Cos(t ** s.frequency[i])
        ** ((bump(i) ** (Square(x[0] -- s.center[i][0]) // Fourth(v(i))))
            -- (bump(i) // Square(v(i))))])

(* (x_d - c_d)^2, expanded as the code does. *)
Expanded(s, i, d, x) ==
  LET c == s.center[i][d] IN Square(x[d]) ++ ((-2) ** x[d] ** c) ++ Square(c)

Laplacian2d(s, t, x) ==
  LET v(i, d) == s.variance[i][d]
      poly(i) == (Expanded(s, i, 1, x) ** Fourth(v(i, 0))) ++ (Expanded(s, i, 0, x) ** Fourth(v(i, 1)))
                 -- (Square(v(i, 0)) ** Fourth(v(i, 1))) -- (Fourth(v(i, 0)) ** Square(v(i, 1)))
  IN  FieldSum([i \in DOMAIN s.amplitude |->
        (Bump(s, i, 2, x) ** s.amplitude[i] ** Cos(t ** s.frequency[i]) ** poly(i))
        // (Fourth(v(i, 0)) ** Fourth(v(i, 1)))])

Laplacian3d(s, t, x) ==
  LET q(i, d) == Fourth(s.variance[i][d])
      w(i, d) == Square(s.variance[i][d])
      poly(i) == (Expanded(s, i, 2, x) ** q(i, 0) ** q(i, 1)) ++ (Expanded(s, i, 1, x) ** q(i, 0) ** q(i, 2))
                 ++ (Expanded(s, i, 0, x) ** q(i, 1) ** q(i, 2))
                 -- (w(i, 0) ** q(i, 1) ** q(i, 2)) -- (q(i, 0) ** w(i, 1) ** q(i, 2))
                 -- (q(i, 0) ** q(i, 1) ** w(i, 2))
  IN  FieldSum([i \in DOMAIN s.amplitude |->
        (Bump(s, i, 3, x) ** s.amplitude[i] ** Cos(t ** s.frequency[i]) ** poly(i))
        // (q(i, 0) ** q(i, 1) ** q(i, 2))])

(* What a solution answers at a time and a place. *)
Gauss(s, dims, t, x, laplacian) ==
  [value |-> GaussValue(s, dims, t, x), ddt |-> GaussDdt(s, dims, t, x),
   gradient |-> GaussGradient(s, dims, t, x), divergence |-> 0, laplacian |-> laplacian]
Gauss1d(s, t, x) == Gauss(s, 1, t, x, Laplacian1d(s, t, x))
Gauss2d(s, t, x) == Gauss(s, 2, t, x, Laplacian2d(s, t, x))
Gauss3d(s, t, x) == Gauss(s, 3, t, x, Laplacian3d(s, t, x))

-----------------------------------------------------------------------------
(* Solutions as values: empty, a Gaussian of some dimension, or a Lua      *)
(* solution.                                                               *)

Empty == [kind |-> "empty"]

LuaFunctions == {"call", "ddt", "grad", "div", "lap"}
LuaMms == [kind |-> "lua"]

IsThreadSafe(kind) == kind \notin {"empty", "lua"}

BuildMsGauss(dims, s) ==
  IF dims \in 1 .. 3 THEN [kind |-> <<"gauss1d", "gauss2d", "gauss3d">>[dims], terms |-> s]
  ELSE Empty

(* The entries of a Gaussian's table; what they lack is zero. *)
GaussTerms(entries) ==
  [center |-> [i \in DOMAIN entries |-> Triple(GetOr(entries[i], "center", <<>>), Zeros)],
   variance |-> [i \in DOMAIN entries |-> Triple(GetOr(entries[i], "variance", <<>>), Zeros)],
   amplitude |-> [i \in DOMAIN entries |-> GetOr(entries[i], "amplitude", 0)],
   frequency |-> [i \in DOMAIN entries |-> GetOr(entries[i], "frequency", 0)]]

(* Types are compared in lower case. *)
Lower(name) == CASE name = "Gaussian" -> "gaussian" [] name = "Lua" -> "lua" [] OTHER -> name

(* The result is a sequence, empty for nullopt. *)
SolutionFromLua(tbl, dims) ==
  IF ~Has(tbl, "manufactured_solution") THEN <<>>
  ELSE LET ms == tbl.manufactured_solution
           type == Lower(GetOr(ms, "type", ""))
       IN  CASE type = "gaussian" /\ ms.entries # <<>> ->
                  <<BuildMsGauss(dims, GaussTerms(ms.entries))>>
             [] type = "lua" /\ LuaFunctions \subseteq ms.functions -> <<LuaMms>>
             [] OTHER -> <<>>

Answers(m, t, x) ==
  CASE m.kind = "gauss1d" -> Gauss1d(m.terms, t, x)
    [] m.kind = "gauss2d" -> Gauss2d(m.terms, t, x)
    [] m.kind = "gauss3d" -> Gauss3d(m.terms, t, x)

-----------------------------------------------------------------------------
(* Reference: a function's value with its derivatives in time (t), along   *)
(* each direction (g) and twice along each direction (h), by the rules of  *)
(* differentiation.                                                        *)

JetOf(v) == [v |-> v, t |-> 0, g |-> Zeros, h |-> Zeros]
JetTime(t) == [JetOf(t) EXCEPT !.t = 1]
JetPlace(d, x) == [JetOf(x[d]) EXCEPT !.g[d] = 1]
JetPlus(a, b) ==
  [v |-> a.v ++ b.v, t |-> a.t ++ b.t, g |-> [d \in Three |-> a.g[d] ++ b.g[d]],
   h |-> [d \in Three |-> a.h[d] ++ b.h[d]]]
JetTimes(a, b) ==
  [v |-> a.v ** b.v, t |-> (a.t ** b.v) ++ (a.v ** b.t),
   g |-> [d \in Three |-> (a.g[d] ** b.v) ++ (a.v ** b.g[d])],
   h |-> [d \in Three |-> (a.h[d] ** b.v) ++ (2 ** a.g[d] ** b.g[d]) ++ (a.v ** b.h[d])]]
(* f of a function, where f has value v, first and second derivative d1, d2. *)
JetApply(a, v, d1, d2) ==
  [v |-> v, t |-> d1 ** a.t, g |-> [d \in Three |-> d1 ** a.g[d]],
   h |-> [d \in Three |-> (d1 ** a.h[d]) ++ (d2 ** Square(a.g[d]))]]
JetExp(a) == LET e == Exp(a.v) IN JetApply(a, e, e, e)
JetCos(a) == LET c == Cos(a.v) IN JetApply(a, c, -Sin(a.v), -c)

(* amplitude cos(time frequency) exp(-0.5 sum_d ((x_d - center_d) / variance_d)^2), *)
(* over all terms, as docs/reference/mms.md gives it, d in a set of directions.     *)
GaussJet(s, dirs, t, x) ==
  LET scaled(i, d) == JetTimes(JetPlus(JetPlace(d, x), JetOf(-s.center[i][d])), JetOf(1 // s.variance[i][d]))
      exponent(i) == FoldLeft(LAMBDA sum, d : JetPlus(sum, JetTimes(JetOf((-1) // 2), JetTimes(scaled(i, d), scaled(i, d)))),
                              JetOf(0), SetToSeq(dirs))
      term(i) == JetTimes(JetOf(s.amplitude[i]),
                          JetTimes(JetCos(JetTimes(JetTime(t), JetOf(s.frequency[i]))), JetExp(exponent(i))))
  IN  FoldLeft(LAMBDA sum, i : JetPlus(sum, term(i)), JetOf(0), [i \in DOMAIN s.amplitude |-> i])
=============================================================================
