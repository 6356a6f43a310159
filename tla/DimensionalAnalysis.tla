------------------------ MODULE DimensionalAnalysis ------------------------
(***************************************************************************)
(* PiTheorem and nullspace (extra.go): the dimensionless products of some  *)
(* quantities, from their dimensions, a sequence of containers.  The sign  *)
(* tests against 1e-12 and 1e-9 are exact here.                            *)
(***************************************************************************)
EXTENDS UnitsContainers, Sequences

Seqs == INSTANCE SequencesExt

\* The rows are the dimensions that occur, in any order: the reduced form is the same.
DimNames(dims) == Seqs!SetToSeq(UNION {Names(dims[j]) : j \in DOMAIN dims})
Matrix(dims) ==
  LET names == DimNames(dims)
  IN  [i \in DOMAIN names |-> [j \in DOMAIN dims |-> Get(dims[j], names[i])]]

Swap(M, i, k) == [M EXCEPT ![i] = M[k], ![k] = M[i]]
Scale(M, i, f) == [M EXCEPT ![i] = [j \in DOMAIN M[i] |-> Over(M[i][j], f)]]
Eliminate(M, row, col) ==
  [i \in DOMAIN M |->
     IF i = row THEN M[i]
     ELSE [j \in DOMAIN M[i] |-> Minus(M[i][j], Times(M[i][col], M[row][j]))]]

\* One column of the reduction to row echelon form: red.row is the next row.
ReduceColumn(red, col) ==
  LET nonzero == {i \in DOMAIN red.M : i >= red.row /\ red.M[i][col] # Zero}
      pivot == CHOOSE i \in nonzero : \A k \in nonzero : i <= k
      swapped == Swap(red.M, red.row, pivot)
      unit == Scale(swapped, red.row, swapped[red.row][col])
  IN  IF nonzero = {} THEN red
      ELSE [M |-> Eliminate(unit, red.row, col),
            row |-> red.row + 1,
            pivots |-> Append(red.pivots, col)]

Reduce(M, n) ==
  Seqs!FoldLeft(ReduceColumn, [M |-> M, row |-> 1, pivots |-> << >>], [j \in 1..n |-> j])

SameSign(red, n, f) ==   \* mutant: the coefficient is not moved to the other side
  [j \in 1..n |->
     IF j = f THEN One
     ELSE IF \E i \in DOMAIN red.pivots : red.pivots[i] = j
     THEN red.M[CHOOSE i \in DOMAIN red.pivots : red.pivots[i] = j][f]
     ELSE Zero]

\* The solution with 1 at the free column f and 0 at the others.
Solution(red, n, f) ==
  [j \in 1..n |->
     IF j = f THEN One
     ELSE IF \E i \in DOMAIN red.pivots : red.pivots[i] = j
     THEN Neg(red.M[CHOOSE i \in DOMAIN red.pivots : red.pivots[i] = j][f])
     ELSE Zero]

Nullspace(M, n) ==
  LET red == Reduce(M, n)
  IN  {Solution(red, n, f) : f \in (1..n) \ {red.pivots[i] : i \in DOMAIN red.pivots}}

\* A group with more negative exponents than positive ones is inverted.
Upright(v) ==
  LET signed(s) == Cardinality({j \in DOMAIN v : v[j][1] * s > 0})
  IN  IF signed(-1) > signed(1) THEN [j \in DOMAIN v |-> Neg(v[j])] ELSE v

PiTheorem(dims) ==
  IF DimNames(dims) = << >> THEN {} ELSE {Upright(v) : v \in Nullspace(Matrix(dims), Len(dims))}

-----------------------------------------------------------------------------
\* The dimension of a product of powers of the quantities.
DimensionOf(dims, v) ==
  Seqs!FoldLeft(LAMBDA u, j : Mul(u, Pow(dims[j], v[j])), Empty, [j \in DOMAIN dims |-> j])

\* Every group is dimensionless, and every dimensionless product with small exponents
\* is a product of powers of groups.
GroupsComplete(dims, groups) ==
  LET Small == {Whole(-1), Zero, One}
      Combination(c) == [j \in DOMAIN dims |->
        FoldSet(LAMBDA g, r : Plus(Times(c[g], g[j]), r), Zero, groups)]
  IN  /\ \A g \in groups : DimensionOf(dims, g) = Empty /\ \E j \in DOMAIN g : g[j] # Zero
      /\ \A v \in [DOMAIN dims -> Small] :
           DimensionOf(dims, v) = Empty =>
             \E c \in [groups -> Small] : Combination(c) = v
=============================================================================
