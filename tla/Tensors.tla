------------------------------ MODULE Tensors ------------------------------
(***************************************************************************)
(* matmul of an M x K with a K x N matrix: the plain loops and the blocked *)
(* ones of the AVX2 path.  Addition of doubles is not associative, so that *)
(* an element of the product is the sequence of the k whose product        *)
(* A(i,k)*B(k,j) was added to it.                                          *)
(***************************************************************************)
EXTENDS Integers, Sequences

Least(a, b) == IF a < b THEN a ELSE b

Zeros(M, N) == [p \in (0..(M - 1)) \X (0..(N - 1)) |-> <<>>]

\* for (x = from; x < to; x += step) body
Loop(C, from, to, step, Body(_, _)) ==
  LET passes == (to - from + step - 1) \div step
      After[n \in 0..passes] ==
        IF n = 0 THEN C ELSE Body(After[n - 1], from + (n - 1) * step)
  IN  After[passes]

\* The loops over i, k and j, each adding its product to C(i,j).
matmul(M, N, K) ==
  Loop(Zeros(M, N), 0, M, 1, LAMBDA C1, i :
    Loop(C1, 0, K, 1, LAMBDA C2, k :
      Loop(C2, 0, N, 1, LAMBDA C3, j : [C3 EXCEPT ![<<i, j>>] = Append(@, k)])))

\* Slip for matmul_avx2: the accumulator starts at 0 in every block.
matmul_avx2_restarts(M, N, K, BS) ==
  Loop(Zeros(M, N), 0, M, BS, LAMBDA C1, i0 :
    Loop(C1, 0, N, BS, LAMBDA C2, j0 :
      Loop(C2, 0, K, BS, LAMBDA C3, k0 :
        Loop(C3, i0, Least(M, i0 + BS), 1, LAMBDA C4, i :
          Loop(C4, j0, Least(N, j0 + BS), 1, LAMBDA C5, j :
            [C5 EXCEPT ![<<i, j>>] =
               Loop(<<>>, k0, Least(K, k0 + BS), 1, Append)])))))

\* Blocks of BS rows, columns and products; acc starts with what the blocks of
\* smaller k have left in C(i,j).
matmul_avx2(M, N, K, BS) ==
  Loop(Zeros(M, N), 0, M, BS, LAMBDA C1, i0 :
    Loop(C1, 0, N, BS, LAMBDA C2, j0 :
      Loop(C2, 0, K, BS, LAMBDA C3, k0 :
        Loop(C3, i0, Least(M, i0 + BS), 1, LAMBDA C4, i :
          Loop(C4, j0, Least(N, j0 + BS), 1, LAMBDA C5, j :
            [C5 EXCEPT ![<<i, j>>] =
               Loop(@, k0, Least(K, k0 + BS), 1, Append)])))))

\* Both paths add the same products to each element, each once and in the same
\* order, and therefore to the same double: what a model predicts for a row does
\* not depend on the path the processor allows or on the rows batched with it.
SameTerms(M, N, K, BS) == matmul_avx2(M, N, K, BS) = matmul(M, N, K)
=============================================================================
