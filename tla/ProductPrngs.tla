------------------------------ MODULE ProductPrngs ------------------------------
(* The PRNGs that multiply counters and fold the product, which has twice the *)
(* bits of a word, or square a counter again and again: mum.hpp, clmum.hpp,   *)
(* wyrand.hpp, mumx_ctr2.hpp, mumx_mumx_*.hpp, clmulrand.hpp, squares.hpp.    *)
(* A product is not one-to-one, so that only the counters have a period.      *)
(* Objects are as in LinearPrngs.                                             *)
EXTENDS Words

LOCAL INSTANCE SequencesExt

Wide == INSTANCE Words WITH W <- 2 * W

After(o, s, result) == [object |-> [o EXCEPT !.s = s], result |-> result]

wyp == <<Literal(<<\h2d35, \h8dcc, \haa6c, \h78a5>>), Literal(<<\h8bb8, \h4b93, \h962e, \hacc9>>),
         Literal(<<\h4b33, \ha62e, \hd433, \hd4a3>>), Literal(<<\h4d5a, \h2da5, \h1de1, \haa47>>)>>

-----------------------------------------------------------------------------
(* The product of two words, and its halves.                                  *)

mul(a, b)   == Wide!Mul(a, b)
clmul(a, b) == FoldSet(LAMBDA i, sum : Xor(Wide!Shl(a, i), sum), {}, b)     \* without carries

hi(product) == {i - W : i \in product \ Bits}
lo(product) == product \cap Bits

mumx(a, b)   == LET p == mul(a, b) IN Xor(hi(p), lo(p))
clmums(a, b) == LET p == clmul(a, b) IN Sub(hi(p), lo(p))

-----------------------------------------------------------------------------
(* Two counters, each of one word.                                            *)

TwoCounters(s) == [s EXCEPT ![0] = Add(@, wyp[1]), ![1] = Add(@, wyp[2])]

mumx_ctr2_product_NoXor(s) == mul(s[0], s[1])       \* mutant: the counters as they are

mumx_ctr2_product(s) == mul(s[0], Xor(s[1], wyp[3]))
clmulrand_product(s) == clmul(s[0], s[1])

mumx_ctr2(o) ==
    LET s == TwoCounters(o.s)
        p == mumx_ctr2_product(s)
    IN  After(o, s, Xor(hi(p), lo(p)))

clmulrand(o) == LET s == TwoCounters(o.s) IN After(o, s, clmums(s[0], s[1]))

-----------------------------------------------------------------------------
(* One counter.                                                               *)

Weyl(s, inc) == [s EXCEPT ![0] = Add(@, inc)]

wyrand(o) ==
    LET s == Weyl(o.s, wyp[1])
    IN  After(o, s, mumx(s[0], Xor(s[0], wyp[2])))

mumx_mumx_rrxx_1(o) ==
    LET x == o.s[0]
        a == Literal(<<\hd14f, \hff8a, \hce47, \h6a59>>)
    IN  After(o, Weyl(o.s, wyp[1]), mumx(mumx(x, a), Xor(Xor(x, Rotr(x, 25)), Rotr(Xor(x, a), 47))))

x_a == Literal(<<\h2ca7, \haea0, \hebd7, \h1d49>>)
x_b == Literal(<<\h9e49, \hb5a3, \h555f, \h2295>>)

mumx_mumx_x1(o) ==
    LET x == o.s[0] IN After(o, Weyl(o.s, wyp[1]), mumx(mumx(x, x_a), Xor(x, x_b)))

mumx_mumx_x2(o) ==
    LET x == o.s[0] IN After(o, Weyl(o.s, wyp[1]), mumx(mumx(x, x_a), mumx(x, x_b)))

-----------------------------------------------------------------------------
(* Squares: rounds that square, add and exchange the halves.                  *)

squares_key == Literal(<<\hc8e4, \hfd15, \h4ce3, \h2f6d>>)

Half == W \div 2

(* The squares before the halves are exchanged, after each of the rounds;     *)
(* y is added in the odd ones and z in the even ones.                         *)
Rounds(s, rounds) ==
    LET y == Mul(s, squares_key)
        z == Add(y, squares_key)
    IN  FoldLeft(LAMBDA xs, i :
                    LET x == IF i = 1 THEN y ELSE Rotl(xs[i - 1], Half)
                    IN  Append(xs, Add(Mul(x, x), IF i % 2 = 1 THEN y ELSE z)),
                 <<>>, [i \in 1..rounds |-> i])

squares32(o) ==
    LET s == Weyl(o.s, Number(1)) IN After(o, s, Shr(Rounds(s[0], 4)[4], Half))

squares64(o) ==
    LET s == Weyl(o.s, Number(1))
        x == Rounds(s[0], 5)
    IN  After(o, s, Xor(x[4], Shr(x[5], Half)))
=============================================================================
