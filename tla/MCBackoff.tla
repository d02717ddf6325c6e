------------------------------ MODULE MCBackoff ------------------------------
EXTENDS Backoff

\* Halving, none, growth by a half, doubling and tripling, and a factor of zero.
SomeFactors == {<<0, 1>>, <<1, 2>>, <<1, 1>>, <<3, 2>>, <<2, 1>>, <<3, 1>>}
=============================================================================
