----------------------------- MODULE MCNremInsight -----------------------------
EXTENDS NremInsight, TLC

CONSTANTS d1, d2, r1, r2, g1, g2

Judged == r1 :> d2 @@ r2 :> d1
SharedGround == {<<d1, d2>>}
Reached == g1 :> {d1} @@ g2 :> {d2}
===============================================================================
