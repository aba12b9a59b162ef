------------------------------ MODULE MCMobility ------------------------------
EXTENDS Mobility

Movers == {"Mass", "Linear", "ConstSpeed", "Circle", "Rectangle", "Turtle", "BonnMotion", "ANSim"}

\* one on the playground, and one that leaves it on its right side
TwoRectangles == {<<1, 1, 5, 7>>, <<1, 1, 9, 5>>}
=============================================================================
