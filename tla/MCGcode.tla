------------------------------ MODULE MCGcode ------------------------------
(* Lines for Gcode: the first two lines set the modes, the last observes them. *)
EXTENDS Gcode

C(n) == [name |-> n, value |-> 0]
W(n, v) == [name |-> n, value |-> v]
L(words) == [jog |-> FALSE, words |-> words]
J(words) == [jog |-> TRUE, words |-> words]

V(x, z) == [X |-> x, Y |-> 0, Z |-> z]
MCStored == [i \in Slots |-> CASE i = 1 -> V(-1, 0)
                              [] i = G28Slot -> V(-1, -1)
                              [] i = G30Slot -> V(-3, 0)
                              [] OTHER -> Zero]
MCHome == V(-1, 0)

Modals == {
  L(<<C("G91"), C("G1"), W("X", -1), W("F", 1)>>),
  L(<<C("G92"), W("X", 0)>>),
  L(<<C("G55")>>),
  L(<<C("G43_1"), W("Z", -1)>>),
  L(<<C("G20"), C("G93")>>),
  L(<<C("M3"), W("S", 1), C("M8"), W("F", 1)>>),
  J(<<C("G91"), W("X", -1), W("F", 1)>>) }

Commanding == {
  L(<<C("G0"), W("Z", -1)>>),
  L(<<C("G53"), C("G0"), W("X", -2)>>),
  L(<<C("G1"), W("X", 3), W("F", 1)>>),
  L(<<C("G1"), W("Z", -1), W("F", 0)>>),
  L(<<C("G2"), W("X", -2), W("I", -1), W("F", 1)>>),
  L(<<C("G3"), C("G18"), W("Z", -1), W("R", 1), W("F", 1)>>),
  L(<<C("G38_2"), W("Z", -1), W("F", 1)>>),
  L(<<C("G38_3"), W("X", -1), W("F", 1)>>),
  L(<<C("G92"), C("G20"), C("G55"), W("X", 1), W("Z", 0)>>),
  L(<<C("G92_1")>>),
  L(<<C("G10"), W("L", 2), W("P", 1), W("X", -1)>>),
  L(<<C("G10"), C("G55"), W("L", 20), W("P", 0), W("X", 1)>>),
  L(<<C("G28"), W("Z", 0)>>),
  L(<<C("G28"), W("Z", 1)>>),
  L(<<C("G30")>>),
  L(<<C("G28_1")>>),
  L(<<C("G49")>>),
  L(<<C("M5"), W("S", 2)>>),
  L(<<W("S", 2)>>),
  L(<<C("G94"), W("F", 0)>>),
  L(<<C("G4"), W("P", 1)>>),
  L(<<C("M0")>>),
  L(<<C("M30")>>),
  L(<<C("G80")>>),
  L(<<C("G0"), C("G1")>>) }

Observing == {
  L(<<C("G1"), W("X", -1)>>),
  L(<<C("G54")>>),
  L(<<C("M2")>>),
  L(<<C("G10"), W("L", 20), W("P", 1), W("X", 0)>>),
  J(<<W("X", 0), W("F", 1)>>) }

\* A jog without axis words, after the machine has been homed.
JogLines == <<{J(<<W("F", 1)>>)}>>

MCLines == <<Modals, Modals \cup Commanding, Observing>>
=============================================================================
