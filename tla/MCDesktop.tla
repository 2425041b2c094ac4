----------------------------- MODULE MCDesktop ------------------------------
EXTENDS Desktop

\* The windows that _desktop_run opens, at their places on a 1024x768 screen.
MCLayout ==
  [console |-> [x |-> 16, y |-> 16, width |-> 972, height |-> 408],
   view    |-> [x |-> 16, y |-> 16, width |-> 972, height |-> 408],
   bikeshed |-> [x |-> 200, y |-> 200, width |-> 400, height |-> 400]]
MCOpened == <<"console", "bikeshed">>
MCChildren == [console |-> {"view"}, bikeshed |-> {}]

Packet(b, x, y) == [buttons |-> b, dx |-> x, dy |-> y]
MCPackets == {Packet(1, 115, 87), Packet(3, 40, 85), Packet(0, 0, 0)}
=============================================================================
