----------------------------- MODULE MCDevices ------------------------------
(***************************************************************************)
(* The devices that carry characters and pixels, the bus they are on, and  *)
(* the two kinds of linked list that the kernel keeps its things in.  What *)
(* one needs of another is in its own module: part says which one a        *)
(* behaviour runs.                                                         *)
(***************************************************************************)
EXTENDS Serial, GraphicConsole, Keyboard, Painting, PCI, ListCalls, QueueLinks

\* The serial line.
CONSTANTS chA, chB
MCBlocks == {<<chA, chB>>, <<chB, chA, chB>>}

\* The console: a region with a margin on all sides and one as wide as the
\* screen, both builds; every conversion, in fields that are wide enough and
\* not, of the smallest and the largest word among others.
MCRowZeros == {0, -1}
MCRegions  == {<<1, 1, 9, 9>>, <<0, 1, 9, 1>>}
MCFixed    == {<<3, 0>>}
Code(t, w, left, zero) == [type |-> t, width |-> w, left |-> left, zero |-> zero]
MCFormats ==
  {<<Code(t, w, left, zero), v>> :
     t \in {"d", "x", "o"}, w \in {0, 4}, left \in BOOLEAN, zero \in BOOLEAN,
     v \in {-32, -1, 0, 9, 10, 31}}

\* The painters: depths and sizes with and without a painter, boxes that reach
\* over every edge, and a letter with pixels in its corners.
VideoMode(works, w, h, depth) ==
  [ok |-> works, width |-> w, height |-> h, bpp |-> depth]
MCModes == <<VideoMode(TRUE, 12, 9, 16), VideoMode(TRUE, 10, 8, 24),
             VideoMode(TRUE, 14, 11, 32), VideoMode(FALSE, 12, 10, 32),
             VideoMode(TRUE, 12, 10, 32)>>
MCBoxes == {-3, 0, 5, 10} \X {-2, 0, 4, 9} \X {4, 5, 7} \X {4, 6}
MCPlaces == (-6 .. 12) \X (-3 .. 10)
MCGlyph == {<<0, 0>>, <<4, 0>>, <<0, 6>>, <<4, 6>>, <<2, 3>>}

\* The bus: three functions in two slots.  Cards with memory and port
\* registers, a bridge, and one with a header that nobody knows.
MCFunctions == <<<<0, 0, 0>>, <<0, 0, 1>>, <<0, 1, 0>>>>
NoBar == [value |-> 0, size |-> 0, flags |-> 0]
MemoryBar(v, s) == [value |-> v, size |-> s, flags |-> 0]
PortsBar(v, s)  == [value |-> v + 1, size |-> s, flags |-> 1]
Card(id, head_type, b0, b5) ==
  [register |-> (0 :> <<"86", "80", id, "12">>) @@ (2 :> <<"02", "00", "00", "02">>)
             @@ (3 :> <<"08", "20", head_type, "00">>)
             @@ (15 :> <<"0A", "01", "08", "38">>),
   bar |-> [k \in Bars |-> CASE k = 0 -> b0 [] k = 5 -> b5 [] OTHER -> NoBar]]
MCCards ==
  {Card("29", "00", MemoryBar(32, 16), PortsBar(64, 4)),
   Card("30", "80", MemoryBar(128, 128), MemoryBar(192, 32)),
   Card("31", "01", NoBar, NoBar), Card("32", "03", NoBar, NoBar)}
MCPlugged == [Range(MCFunctions) -> MCCards \cup {NoDevice}]

VARIABLE part

devicesVars == <<part, serVars, gconVars, keyVars, paintVars, pciVars, listVars,
                 qVars>>

\* The others are where they start, in one of the ways they can start.
DevicesInit ==
  /\ part \in {"serial", "console", "keyboard", "painting", "bus", "list", "queue"}
  /\ SerInit /\ GInit /\ KeyInit /\ PaintInit /\ PciInit /\ ListInit /\ QInit
  /\ part # "console" => con.row0 = 0 /\ con.x1 = 0
  /\ part # "painting" => mode = 5
  /\ part # "bus" => \A f \in Range(MCFunctions) : bus[f] = NoDevice

DevicesNext ==
  /\ UNCHANGED part
  /\ \/ /\ part = "serial" /\ SerNext
        /\ UNCHANGED <<gconVars, keyVars, paintVars, pciVars, listVars, qVars>>
     \/ /\ part = "console" /\ GNext
        /\ UNCHANGED <<serVars, keyVars, paintVars, pciVars, listVars, qVars>>
     \/ /\ part = "keyboard" /\ KeyNext
        /\ UNCHANGED <<serVars, gconVars, paintVars, pciVars, listVars, qVars>>
     \/ /\ part = "painting" /\ PaintNext
        /\ UNCHANGED <<serVars, gconVars, keyVars, pciVars, listVars, qVars>>
     \/ /\ part = "bus" /\ PciNext
        /\ UNCHANGED <<serVars, gconVars, keyVars, paintVars, listVars, qVars>>
     \/ /\ part = "list" /\ ListNext
        /\ UNCHANGED <<serVars, gconVars, keyVars, paintVars, pciVars, qVars>>
     \/ /\ part = "queue" /\ QNext
        /\ UNCHANGED <<serVars, gconVars, keyVars, paintVars, pciVars, listVars>>

DevicesSpec ==
  /\ DevicesInit /\ [][DevicesNext]_devicesVars
  /\ WF_serVars(part = "serial" /\ (SendNext \/ SendDone))
=============================================================================
