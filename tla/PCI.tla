-------------------------------- MODULE PCI ---------------------------------
(***************************************************************************)
(* The scan of the PCI bus at the start (pci/pci.c) and the searches in    *)
(* the list it leaves.  A configuration register is four bytes, the lowest *)
(* first; a base address register is a number of WordSize values, of which *)
(* the device lets the software set the multiples of its size, and whose   *)
(* lowest bits (below FLAG_BITS) are fixed.                                *)
(***************************************************************************)
EXTENDS LinkedList, SequencesExt

CONSTANTS
  Functions,     \* every <<bus, slot, func>>, in the order of the scan
  Plugged,       \* what may be plugged in: function -> registers, or NoDevice
  NoDevice,
  WordSize,      \* the values of a register: 2^32 in the code
  FLAG_BITS      \* 16: the bits masked off when a size is computed

Bars == 0 .. 5
Function0(f) == <<f[1], f[2], 0>>

\* A base address register: a device that needs nothing there has a 0; any
\* other keeps what is below its size.  Memory comes in sizes of at least
\* FLAG_BITS that divide what a register can hold.
BarIsPossible(b) ==
  /\ {b.value, b.size, b.flags} \subseteq Nat /\ b.size < WordSize
  /\ IF b.size = 0 THEN b.value = 0 ELSE b.value % b.size = b.flags
  /\ b.size # 0 /\ b.flags = 0 => WordSize % b.size = 0 /\ b.size % FLAG_BITS = 0

\* A card that is plugged in answers with numbers other than all bits set.
CardIsPossible(card) ==
  /\ card.register[0] \in Seq(STRING) /\ Len(card.register[0]) = 4
  /\ SubSeq(card.register[0], 1, 2) # <<"FF", "FF">>
  /\ SubSeq(card.register[0], 3, 4) # <<"FF", "FF">>
  /\ \A k \in Bars : BarIsPossible(card.bar[k])

\* Every function is looked at once; each has a place for a list element.
PciAssumption ==
  /\ FLAG_BITS \in Nat \ {0} /\ WordSize \in Nat \ {0} /\ WordSize % FLAG_BITS = 0
  /\ Functions \in Seq(Nat \X Nat \X Nat) /\ IsInjective(Functions)
  /\ 1 .. Len(Functions) \subseteq Element
  /\ \A f \in Range(Functions) : Function0(f) \in Range(Functions)
  /\ \A b \in Plugged :
       /\ DOMAIN b = Range(Functions)
       /\ \A f \in DOMAIN b : b[f] = NoDevice \/ CardIsPossible(b[f])

ASSUME PciAssumptions == PciAssumption

VARIABLES
  bus,        \* what is plugged in
  bars,       \* function -> the values of its base address registers
  at,         \* the function that is looked at, as an index
  step, bar,  \* where in __pci_get_memory_size, and which register
  orig, size, \* its local variables
  config,     \* the pci_config_t that is being filled
  devices     \* lst_pci_devices; its data are the filled pci_config_t

pciVars == <<bus, bars, at, step, bar, orig, size, config, devices>>

NoConfig == [vendor_id |-> "none"]

Present(f) == bus[f] # NoDevice
Here == Functions[at]

----------------------------------------------------------------------------
\* The reads.  Where nothing is plugged in, all bits are set.

Register(f, offset) ==
  IF Present(f) THEN bus[f].register[offset \div 4] ELSE <<"FF", "FF", "FF", "FF">>

__pci_config_read_long(f, offset) == Register(f, offset)

\* The half in which the offset lies: its first byte is 1 or 3.
HalfAt(offset) == 1 + 2 * ((offset \div 2) % 2)

__pci_config_read_short(f, offset) ==
  SubSeq(Register(f, offset), HalfAt(offset), HalfAt(offset) + 1)

\* The first byte of that half: the offset is not looked at closer.
__pci_config_read_byte(f, offset) == Register(f, offset)[HalfAt(offset)]

ReadBar(f, k) == bars[f][k]

\* What the device keeps of a value written to a base address register.
Settable(f, k, v) ==
  LET b == bus[f].bar[k]
  IN IF b.size = 0 THEN 0 ELSE v - (v % b.size) + b.flags

----------------------------------------------------------------------------
\* __pci_scan_devices.

\* Whether a function is taken for a device: function 0 of its slot answers
\* with a vendor, and it with a device number.
Found(f) ==
  /\ __pci_config_read_short(Function0(f), 0) # <<"FF", "FF">>
  /\ __pci_config_read_short(f, 2) # <<"FF", "FF">>

HeaderType(f) == __pci_config_read_byte(f, 14)

\* Its low three bits; the top bit says that the slot has several functions.
HeaderKind(f) ==
  CASE HeaderType(f) \in {"00", "80"} -> "device"
    [] HeaderType(f) \in {"01", "81"} -> "bridge"
    [] HeaderType(f) \in {"02", "82"} -> "cardbus"
    [] OTHER -> "unknown"

\* The fields that are read for every device.  The vendor is that of
\* function 0.
CommonFields(f) ==
  LET class == __pci_config_read_long(f, 8)
  IN [at |-> f,
      vendor_id |-> __pci_config_read_short(Function0(f), 0),
      device_id |-> __pci_config_read_short(f, 2),
      base_class |-> class[4], sub_class |-> class[3],
      programming_if |-> class[2], revision |-> class[1],
      cache_line_size |-> __pci_config_read_byte(f, 12),
      latency_timer |-> __pci_config_read_byte(f, 13),
      header_type |-> HeaderType(f),
      BIST |-> __pci_config_read_byte(f, 15),
      interrupt_line |-> __pci_config_read_byte(f, 60),
      interrupt_pin |-> __pci_config_read_byte(f, 61),
      bar_address |-> <<>>, bar_sizes |-> <<>>]

PciInit ==
  /\ bus \in Plugged
  /\ bars = [f \in {g \in DOMAIN bus : Present(g)} |->
               [k \in Bars |-> bus[f].bar[k].value]]
  /\ at = 1 /\ step = "look" /\ bar = 0 /\ orig = 0 /\ size = 0
  /\ config = NoConfig
  /\ devices = list_init(NoElements)

Skip ==
  /\ step = "look" /\ at <= Len(Functions) /\ ~Found(Here)
  /\ at' = at + 1
  /\ UNCHANGED <<bus, bars, step, bar, orig, size, config, devices>>

\* A device is read; one with header type 0 has its registers measured.
Look ==
  /\ step = "look" /\ at <= Len(Functions) /\ Found(Here)
  /\ config' = IF HeaderKind(Here) = "device"
               THEN [CommonFields(Here) EXCEPT
                       !.bar_address = [k \in Bars |-> ReadBar(Here, k)]]
               ELSE CommonFields(Here)
  /\ step' = CASE HeaderKind(Here) = "device" -> "read"
               [] HeaderKind(Here) = "unknown" -> "panic"
               [] OTHER -> "insert"
  /\ bar' = 0
  /\ UNCHANGED <<bus, bars, at, orig, size, devices>>

----------------------------------------------------------------------------
\* __pci_get_memory_size: four accesses for each register.

ReadOriginal ==
  /\ step = "read"
  /\ orig' = ReadBar(Here, bar) /\ step' = "probe"
  /\ UNCHANGED <<bus, bars, at, bar, size, config, devices>>

Probe ==
  /\ step = "probe"
  /\ bars' = [bars EXCEPT ![Here][bar] = Settable(Here, bar, WordSize - 1)]
  /\ step' = "size"
  /\ UNCHANGED <<bus, at, bar, orig, size, config, devices>>

ReadSize ==
  /\ step = "size"
  /\ size' = ReadBar(Here, bar) /\ step' = "restore"
  /\ UNCHANGED <<bus, bars, at, bar, orig, config, devices>>

\* The complement of the masked value, plus one, as a 32-bit number.
SizeOf(v) == (WordSize - (v - (v % FLAG_BITS))) % WordSize

\* What goes back into the register.
WrittenBack_Size == size           \* DevicesFound

WrittenBack == orig

Restore ==
  /\ step = "restore"
  /\ bars' = [bars EXCEPT ![Here][bar] = Settable(Here, bar, WrittenBack)]
  /\ config' = [config EXCEPT !.bar_sizes = Append(@, SizeOf(size))]
  /\ IF bar = 5 THEN step' = "insert" /\ bar' = 0
                ELSE step' = "read" /\ bar' = bar + 1
  /\ UNCHANGED <<bus, at, orig, size, devices>>

\* In front of the devices found before.
InsertDevice ==
  /\ step = "insert"
  /\ devices' = list_insert_next(devices, Null, at, config)
  /\ at' = at + 1 /\ step' = "look" /\ config' = NoConfig
  /\ UNCHANGED <<bus, bars, bar, orig, size>>

PciNext == Skip \/ Look \/ ReadOriginal \/ Probe \/ ReadSize \/ Restore \/ InsertDevice

PciSpec == PciInit /\ [][PciNext]_pciVars

----------------------------------------------------------------------------
\* The searches.

Listed == DataOf(devices, Forward(devices, Len(Functions)))

\* The first in the list of those that match.
FirstOf(hit) ==
  IF hit = {} THEN Null ELSE Listed[CHOOSE k \in hit : \A j \in hit : k <= j]

__pci_find_by_class(base, sub, prog) ==
  FirstOf({k \in DOMAIN Listed :
             /\ Listed[k].base_class = base /\ Listed[k].sub_class = sub
             /\ Listed[k].programming_if = prog})

__pci_find_by_device(vendor, device) ==
  FirstOf({k \in DOMAIN Listed :
             Listed[k].vendor_id = vendor /\ Listed[k].device_id = device})

----------------------------------------------------------------------------
\* Properties.

Plug == {f \in DOMAIN bus : Present(f)}

\* When function f is looked at.
Turn(f) == CHOOSE n \in DOMAIN Functions : Functions[n] = f

\* After the scan, and after each device: what was written into the base
\* address registers to learn their sizes is gone, the sizes of memory
\* registers are right, and every function of a slot whose function 0 is there
\* is in the list once, the last found first, so that both searches find each
\* of them by its own numbers unless a later one has the same
\* (pci.c:63-189, 203-219, 352-388).
DevicesFound ==
  step = "look" =>
    /\ \A f \in Plug, k \in Bars : bars[f][k] = bus[f].bar[k].value
    /\ {d.at : d \in Range(Listed)} =
         {f \in Plug : Turn(f) < at /\ Present(Function0(f))}
    /\ \A i, j \in DOMAIN Listed : i < j => Turn(Listed[i].at) > Turn(Listed[j].at)
    /\ \A d \in Range(Listed), k \in Bars :
         (d.bar_sizes # <<>> /\ bus[d.at].bar[k].flags = 0) =>
           d.bar_sizes[k + 1] = bus[d.at].bar[k].size
    /\ \A j \in DOMAIN Listed :
         LET d == Listed[j]
             m == __pci_find_by_device(d.vendor_id, d.device_id)
             c == __pci_find_by_class(d.base_class, d.sub_class, d.programming_if)
         IN /\ d.device_id = SubSeq(bus[d.at].register[0], 3, 4)
            /\ {m, c} \subseteq Range(SubSeq(Listed, 1, j))

\* "read a 32-bit, 16-bit, or 8-bit value (respectively) from the PCI
\* configuration space of a device on the specified bus, device, function and
\* offset" (pci.h:158-161): the interrupt pin is the byte at 61.
ReadsAtOffset ==
  \A d \in Range(Listed) :
    d.interrupt_pin = bus[d.at].register[15][2]
=============================================================================
