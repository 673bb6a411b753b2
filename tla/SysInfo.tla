------------------------------- MODULE SysInfo -------------------------------
(***************************************************************************)
(* internal/sysinfo: what the collectors that a run starts with make of    *)
(* the answers of the operating system.  Pure operators, checked against   *)
(* what they are meant to say; the text of the answers is abstracted to    *)
(* the kinds of lines and entries the code tells apart.                    *)
(***************************************************************************)
EXTENDS Naturals, Sequences, FiniteSets

CONSTANTS
  Interfaces,   \* lists of network interfaces
  PortLists,    \* outputs of networksetup -listallhardwareports
  Trees,        \* USB trees: node k hangs below parent[k], 0 is the bus
  Screens       \* pairs of video controllers and screens of Windows

ASSUME InterfacesAssumption ==
  Interfaces \subseteq Seq([name : STRING, loopback : BOOLEAN, up : BOOLEAN, wl : BOOLEAN,
                           addrs : SUBSET {"loopback", "link_local", "global"}])
ASSUME PortListsAssumption ==
  PortLists \subseteq Seq([key : {"port"}, wifi : BOOLEAN] \union
                         [key : {"device"}, name : STRING] \union [key : {"address"}])
ASSUME TreesAssumption ==
  \A t \in Trees : /\ t.parent \in Seq(Nat) /\ \A k \in DOMAIN t.parent : t.parent[k] < k
                   /\ t.vendor \in [DOMAIN t.parent -> BOOLEAN]
ASSUME ScreensAssumption ==
  Screens \subseteq Seq([mode : STRING, hz : Nat]) \X Seq(STRING)

-----------------------------------------------------------------------------
(* Network adapters. *)

(* Mutant: the port once found to be Wi-Fi stays so for all that follow.   *)
ScanPortSticky(acc, line) ==
  CASE line.key = "port"   -> [acc EXCEPT !.wifi = @ \/ line.wifi]
    [] line.key = "device" -> IF acc.wifi
                                THEN [acc EXCEPT !.names = @ \union {line.name}] ELSE acc
    [] OTHER               -> acc

(* A line of the answer after what is known from the lines before it: is   *)
(* the port last named Wi-Fi, and which devices belong to one that is.     *)
ScanPort(acc, line) ==
  CASE line.key = "port"   -> [acc EXCEPT !.wifi = line.wifi]
    [] line.key = "device" -> IF acc.wifi
                                THEN [acc EXCEPT !.names = @ \union {line.name}] ELSE acc
    [] OTHER               -> acc

NoPort == [wifi |-> FALSE, names |-> {}]
PortsScanned(lines) ==
  LET scan[k \in 0..Len(lines)] == IF k = 0 THEN NoPort ELSE ScanPort(scan[k - 1], lines[k])
  IN  scan

(* macOS: the devices of the hardware ports that are Wi-Fi.                *)
WirelessInterfaceNames(lines) == PortsScanned(lines)[Len(lines)].names

First(S) == CHOOSE k \in S : \A l \in S : k <= l

(* The interfaces that carry traffic, in their order, and the default      *)
(* among them: the first wired one, or the first wireless one if none is   *)
(* wired.                                                                  *)
CollectAdapters(ifs, wifi) ==
  LET kept == {k \in DOMAIN ifs : ~ifs[k].loopback /\ ifs[k].up /\ "global" \in ifs[k].addrs}
      Type(k) == IF ifs[k].wl \/ ifs[k].name \in wifi THEN "wireless" ELSE "wired"
      wired == {k \in kept : Type(k) = "wired"}
  IN  [k \in kept |->
         [name |-> ifs[k].name, type |-> Type(k),
          default |-> k = First(IF wired # {} THEN wired ELSE kept)]]

-----------------------------------------------------------------------------
(* USB devices and displays. *)

Nodes(t) == DOMAIN t.parent

(* The items that hang below p, from the k-th node on; the node after the  *)
(* last one ends every list.                                               *)
End(t) == Len(t.parent) + 1
Item(t, p, k) == First({c \in Nodes(t) : t.parent[c] = p /\ k <= c} \union {End(t)})
Device(t, k) == IF t.vendor[k] THEN <<k>> ELSE <<>>

(* macOS: every node with a vendor, hubs and what hangs below them alike.  *)
(* walk[k] is what the list that k is in appends from k on.                *)
Walks(t) ==
  LET walk[k \in 1..End(t)] ==
        IF k = End(t) THEN <<>>
        ELSE Device(t, k) \o walk[Item(t, k, 1)] \o walk[Item(t, t.parent[k], k + 1)]
  IN  walk
WalkUSBItems(t) == Walks(t)[Item(t, 0, 1)]

(* Both queries share one context of five seconds: after a first one that  *)
(* timed out the second fails at once.  how is the outcome of a query.     *)
CollectUSBDevices(host, legacy) ==
  LET Devices(q) == IF q.how = "tree" THEN WalkUSBItems(q.tree) ELSE <<>>
  IN  IF Devices(host) # <<>> THEN Devices(host)
      ELSE IF host.how = "timeout" THEN <<>>
      ELSE Devices(legacy)

(* Windows: one display per screen; the refresh rate is that of the first  *)
(* controller in the same mode that knows one.                             *)
ParseDisplays(gpus, screens) ==
  LET shown == {k \in DOMAIN screens : screens[k] # "none"}
      Rates(s) == {g \in DOMAIN gpus : gpus[g].mode = s /\ gpus[g].hz > 0}
  IN  [k \in shown |->
         [mode |-> screens[k],
          hz |-> IF Rates(screens[k]) = {} THEN 0 ELSE gpus[First(Rates(screens[k]))].hz]]

-----------------------------------------------------------------------------
(* The inputs for which a collector is wrong; TLC evaluates each set once. *)

Between(lines, j, k) == {lines[m].key : m \in (j + 1)..(k - 1)}

WrongPorts ==
  {lines \in PortLists : WirelessInterfaceNames(lines) #
     {lines[k].name : k \in {l \in DOMAIN lines :
        /\ lines[l].key = "device"
        /\ \E j \in 1..(l - 1) : /\ lines[j].key = "port" /\ lines[j].wifi
                                 /\ "port" \notin Between(lines, j, l)}}}

OneDefault(r) ==
  /\ Cardinality({k \in DOMAIN r : r[k].default}) = IF DOMAIN r = {} THEN 0 ELSE 1
  /\ \A k \in DOMAIN r : r[k].default /\ r[k].type = "wireless" =>
       \A l \in DOMAIN r : r[l].type = "wireless"

WrongAdapters ==
  {ifs \in Interfaces : \E wifi \in SUBSET {ifs[k].name : k \in DOMAIN ifs} :
     ~OneDefault(CollectAdapters(ifs, wifi))}

Answers == {[how |-> "failed"], [how |-> "timeout"]} \union [how : {"tree"}, tree : Trees]

(* r lists the devices of tree t, each once, and none before its hub.      *)
Lists(r, t) ==
  /\ {r[k] : k \in DOMAIN r} = {k \in Nodes(t) : t.vendor[k]}
  /\ Len(r) = Cardinality({k \in Nodes(t) : t.vendor[k]})
  /\ \A k, l \in DOMAIN r : t.parent[r[k]] = r[l] => l < k

HasDevices(q) == q.how = "tree" /\ \E k \in Nodes(q.tree) : q.tree.vendor[k]

WrongUSB ==
  {q \in Answers \X Answers :
     LET r == CollectUSBDevices(q[1], q[2])
     IN  ~ CASE HasDevices(q[1]) -> Lists(r, q[1].tree)
             [] ~HasDevices(q[1]) /\ HasDevices(q[2]) -> Lists(r, q[2].tree)
             [] OTHER -> r = <<>>}

(* Those among them that no time-out of the first query explains.          *)
WrongUSBInTime == {q \in WrongUSB : q[1].how # "timeout"}

Hz(gpus, mode) == {gpus[k].hz : k \in {l \in DOMAIN gpus : gpus[l].mode = mode}} \ {0}

WrongDisplays ==
  {s \in Screens :
     \E k \in DOMAIN ParseDisplays(s[1], s[2]) :
       LET d == ParseDisplays(s[1], s[2])[k]
       IN  IF d.hz = 0 THEN Hz(s[1], d.mode) # {} ELSE d.hz \notin Hz(s[1], d.mode)}
=============================================================================
