------------------------------ MODULE MCWizard -------------------------------
(* Instances of Wizard for TLC: a run begins with the collectors of        *)
(* SysInfo, whose inputs are all the small ones: up to three interfaces of *)
(* the sorts a machine has, hardware ports in any order, USB trees of up   *)
(* to three nodes, two screens.                                            *)
EXTENDS Wizard, SysInfo

Upto(S, n) == UNION {[1..k -> S] : k \in 0..n}

Iface(name, loopback, up, wl, addrs) ==
  [name |-> name, loopback |-> loopback, up |-> up, wl |-> wl, addrs |-> addrs]
MCInterfaces ==
  {s \in Upto({Iface("lo0", TRUE, TRUE, FALSE, {"loopback"}), Iface("en5", FALSE, FALSE, FALSE, {"global"}),
     Iface("awdl0", FALSE, TRUE, FALSE, {"link_local"}),
     Iface("wlan0", FALSE, TRUE, TRUE, {"global"}),
     Iface("en0", FALSE, TRUE, FALSE, {"global", "link_local"}),
     Iface("en1", FALSE, TRUE, FALSE, {"global"})}, 3) :
   \A k, l \in DOMAIN s : s[k] = s[l] => k = l}

MCPortLists ==
  Upto([key : {"port"}, wifi : BOOLEAN] \union [key : {"device"}, name : {"en0", "en1"}]
       \union {[key |-> "address"]}, 4)

MCTrees ==
  UNION {[vendor : [1..n -> BOOLEAN],
          parent : {p \in [1..n -> 0..n] : \A k \in 1..n : p[k] < k}] : n \in 0..3}

MCScreens ==
  Upto([mode : {"hd", "4k"}, hz : {0, 60, 120}], 2) \X Upto({"none", "hd", "4k"}, 2)

Collecting == {"new", "sysinfo"}

(* The adapters of a report: exactly one is the default link if there is   *)
(* any, a wireless one only where none is wired, and on macOS a device is  *)
(* wireless exactly when the last hardware port before it is Wi-Fi.        *)
AdaptersRight ==
  (\E r \in Runs : pc[r] \notin Collecting) => WrongPorts = {} /\ WrongAdapters = {}

(* Every attached USB device is in the report once, behind the hub it      *)
(* hangs on, from the newer of the two lists of macOS that has any; only a *)
(* first query that used up the time of both may lose the second's.  A     *)
(* display of Windows has the refresh rate of a controller in its mode,    *)
(* and none only if none does.                                             *)
PeripheralsRight ==
  (\E r \in Runs : pc[r] \notin Collecting)
    => WrongUSBInTime = {} /\ WrongDisplays = {}

(* Whenever one of the two queries for USB devices would answer with some, *)
(* the report has them: "try both and take whichever returns a non-empty   *)
(* tree".                                                                  *)
USBFromEither ==
  (\E r \in Runs : pc[r] \notin Collecting) => WrongUSB = {}

(* The facts about the machine that a run collects.                        *)
CollectedIsRight == AdaptersRight /\ PeripheralsRight
=============================================================================
