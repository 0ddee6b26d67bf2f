------------------------------ MODULE UsbConfig ------------------------------
(***************************************************************************)
(* The USB gadget as init sets it up from init.black.usb.rc: a change of   *)
(* the property sys.usb.config queues the commands of one trigger, init    *)
(* runs one command at a time, and the framework waits for sys.usb.state.  *)
(***************************************************************************)
EXTENDS Integers, Sequences

CONSTANT MaxChanges  \* bound: changes of sys.usb.config in one behaviour

Configs ==
    {"adb", "mass_storage", "mass_storage,adb", "mtp", "mtp,adb", "rndis", "rndis,adb",
     "ptp", "ptp,adb"}

VARIABLES
    config,  \* sys.usb.config
    queue,   \* triggers init has not started, by their configuration
    running, \* commands left of the trigger that runs
    gadget,  \* what the commands have written, nodes of android0 and sys.usb.state
    changes

vars == <<config, queue, running, gadget, changes>>

Init ==
    /\ config = "none" /\ queue = <<>> /\ running = <<>>
    /\ gadget = [enable |-> "1", idProduct |-> "none", bDeviceClass |-> "none",
                 functions |-> "none", adbd |-> "stopped", state |-> "none"]
    /\ changes = 0

-----------------------------------------------------------------------------
(* The triggers of init.black.usb.rc.                                      *)

Set(node, value) == <<[node |-> node, value |-> value]>>
Expand == "$sys.usb.config"

Product(c) ==
    CASE c = "adb" -> "6000"
      [] c = "mass_storage,adb" -> "61A6" [] c = "mass_storage" -> "61C5"
      [] c = "mtp" -> "631C" [] c = "rndis" -> "61DA" [] c = "rndis,adb" -> "61D9"
      [] OTHER -> "61F9"

(* Device class and functions, in the order of each trigger.               *)
Functions(c) ==
    CASE c = "mtp" -> Set("bDeviceClass", "0") \o Set("functions", "mtp")
      [] c = "mtp,adb" -> Set("bDeviceClass", "239") \o Set("functions", "mtp,adb")
      [] c \in {"rndis", "rndis,adb"} ->
           Set("functions", Expand) \o Set("bDeviceClass", "224")
      [] OTHER -> Set("functions", Expand)

Adbd(c) ==
    IF c \in {"mass_storage,adb", "mtp,adb", "rndis,adb", "ptp,adb"}
    THEN Set("adbd", "running") ELSE <<>>

(* Mutants: mtp has the product of mtp,adb; nothing tells the state of     *)
(* rndis.                                                                  *)
BlockShared(c) ==
    Set("enable", "0") \o Set("idProduct", IF c = "mtp" THEN "61F9" ELSE Product(c))
      \o Functions(c) \o Set("enable", "1") \o Adbd(c) \o Set("state", Expand)
BlockSilent(c) ==
    Set("enable", "0") \o Set("idProduct", Product(c)) \o Functions(c)
      \o Set("enable", "1") \o Adbd(c)
      \o (IF c = "rndis" THEN <<>> ELSE Set("state", Expand))

Block(c) ==
    Set("enable", "0") \o Set("idProduct", Product(c)) \o Functions(c)
      \o Set("enable", "1") \o Adbd(c) \o Set("state", Expand)

-----------------------------------------------------------------------------
(* init.                                                                   *)

(* The framework sets another configuration, at the earliest when init has *)
(* started on the last one.                                                *)
SetConfig(c) ==
    /\ changes < MaxChanges /\ queue = <<>>
    /\ config' = c
    /\ queue' = Append(queue, c)
    /\ changes' = changes + 1
    /\ UNCHANGED <<running, gadget>>

Start ==
    /\ running = <<>> /\ queue # <<>>
    /\ running' = Block(Head(queue))
    /\ queue' = Tail(queue)
    /\ UNCHANGED <<config, gadget, changes>>

(* $sys.usb.config is expanded when the command runs.                      *)
Command ==
    /\ running # <<>>
    /\ LET c == Head(running)
       IN gadget' = [gadget EXCEPT ![c.node] = IF c.value = Expand THEN config ELSE c.value]
    /\ running' = Tail(running)
    /\ UNCHANGED <<config, queue, changes>>

Execute == Start \/ Command

Next == (\E c \in Configs : SetConfig(c)) \/ Execute

Spec == Init /\ [][Next]_vars

(* init runs.                                                              *)
FairSpec == Spec /\ WF_vars(Execute)

-----------------------------------------------------------------------------
(* Properties.                                                             *)

Nodes == {"enable", "idProduct", "bDeviceClass", "functions", "adbd", "state"}
Written ==
    Configs \cup {Product(c) : c \in Configs} \cup {"0", "1", "224", "239", "running"}

TypeOK ==
    /\ config \in Configs \cup {"none"}
    /\ queue \in Seq(Configs)
    /\ running \in Seq([node : Nodes, value : Written \cup {Expand}])
    /\ gadget \in [Nodes -> Written \cup {"none", "stopped"}]
    /\ changes \in Nat

(* When init has nothing left to do the gadget is the one configured last: *)
(* its functions, product and state, enabled, though commands of an older  *)
(* trigger have seen the newer configuration.                              *)
GadgetSettled ==
    queue = <<>> /\ running = <<>> /\ changes > 0 =>
      /\ gadget.enable = "1" /\ gadget.state = config
      /\ gadget.functions = config /\ gadget.idProduct = Product(config)

(* The framework, which waits for the state to follow the configuration,   *)
(* goes on in the end.                                                     *)
Changed == changes > 0
Followed == gadget.state = config
StateFollows == Changed ~> Followed
=============================================================================
