------------------------------ MODULE Platform ------------------------------
(***************************************************************************)
(* The parts of the system that keep records of their own: the platforms   *)
(* an invoice is verified against, the live demo that reads them, and what *)
(* the API keeps for its users (conversations, memories, the data vault).  *)
(*                                                                         *)
(* They share nothing that is written: each platform has its own database, *)
(* no code connects their outboxes and inboxes, and the API's three parts  *)
(* have tables of their own.  So their users are let loose one part at a   *)
(* time: the scene says which.  The demo reads all platforms and is        *)
(* watched while the GST portal, whose records decide its verdicts,        *)
(* changes under it.                                                       *)
(***************************************************************************)
EXTENDS LiveDemo, Conversations, Memory, DataVault

CONSTANTS DemoUsers, DemoTabs, DemoRequests, DemoCategories  \* bounds: what the demo runs beside

ASSUME PlatformAssumption ==
    /\ DemoUsers \subseteq GstUsers /\ DemoTabs \subseteq Tabs
    /\ DemoRequests \subseteq GstRequests /\ DemoCategories \subseteq Categories

VARIABLE scene

sourceSystemVars == <<gstVars, registryVars, erpVars, deliveryVars>>
keptVars == <<chatVars, memoryVars, vaultVars>>
platformVars == <<sourceSystemVars, demoVars, keptVars, scene>>

PlatformInit ==
    /\ scene \in {"gst", "registry", "erp", "delivery", "demo", "conversations", "memory", "vault"}
    /\ GstInit /\ RegistryInit /\ ErpInit /\ DeliveryInit /\ DemoInit
    /\ ChatInit /\ MemoryInit /\ VaultInit
    /\ scene \notin {"erp", "demo"} => \A o \in Orders : order[o].status = "NONE"
    /\ scene = "demo" => \A o \in Orders : order[o].status # "NONE"
    /\ scene \notin {"delivery", "demo"} => \A d \in Deliveries : deliveryStatus[d] = "NONE"

SourceSystemStep ==
    \/ scene = "gst" /\ GstNext /\ UNCHANGED <<registryVars, erpVars, deliveryVars>>
    \/ scene = "registry" /\ RegistryNext /\ UNCHANGED <<gstVars, erpVars, deliveryVars>>
    \/ scene = "erp" /\ ErpNext /\ UNCHANGED <<gstVars, registryVars, deliveryVars>>
    \/ scene = "delivery" /\ DeliveryNext /\ UNCHANGED <<gstVars, registryVars, erpVars>>
    \/ /\ scene = "demo" /\ GstSteps(DemoUsers, DemoTabs, DemoRequests, DemoCategories)
       /\ UNCHANGED <<registryVars, erpVars, deliveryVars>>

KeptStep ==
    \/ scene = "conversations" /\ ChatNext /\ UNCHANGED <<memoryVars, vaultVars>>
    \/ scene = "memory" /\ MemoryNext /\ UNCHANGED <<chatVars, vaultVars>>
    \/ scene = "vault" /\ VaultNext /\ UNCHANGED <<chatVars, memoryVars>>

PlatformNext ==
    /\ UNCHANGED scene
    /\ \/ SourceSystemStep /\ UNCHANGED <<demoVars, keptVars>>
       \/ scene = "demo" /\ DemoNext /\ UNCHANGED <<sourceSystemVars, keptVars>>
       \/ KeptStep /\ UNCHANGED <<sourceSystemVars, demoVars>>

PlatformSpec == PlatformInit /\ [][PlatformNext]_platformVars
=============================================================================
