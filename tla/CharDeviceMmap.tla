--------------------------- MODULE CharDeviceMmap ---------------------------
(***************************************************************************)
(* kernel_module/device/char_device_mmap: processes open the device, map   *)
(* its control page and its queue, and close the descriptor long before    *)
(* they unmap.  Offsets and sizes are in pages.                            *)
(***************************************************************************)
EXTENDS Naturals, FiniteSets

CONSTANTS
    Users,          \* processes
    QueuePages,     \* EXAMPLE_CHAR_DEVICE_QUEUE_SIZE, in pages
    MaxMaps         \* bound: mappings at the same time

ASSUME DevAssumption == QueuePages \in Nat /\ MaxMaps \in Nat

CtrlPages == 1
EXAMPLE_CHAR_DEVICE_MMAP_QUEUE_OFFSET == 1

VARIABLES
    opened,     \* processes with a descriptor
    maps,       \* their mappings: [user, area, pages]
    areas,      \* vmalloc areas that exist
    misc        \* the device: "registered", "gone"

devVars == <<opened, maps, areas, misc>>

DevInit == opened = {} /\ maps = {} /\ areas = {} /\ misc = "none"

\* Types; a mapping shows pages the area has.
DevTypeOK ==
    /\ opened \subseteq Users
    /\ areas \subseteq {"ctrl", "queue"}
    /\ misc \in {"none", "registered", "gone"}
    /\ \A x \in maps : /\ x.user \in Users /\ x.area \in {"ctrl", "queue"}
                       /\ x.pages \subseteq 0 .. QueuePages - 1
                       /\ x.area = "ctrl" => x.pages \subseteq 0 .. CtrlPages - 1

\* example_module_init: both areas, then the device.
example_module_init ==
    /\ misc = "none" /\ misc' = "registered" /\ areas' = {"ctrl", "queue"}
    /\ UNCHANGED <<opened, maps>>

example_dev_open(u) ==
    /\ misc = "registered" /\ u \notin opened
    /\ opened' = opened \cup {u}
    /\ UNCHANGED <<maps, areas, misc>>

example_dev_release(u) ==
    /\ u \in opened /\ opened' = opened \ {u}
    /\ UNCHANGED <<maps, areas, misc>>

\* The kernel refuses what reaches beyond the area.
remap_vmalloc_range(area, pgoff, n) ==
    pgoff + n <= IF area = "ctrl" THEN CtrlPages ELSE QueuePages

\* The offset chooses the area, and is the offset into the area as well.
example_dev_mmap(u, vm_pgoff, n) ==
    LET area == IF vm_pgoff >= EXAMPLE_CHAR_DEVICE_MMAP_QUEUE_OFFSET
                THEN "queue" ELSE "ctrl"
    IN  /\ u \in opened /\ Cardinality(maps) < MaxMaps
        /\ remap_vmalloc_range(area, vm_pgoff, n)
        /\ maps' = maps \cup
              {[user |-> u, area |-> area, pages |-> vm_pgoff .. vm_pgoff + n - 1]}
        /\ UNCHANGED <<opened, areas, misc>>

\* The process unmaps, or exits.
munmap(x) ==
    /\ x \in maps /\ maps' = maps \ {x}
    /\ UNCHANGED <<opened, areas, misc>>

\* Mutant: the file operations have no owner.
example_module_exit_NoOwner ==
    /\ misc = "registered"
    /\ misc' = "gone" /\ areas' = {}
    /\ UNCHANGED <<opened, maps>>

\* rmmod: .owner = THIS_MODULE, so that open files and mappings, which hold
\* their file, keep the module in.
example_module_exit ==
    /\ misc = "registered" /\ opened = {} /\ maps = {}
    /\ misc' = "gone" /\ areas' = {}
    /\ UNCHANGED <<opened, maps>>

DevNext ==
    \/ example_module_init \/ example_module_exit
    \/ \E u \in Users : example_dev_open(u) \/ example_dev_release(u)
    \/ \E u \in Users, off \in 0 .. QueuePages, n \in 1 .. QueuePages :
          example_dev_mmap(u, off, n)
    \/ \E x \in maps : munmap(x)

-----------------------------------------------------------------------------
\* No process keeps a mapping of memory that rmmod has given back.
MappedAreasExist == \A x \in maps : x.area \in areas

\* The queue's first page can be mapped by nobody: the page offset that
\* selects the queue is handed on as an offset into it, so a mapping of the
\* whole queue is refused.
QueueStartHidden == \A x \in maps : x.area = "queue" => 0 \notin x.pages

\* What a process has mapped exists as long as the mapping, also after close
\* and against rmmod, and is never the first page of the queue.
MappingsSound == DevTypeOK /\ MappedAreasExist /\ QueueStartHidden

=============================================================================
