------------------------- MODULE ArtifactLifecycle --------------------------
(***************************************************************************)
(* What the rest of the system may rely on about a Version and the file    *)
(* stored under its name, whatever the Version controller does in between: *)
(* nothing is stored before the Version is protected, nothing is left when *)
(* it is gone, and the checksum of an immutable Version is final.          *)
(***************************************************************************)
CONSTANTS Version, Immutable, Checksum, Contents, Nil

VARIABLES
    phase,      \* where each Version stands
    stored,     \* what storage holds under its name
    checksum    \* the archive it records

lifecycle == <<phase, stored, checksum>>

LifecycleInit ==
    /\ phase = [v \in Version |-> "absent"]
    /\ stored = [v \in Version |-> Nil]
    /\ checksum = [v \in Version |-> Nil]

Same(v) == stored'[v] = stored[v] /\ checksum'[v] = checksum[v]

Appears(v) == /\ phase[v] = "absent" /\ phase'[v] = "free"
              /\ stored'[v] = Nil /\ checksum'[v] = Nil

Held(v) == phase[v] = "free" /\ phase'[v] = "held" /\ Same(v)

Leaves(v) == phase[v] = "held" /\ phase'[v] = "leaving" /\ Same(v)

\* Only with nothing stored.
Vanishes(v) == /\ phase[v] \in {"free", "leaving"} /\ phase'[v] = "absent"
               /\ stored[v] = Nil /\ stored'[v] = Nil /\ checksum'[v] = Nil

\* A protected Version is stored, lost, stored again and recorded.
Works(v) ==
    /\ phase[v] \in {"held", "leaving"} /\ phase'[v] = phase[v]
    /\ stored'[v] \in Contents
    /\ \/ checksum'[v] = checksum[v]
       \/ checksum'[v] \in Checksum /\ (v \in Immutable => checksum[v] = Nil)

Rests(v) == phase'[v] = phase[v] /\ Same(v)

\* A crash touches several files at once: any number of Versions move together.
LifecycleNext ==
    \A v \in Version :
        Appears(v) \/ Held(v) \/ Leaves(v) \/ Vanishes(v) \/ Works(v) \/ Rests(v)

LifecycleSpec == LifecycleInit /\ [][LifecycleNext]_lifecycle
=============================================================================
