----------------------------- MODULE WipeOnFork -----------------------------
(***************************************************************************)
(* The emulation of MADV_WIPEONFORK for kernels before 4.14,               *)
(* misc/bionic_wipeonfork_compat.c: __wrap_madvise remembers the range,    *)
(* and a handler of pthread_atfork drops what is remembered in the child.  *)
(* The program over it is external: threads that map ranges, write to      *)
(* them, mark them one at a time (bionic's arc4random holds its lock),     *)
(* unmap them, and fork at any moment.                                     *)
(***************************************************************************)
EXTENDS Naturals

CONSTANTS
  Ranges,      \* of addresses, apart from each other
  MAX_REGIONS,
  NoRange

ASSUME WipeAssumption == MAX_REGIONS \in Nat /\ NoRange \notin Ranges

VARIABLES
  newer,    \* the kernel is 4.14 or later
  mapped,   \* the ranges with a private anonymous mapping
  secret,   \* those with something else than zeros in them
  advised,  \* those the kernel itself wipes in a child
  regions,  \* [0..MAX_REGIONS - 1 -> Ranges or NoRange]
  nregions,
  marking,  \* the range of the madvise under way, or NoRange
  stored,   \* its slot is filled, and nregions not yet incremented
  promised, \* mappings whose madvise has returned success
  dropped,  \* ... without being remembered: the table was full, or the kernel
            \* had failed with another errno
  reused,   \* remembered ranges that were unmapped
  child     \* the ranges with something in them in the last child, once its
            \* handler has run, or NoRange

wipeVars == <<newer, mapped, secret, advised, regions, nregions, marking, stored, promised, dropped,
              reused, child>>

Slots == 0..(MAX_REGIONS - 1)

WipeTypeOK ==
  /\ newer \in BOOLEAN
  /\ mapped \subseteq Ranges /\ secret \subseteq mapped /\ advised \subseteq mapped
  /\ regions \in [Slots -> Ranges \cup {NoRange}]
  /\ nregions \in 0..MAX_REGIONS
  /\ marking \in Ranges \cup {NoRange}
  /\ stored \in BOOLEAN
  /\ promised \subseteq mapped /\ dropped \subseteq mapped
  /\ reused \subseteq Ranges
  /\ child \in (SUBSET Ranges) \cup {NoRange}

WipeInit ==
  /\ newer \in BOOLEAN
  /\ mapped = {} /\ secret = {} /\ advised = {}
  /\ regions = [i \in Slots |-> NoRange]
  /\ nregions = 0
  /\ marking = NoRange /\ stored = FALSE
  /\ promised = {} /\ dropped = {} /\ reused = {}
  /\ child = NoRange

table == <<regions, nregions, marking, stored, newer>>

Map(r) ==
  /\ r \notin mapped
  /\ mapped' = mapped \cup {r}
  /\ UNCHANGED <<secret, advised, table, promised, dropped, reused, child>>

Write(r) ==
  /\ r \in mapped \ secret
  /\ secret' = secret \cup {r}
  /\ UNCHANGED <<mapped, advised, table, promised, dropped, reused, child>>

Remembered == {regions[i] : i \in 0..(nregions - 1)}

Unmap(r) ==
  /\ r \in mapped /\ r # marking
  /\ mapped' = mapped \ {r}
  /\ secret' = secret \ {r}
  /\ advised' = advised \ {r}
  /\ promised' = promised \ {r}
  /\ dropped' = dropped \ {r}
  /\ reused' = IF r \in Remembered THEN reused \cup {r} ELSE reused
  /\ UNCHANGED <<table, child>>

(***************************************************************************)
(* wrap_madvise_wipeonfork                                                 *)
(***************************************************************************)

\* The kernel knows the advice.
AdviseKernel(r) ==
  /\ newer /\ marking = NoRange /\ r \in mapped
  /\ advised' = advised \cup {r}
  /\ promised' = promised \cup {r}
  /\ dropped' = dropped \ {r}
  /\ UNCHANGED <<mapped, secret, table, reused, child>>

\* It does not (EINVAL): the slot is written,
StoreRegion(r) ==
  /\ ~newer /\ marking = NoRange /\ r \in mapped
  /\ nregions < MAX_REGIONS
  /\ regions' = [regions EXCEPT ![nregions] = r]
  /\ marking' = r
  /\ stored' = TRUE
  /\ UNCHANGED <<mapped, secret, advised, nregions, newer, promised, dropped, reused, child>>

\* Mutant: success is reported before nregions counts the slot.
CountRegionNot ==
  /\ stored
  /\ stored' = FALSE
  /\ marking' = NoRange
  /\ promised' = promised \cup {marking}
  /\ dropped' = dropped \ {marking}
  /\ UNCHANGED <<mapped, secret, advised, regions, nregions, newer, reused, child>>

\* ... then counted, and success reported.
CountRegion ==
  /\ stored
  /\ nregions' = nregions + 1
  /\ stored' = FALSE
  /\ marking' = NoRange
  /\ promised' = promised \cup {marking}
  /\ dropped' = dropped \ {marking}
  /\ UNCHANGED <<mapped, secret, advised, regions, newer, reused, child>>

\* The table is full, or the kernel has failed with another errno (EAGAIN,
\* ENOMEM): success is reported all the same.
NoRegion(r, errno) ==
  /\ marking = NoRange /\ r \in mapped
  /\ errno = "EINVAL" => ~newer /\ nregions >= MAX_REGIONS
  /\ promised' = promised \cup {r}
  /\ dropped' = IF r \in Remembered \cup advised THEN dropped ELSE dropped \cup {r}
  /\ UNCHANGED <<mapped, secret, advised, table, reused, child>>

\* fork(), and wipe_child in the child: what is not mapped there any more is
\* left alone.
Fork ==
  /\ child' = secret \ (advised \cup Remembered)
  /\ UNCHANGED <<mapped, secret, advised, table, promised, dropped, reused>>

WipeNext ==
  \/ \E r \in Ranges : Map(r) \/ Write(r) \/ Unmap(r)
  \/ \E r \in Ranges : AdviseKernel(r) \/ StoreRegion(r)
  \/ \E r \in Ranges, errno \in {"EINVAL", "EAGAIN"} : NoRegion(r, errno)
  \/ CountRegion
  \/ Fork

WipeSpec == WipeInit /\ [][WipeNext]_wipeVars

(***************************************************************************)
(* Properties                                                              *)
(***************************************************************************)

\* What a fork leaves in the child: nothing of a range whose madvise had
\* returned success with the kernel's knowing the advice or the table's having
\* room ("remember the range, drop it in the fork child"), and everything of
\* the others, except where a remembered range was unmapped and its addresses
\* came to be used again: the handler drops those too.
ChildWiped ==
  [][Fork =>
       /\ (promised \ dropped) \cap child' = {}
       /\ secret \ (promised \cup reused) \subseteq child']_wipeVars

=============================================================================
