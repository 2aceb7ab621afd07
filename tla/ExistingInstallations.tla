------------------------ MODULE ExistingInstallations ------------------------
(***************************************************************************)
(* find_existing_installations (modules/storage/devicetree/root): the scan *)
(* of the device tree for installed systems.  Each eligible device is set  *)
(* up, its file system mounted read-only at the physical root, its fstab   *)
(* read, and the root unmounted again; the finally clause tears every      *)
(* device down when teardown_all is set, and that call may itself raise   *)
(* part-way, out of find_existing_installations.                           *)
(*                                                                         *)
(* The device and file-system calls are blivet's, outside this tree; they  *)
(* are reduced to their effect on what is set up and what is mounted at    *)
(* the physical root.  A mount that raises may have mounted the file       *)
(* system or not; parsing the release files and fstab may raise from       *)
(* blivet's resolve_device or from I/O, and device.teardown() may raise; the *)
(* broad except catches all of these.  Tearing a device down unmounts a    *)
(* file system mounted from it.                                            *)
(*                                                                         *)
(* An fstab is a sequence of lines, each reduced to how many fields are    *)
(* left once the comment is cut off (split(None, 4) keeps at most 5) and   *)
(* what resolve_device makes of its device: nothing, a mount or a swap.    *)
(* The mount points, the release strings, blkid.tab and crypttab are left  *)
(* out: they do not decide whether a root is found.                        *)
(***************************************************************************)
EXTENDS Naturals, Sequences, SequencesExt

CONSTANTS
    Devices,     \* the direct devices of the tree, in the tree's order
    Eligible,    \* linux_native, mountable, controllable, existing formats
    None,        \* nothing is mounted at the physical root
    MaxLines     \* lines of an fstab

DeviceSet == {Devices[i] : i \in 1..Len(Devices)}

\* a line of /etc/fstab: its fields after the comment, from a line with
\* the four fields fstab(5) requires to one with its two optional ones
\* (split(None, 4) keeps at most 5), and the device resolve_device finds
\* for it (none, or one mounted or used as swap)
FstabLines == [fields : {4, 5}, kind : {"unresolved", "mount", "swap"}]

\* what a device's file system holds: an /etc/fstab that is readable or
\* not, and its lines
Fstabs == [readable : {FALSE}, lines : {<<>>}]
             \cup [readable : {TRUE}, lines : BoundedSeq(FstabLines, MaxLines)]

\* one line of the loop of _parse_fstab: short lines and devices the tree
\* does not know are skipped; a swap is appended to swaps, anything else
\* is entered in mounts
ParseFstabLine(acc, line) ==
    IF line.fields < 5 \/ line.kind = "unresolved" THEN acc
    ELSE IF line.kind = "swap" THEN [acc EXCEPT !.swaps = @ + 1]
    ELSE [acc EXCEPT !.mounts = TRUE]

\* _parse_fstab: whether mounts is non-empty, and how many swaps there are
ParseFstab(lines) == FoldLeft(ParseFstabLine, [mounts |-> FALSE, swaps |-> 0], lines)

VARIABLES
    pc,          \* where the scan is
    next,        \* index of the next device of the loop
    dev,         \* the device of the current iteration
    disk,        \* disk[d]: what d's file system holds
    active,      \* devices that are set up
    mounted,     \* the device mounted at the physical root, or None
    roots,       \* devices a Root was appended for
    teardownAll, \* the teardown_all argument
    result,      \* the roots returned, once returned
    skipped,     \* history: devices whose set-up or mount failed
    excepted     \* history: the scan left through the except clause

vars == <<pc, next, dev, disk, active, mounted, roots, teardownAll, result,
          skipped, excepted>>

\* blivet_util.umount(mountpoint=sysroot)
Umount == mounted' = None

-----------------------------------------------------------------------------
(* _find_existing_installations: one action per step of the loop body *)

\* the loop takes the next direct device; ineligible ones are skipped
NextDevice ==
    /\ pc = "loop"
    /\ IF next > Len(Devices)
       THEN /\ pc' = "finally"
            /\ result' = roots
            /\ UNCHANGED <<next, dev>>
       ELSE /\ dev' = Devices[next]
            /\ next' = next + 1
            /\ pc' = IF Devices[next] \in Eligible THEN "setup" ELSE "loop"
            /\ UNCHANGED result
    /\ UNCHANGED <<disk, active, mounted, roots, teardownAll, skipped, excepted>>

\* Bug variant: a failed set-up is logged but the loop body goes on.
SetUpNoContinue ==
    /\ pc = "setup"
    /\ active' \in {active \cup {dev}, active}
    /\ pc' = "mount"
    /\ UNCHANGED <<next, dev, disk, mounted, roots, teardownAll, result,
                   skipped, excepted>>

\* device.setup(); a failure is logged and the device skipped
SetUp ==
    /\ pc = "setup"
    /\ \/ /\ active' = active \cup {dev}
          /\ pc' = "mount"
          /\ UNCHANGED skipped
       \/ /\ pc' = "loop"
          /\ skipped' = skipped \cup {dev}
          /\ UNCHANGED active
    /\ UNCHANGED <<next, dev, disk, mounted, roots, teardownAll, result, excepted>>

\* device.format.mount(options + ",ro", mountpoint=sysroot)
Mount ==
    /\ pc = "mount"
    /\ \/ /\ mounted' = dev
          /\ pc' = "access"
       \/ /\ mounted' \in {mounted, dev}    \* raised, before or after mounting
          /\ pc' = "mount_failed"
    /\ UNCHANGED <<next, dev, disk, active, roots, teardownAll, result,
                   skipped, excepted>>

\* Bug variant: the failed mount is not undone.
MountFailedNoUmount ==
    /\ pc = "mount_failed"
    /\ pc' = "loop"
    /\ skipped' = skipped \cup {dev}
    /\ UNCHANGED <<next, dev, disk, active, mounted, roots, teardownAll, result,
                   excepted>>

\* the mount raised: log, umount the physical root, next device
MountFailed ==
    /\ pc = "mount_failed"
    /\ Umount
    /\ pc' = "loop"
    /\ skipped' = skipped \cup {dev}
    /\ UNCHANGED <<next, dev, disk, active, roots, teardownAll, result, excepted>>

\* Bug variant: the device is torn down but the root is not unmounted.
NoFstabNoUmount ==
    /\ pc = "access"
    /\ ~disk[dev].readable
    /\ active' = active \ {dev}
    /\ pc' = "loop"
    /\ UNCHANGED <<next, dev, disk, mounted, roots, teardownAll, result,
                   skipped, excepted>>

\* no readable /etc/fstab: umount, device.teardown(), next device; a
\* teardown that raises, done or not, leaves the loop
NoFstab ==
    /\ pc = "access"
    /\ ~disk[dev].readable
    /\ Umount
    /\ \/ /\ active' = active \ {dev}
          /\ pc' = "loop"
       \/ /\ active' \in {active, active \ {dev}}
          /\ pc' = "except"
    /\ UNCHANGED <<next, dev, disk, roots, teardownAll, result, skipped,
                   excepted>>

\* get_release_string and _parse_fstab, then umount; an fstab without
\* mounts or swaps adds no root; an exception leaves the loop
ReadInstallation ==
    /\ pc = "access"
    /\ disk[dev].readable
    /\ \/ /\ Umount
          /\ LET parsed == ParseFstab(disk[dev].lines) IN
               roots' = IF parsed.mounts \/ parsed.swaps > 0
                        THEN roots \cup {dev} ELSE roots
          /\ pc' = "loop"
       \/ /\ pc' = "except"
          /\ UNCHANGED <<mounted, roots>>
    /\ UNCHANGED <<next, dev, disk, active, teardownAll, result, skipped,
                   excepted>>

-----------------------------------------------------------------------------
(* find_existing_installations *)

\* except Exception: log and return []
Except ==
    /\ pc = "except"
    /\ result' = {}
    /\ excepted' = TRUE
    /\ pc' = "finally"
    /\ UNCHANGED <<next, dev, disk, active, mounted, roots, teardownAll, skipped>>

\* finally: devicetree.teardown_all() when teardown_all is set; when it
\* raises, some devices may still be set up and the exception leaves
\* find_existing_installations instead of its return
Finally ==
    /\ pc = "finally"
    /\ \/ /\ ~teardownAll
          /\ pc' = "done"
          /\ UNCHANGED <<active, mounted>>
       \/ /\ teardownAll
          /\ active' = {}
          /\ mounted' = None
          /\ pc' = "done"
       \/ /\ teardownAll
          /\ active' \in SUBSET active
          /\ mounted' \in {None} \cup (active' \cap {mounted})
          /\ pc' = "raised"
    /\ UNCHANGED <<next, dev, disk, roots, teardownAll, result, skipped,
                   excepted>>

Init ==
    /\ pc = "loop"
    /\ next = 1
    /\ dev = None
    /\ disk \in [Eligible -> Fstabs]
    /\ active = {}
    /\ mounted = None
    /\ roots = {}
    /\ teardownAll \in BOOLEAN
    /\ result = {}
    /\ skipped = {}
    /\ excepted = FALSE

Next ==
    \/ NextDevice \/ SetUp \/ Mount \/ MountFailed \/ NoFstab
    \/ ReadInstallation \/ Except \/ Finally

Spec == Init /\ [][Next]_vars

-----------------------------------------------------------------------------
(* Properties *)

TypeOK ==
    /\ pc \in {"loop", "setup", "mount", "mount_failed", "access", "except",
               "finally", "done", "raised"}
    /\ next \in 1..Len(Devices) + 1
    /\ disk \in [Eligible -> Fstabs]
    /\ active \subseteq DeviceSet
    /\ mounted \in DeviceSet \cup {None}
    /\ mounted # None => mounted \in active
    /\ roots \subseteq Eligible
    /\ result \subseteq roots

\* Every path through the loop body leaves the physical root unmounted, so
\* the next device is never mounted over the previous one and a scan that
\* returns normally has nothing mounted there.
SysrootFreeBetweenDevices ==
    pc \in {"loop", "setup", "mount"} => mounted = None

\* An fstab line that names a device of the tree: fstab(5) requires four
\* fields and makes the fifth and sixth (fs_freq, fs_passno) optional.
FstabEntry(line) == line.fields >= 4 /\ line.kind # "unresolved"

\* A scan that returns normally reports every eligible device it could
\* set up and mount whose fstab has an entry for a device of the tree:
\* an installed system is found whatever fstab(5) form its entries take.
InstallationsFound ==
    pc = "done" /\ ~excepted =>
      \A d \in Eligible \ skipped :
        (\E i \in 1..Len(disk[d].lines) : FstabEntry(disk[d].lines[i]))
          => d \in result

=============================================================================
