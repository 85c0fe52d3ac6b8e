------------------------------ MODULE BootTry ------------------------------
(***************************************************************************)
(* Trying a kernel and a base on Ubuntu Core 20 and later: package boot    *)
(* (bootstate20.go), the initramfs, the bootloader script and the callers  *)
(* in snapd.                                                               *)
(*                                                                         *)
(* disk is everything that survives a power cut: the two links to kernels  *)
(* and kernel_status, which belong to the bootloader, the modeenv, and the *)
(* kernels the disk encryption key is sealed to.  A commit of snapd is a   *)
(* plan: the sequence of contents that the disk goes through, one for each *)
(* write that is atomic.  A power cut, a kill of snapd or a failed write   *)
(* leaves the disk anywhere on the way.                                    *)
(*                                                                         *)
(* A refresh installs files, sets what to boot (link-snap) and goes on     *)
(* after the reboot.  Its undo sets the old revision again (the undo of    *)
(* unlink-current-snap) and then removes the files (the undo of            *)
(* mount-snap).  A task that was interrupted runs again; one that failed   *)
(* does not, and the undo of the tasks before it goes on.                  *)
(***************************************************************************)
EXTENDS Naturals, Sequences

CONSTANTS
    Kernels, Bases,     \* revisions of the kernel and of the base
    Kernel0, Base0,     \* those the device was made with
    Bootloaders,        \* "grub" has links for kernels, "env" only variables
    MaxFaults,          \* bound on faults
    UndoFaults,         \* faults that fall into an undo, too: "cut" for power cuts and
                        \* kills in the undo of a kernel, "write" for failed writes
    NoSnap

ASSUME BootAssumption ==
    /\ Kernel0 \in Kernels /\ Base0 \in Bases
    /\ Kernels \cap Bases = {}
    /\ NoSnap \notin Kernels \cup Bases
    /\ Bootloaders \subseteq {"grub", "env"}
    /\ MaxFaults \in Nat /\ UndoFaults \subseteq {"cut", "write"}

VARIABLES
    bl,         \* the kind of bootloader
    bad,        \* revisions that do not come up
    disk,
    plan,       \* what a running commit still writes
    reverting,  \* the type whose refresh the running commit undoes, or ""
    undoing,    \* the types whose unlink-current-snap is being undone
    phase,      \* "off", in the initramfs ("base", "kernel"), "mounted", "up", "stuck"
    running,    \* the kernel started by the bootloader, the one whose snap the
                \* initramfs mounted, and the base
    bootOk,     \* ensure-boot-ok-boot-id is that of this boot
    refresh,    \* for each type the old and the new revision of a refresh
    files,      \* revisions that are installed
    fresh,      \* those that were installed by a refresh that is not over
    good,       \* history: revisions that have come up
    faults

bootVars == <<bl, bad, disk, plan, reverting, undoing, phase, running, bootOk, refresh, files, fresh,
              good, faults>>
worldVars == <<bl, bad>>
snapdVars == <<plan, reverting, undoing, refresh, files, fresh>>

Snaps == Kernels \cup Bases
BootStatuses == {"", "try", "trying"}
NoRefresh == [old |-> NoSnap, new |-> NoSnap]

Disks == [kernel : Kernels, try : Kernels \cup {NoSnap}, status : BootStatuses,
          kernels : SUBSET Kernels,
          base : Bases, tryBase : Bases \cup {NoSnap}, baseStatus : BootStatuses,
          sealed : SUBSET Kernels]

BootTypeOK ==
    /\ bl \in Bootloaders /\ bad \subseteq Snaps
    /\ disk \in Disks
    /\ plan \in Seq(Disks)
    /\ reverting \in {"", "kernel", "base"} /\ undoing \subseteq {"kernel", "base"}
    /\ bootOk \in BOOLEAN
    /\ phase \in {"off", "base", "kernel", "mounted", "up", "stuck"}
    /\ running \in [kernel : Kernels, mounted : Kernels, base : Bases]
    /\ refresh \in [kernel : [old : Kernels \cup {NoSnap}, new : Kernels \cup {NoSnap}],
                    base : [old : Bases \cup {NoSnap}, new : Bases \cup {NoSnap}]]
    /\ files \subseteq Snaps /\ fresh \subseteq Snaps /\ good \subseteq Snaps
    /\ faults \in 0..MaxFaults

BootInit ==
    /\ bl \in Bootloaders
    /\ bad \in SUBSET (Snaps \ {Kernel0, Base0})
    /\ disk = [kernel |-> Kernel0, try |-> NoSnap, status |-> "",
               kernels |-> {Kernel0},
               base |-> Base0, tryBase |-> NoSnap, baseStatus |-> "",
               sealed |-> {Kernel0}]
    /\ plan = <<>> /\ reverting = "" /\ undoing = {}
    /\ phase = "up" /\ bootOk = TRUE
    /\ running = [kernel |-> Kernel0, mounted |-> Kernel0, base |-> Base0]
    /\ refresh = [kernel |-> NoRefresh, base |-> NoRefresh]
    /\ files = {Kernel0, Base0} /\ fresh = {} /\ good = {Kernel0, Base0}
    /\ faults = 0

-----------------------------------------------------------------------------
(* What a commit writes.  Each operator continues a plan from its last      *)
(* content d; a write that changes nothing is not made by the code.         *)

\* bootStateUpdate20.commit, between its pre- and post-modeenv tasks: the
\* modeenv is written and the key is resealed to the kernels it names, if the
\* bootloader measures them.
WriteModeenv(d, m) ==
    LET written == [d EXCEPT !.kernels = m.kernels, !.base = m.base, !.tryBase = m.tryBase,
                             !.baseStatus = m.baseStatus]
    IN  <<written, [written EXCEPT !.sealed = IF bl = "grub" THEN m.kernels ELSE @]>>

Last(p) == p[Len(p)]

\* markSuccessfulKernel: the status, then the link, then the link to try.
MarkSuccessfulKernel(d, k) ==
    IF bl = "env" THEN <<[d EXCEPT !.status = "", !.kernel = k, !.try = NoSnap]>>
    ELSE <<[d EXCEPT !.status = ""],
           [d EXCEPT !.status = "", !.kernel = k],
           [d EXCEPT !.status = "", !.kernel = k, !.try = NoSnap]>>

\* setNextKernel: the link to try, then the status, which is only "try" for
\* another kernel.
SetNextKernel(d, k) ==
    LET linked == IF k = d.kernel THEN d ELSE [d EXCEPT !.try = k]
        set == [linked EXCEPT !.status = IF k = d.kernel THEN "" ELSE "try"]
    IN  IF bl = "env" THEN <<set>> ELSE <<linked, set>>

\* setNextKernelNoTry: the link, then the link to try, then the status.
SetNextKernelNoTry(d, k) ==
    IF bl = "env" THEN <<[d EXCEPT !.kernel = k, !.status = ""]>>
    ELSE <<[d EXCEPT !.kernel = k],
           [d EXCEPT !.kernel = k, !.try = NoSnap],
           [d EXCEPT !.kernel = k, !.try = NoSnap, !.status = ""]>>

\* Mutant: takes the kernel with the try link, whatever the status.
SuccessfulKernelLinked(d) == IF d.try # NoSnap THEN d.try ELSE d.kernel

\* selectSuccessfulBootSnap
SuccessfulKernel(d) == IF d.status = "trying" /\ d.try # NoSnap THEN d.try ELSE d.kernel
SuccessfulBase(d) == IF d.baseStatus = "trying" /\ d.tryBase # NoSnap THEN d.tryBase ELSE d.base

\* Mutant: the modeenv is written before the kernel is marked.
MarkPlanModeenvFirst(d) ==
    LET k == SuccessfulKernel(d)
        m == [d EXCEPT !.kernels = {k}, !.base = SuccessfulBase(d), !.tryBase = NoSnap,
                       !.baseStatus = ""]
        modeenv == WriteModeenv(d, m)
    IN  modeenv \o MarkSuccessfulKernel(Last(modeenv), k)

\* MarkBootSuccessful, for the base and then the kernel.  The kernel is marked
\* before the modeenv forgets the old one.
MarkPlan(d) ==
    LET k == SuccessfulKernel(d)
        m == [d EXCEPT !.kernels = {k}, !.base = SuccessfulBase(d), !.tryBase = NoSnap,
                       !.baseStatus = ""]
        marked == MarkSuccessfulKernel(d, k)
    IN  marked \o WriteModeenv(Last(marked), m)

\* bootState20Kernel.setNext: the modeenv trusts the kernel before it is set.
TryKernelPlan(d, k) ==
    LET modeenv == WriteModeenv(d, [d EXCEPT !.kernels = @ \cup {k}])
    IN  modeenv \o SetNextKernel(Last(modeenv), k)

\* The same to undo a refresh: the modeenv trusts only the old kernel.
RevertKernelPlan(d, k) ==
    LET modeenv == WriteModeenv(d, [d EXCEPT !.kernels = {k}])
    IN  modeenv \o SetNextKernelNoTry(Last(modeenv), k)

\* bootState20Base.setNext
TryBasePlan(d, b) ==
    WriteModeenv(d, IF b = d.base THEN [d EXCEPT !.baseStatus = ""]
                    ELSE [d EXCEPT !.tryBase = b, !.baseStatus = "try"])

RevertBasePlan(d, b) ==
    WriteModeenv(d, IF b = d.base THEN [d EXCEPT !.baseStatus = ""]
                    ELSE [d EXCEPT !.base = b, !.tryBase = NoSnap, !.baseStatus = ""])

-----------------------------------------------------------------------------
(* Booting.                                                                *)

\* grub.cfg.  The fallback entry of a kernel that cannot be started reboots.
Bootloader ==
    LET k == IF disk.status = "try" THEN disk.try ELSE disk.kernel
    IN  /\ phase = "off"
        /\ disk' = [disk EXCEPT !.status = IF @ = "try" THEN "trying" ELSE ""]
        /\ IF k \in files
           THEN phase' = "base" /\ running' = [running EXCEPT !.kernel = k]
           ELSE /\ phase' = IF disk.status = "try" THEN "off" ELSE "stuck"
                /\ UNCHANGED running
        /\ UNCHANGED <<worldVars, snapdVars, bootOk, good, faults>>

\* What the initramfs leaves in base_status, given whether it tries a base.
NextBaseStatus(tries) ==
    IF tries THEN "trying" ELSE IF disk.baseStatus = "trying" THEN "" ELSE disk.baseStatus

\* Mutant: takes the base that failed once more.
TriesBaseAgain == disk.baseStatus # "" /\ disk.tryBase \in files

\* genericInitramfsSelectSnap for the base, expected to be in "try".
TriesBase == disk.baseStatus = "try" /\ disk.tryBase \in files

\* The initramfs gives up, and the system reboots (emergency-reboot).  The
\* bootloader falls back from a kernel that is being tried; otherwise the next boot
\* is the same, and so on: "stuck".
GivesUp == IF disk.status = "" THEN "stuck" ELSE "off"

\* The key is sealed to a kernel, or to none in particular.
Unseals(d, k) == bl = "grub" => k \in d.sealed

\* The key is unsealed for the kernel that runs, then the base is selected and
\* base_status written, before the kernel is looked at.
SelectBase ==
    /\ phase = "base"
    /\ IF Unseals(disk, running.kernel) /\ disk.base \in files
       THEN /\ phase' = "kernel"
            /\ running' = [running EXCEPT !.base = IF TriesBase THEN disk.tryBase ELSE disk.base]
            /\ disk' = [disk EXCEPT !.baseStatus = NextBaseStatus(TriesBase)]
       ELSE phase' = GivesUp /\ UNCHANGED <<running, disk>>
    /\ UNCHANGED <<worldVars, snapdVars, bootOk, good, faults>>

\* Mutant: the status is not looked at.
SelectKernelCurrent ==
    /\ phase = "kernel"
    /\ phase' = IF disk.kernel \in files /\ disk.kernel \in disk.kernels THEN "mounted" ELSE GivesUp
    /\ running' = [running EXCEPT !.mounted = disk.kernel]
    /\ UNCHANGED <<worldVars, disk, snapdVars, bootOk, good, faults>>

\* The kernel, expected to be in "trying" or in no status.  Anything that does
\* not fit reboots, for the bootloader to fall back, or fails.
SelectKernel ==
    LET first == IF disk.status = "trying" THEN disk.try ELSE disk.kernel
    IN  /\ phase = "kernel"
        /\ phase' = IF /\ {disk.kernel, first} \subseteq files
                       /\ disk.status # "try" /\ first \in disk.kernels
                    THEN "mounted" ELSE GivesUp
        /\ running' = IF phase' = "mounted" THEN [running EXCEPT !.mounted = first] ELSE running
        /\ UNCHANGED <<worldVars, disk, snapdVars, bootOk, good, faults>>

\* A bad kernel or base does not get as far as snapd, and the system reboots.
BootFails ==
    /\ \/ phase \in {"base", "kernel"} /\ running.kernel \in bad
       \/ phase = "mounted" /\ {running.kernel, running.base} \cap bad # {}
    /\ phase' = "off"
    /\ UNCHANGED <<worldVars, disk, snapdVars, running, bootOk, good, faults>>

ComesUp ==
    /\ phase = "mounted" /\ {running.kernel, running.base} \cap bad = {}
    /\ phase' = "up" /\ bootOk' = FALSE
    /\ good' = good \cup {running.kernel, running.base}
    /\ UNCHANGED <<worldVars, disk, snapdVars, running, faults>>

BootStep == Bootloader \/ SelectBase \/ SelectKernel \/ BootFails \/ ComesUp

-----------------------------------------------------------------------------
(* snapd.                                                                  *)

Idle == phase = "up" /\ plan = <<>> /\ reverting = ""

\* ensureBootOk: once for every boot, before anything else is done.
EnsureBootOk ==
    /\ Idle /\ ~bootOk
    /\ plan' = MarkPlan(disk)
    /\ UNCHANGED <<worldVars, disk, reverting, undoing, phase, running, bootOk, refresh, files, fresh,
                   good, faults>>

\* The next write of a commit.
Commit ==
    /\ phase = "up" /\ plan # <<>>
    /\ disk' = Head(plan) /\ plan' = Tail(plan)
    /\ bootOk' = (bootOk \/ plan' = <<>>)
    /\ UNCHANGED <<worldVars, reverting, undoing, phase, running, refresh, files, fresh, good, faults>>

Starts(writes, revert) ==
    /\ plan' = writes /\ reverting' = revert
    /\ undoing' = IF revert = "" THEN undoing ELSE undoing \cup {revert}
    /\ UNCHANGED <<worldVars, disk, phase, running, bootOk, good, faults>>

\* mount-snap, for a revision that is not installed yet, and link-snap.  It may run
\* again, if snapd or the system stopped before its end was saved, with or without
\* a boot in between.  One change at a time refreshes a snap.
RefreshKernel(k) ==
    /\ Idle /\ bootOk /\ "kernel" \notin undoing
    /\ \/ /\ refresh.kernel = NoRefresh /\ fresh \cap Kernels = {} /\ k # disk.kernel
          /\ refresh' = [refresh EXCEPT !.kernel = [old |-> disk.kernel, new |-> k]]
       \/ k = refresh.kernel.new /\ UNCHANGED refresh
    /\ files' = files \cup {k} /\ fresh' = fresh \cup ({k} \ files)
    /\ Starts(TryKernelPlan(disk, k), "")

RefreshBase(b) ==
    /\ Idle /\ bootOk /\ "base" \notin undoing
    /\ \/ /\ refresh.base = NoRefresh /\ fresh \cap Bases = {} /\ b # disk.base
          /\ refresh' = [refresh EXCEPT !.base = [old |-> disk.base, new |-> b]]
       \/ b = refresh.base.new /\ UNCHANGED refresh
    /\ files' = files \cup {b} /\ fresh' = fresh \cup ({b} \ files)
    /\ Starts(TryBasePlan(disk, b), "")

\* FinishRestart: the refresh goes on when what was tried has been made current.
FinishKernel ==
    /\ Idle /\ bootOk /\ refresh.kernel # NoRefresh /\ "kernel" \notin undoing
    /\ disk.status # "trying" /\ disk.kernel = refresh.kernel.new
    /\ refresh' = [refresh EXCEPT !.kernel = NoRefresh]
    /\ files' = files /\ fresh' = fresh \ Kernels
    /\ Starts(<<>>, "")

FinishBase ==
    /\ Idle /\ bootOk /\ refresh.base # NoRefresh /\ "base" \notin undoing
    /\ disk.baseStatus # "trying" /\ disk.base = refresh.base.new
    /\ refresh' = [refresh EXCEPT !.base = NoRefresh]
    /\ files' = files /\ fresh' = fresh \ Bases
    /\ Starts(<<>>, "")

\* Mutant: undone without a refresh.
UndoKernelAlways ==
    /\ Idle /\ bootOk
    /\ UNCHANGED <<refresh, files, fresh>>
    /\ Starts(RevertKernelPlan(disk, refresh.kernel.old), "kernel")

\* A refresh that fails before or after the reboot, or that was rolled back by
\* the bootloader, is undone: undoUnlinkCurrentSnap.
UndoKernel ==
    /\ Idle /\ bootOk /\ refresh.kernel # NoRefresh
    /\ UNCHANGED <<refresh, files, fresh>>
    /\ Starts(RevertKernelPlan(disk, refresh.kernel.old), "kernel")

UndoBase ==
    /\ Idle /\ bootOk /\ refresh.base # NoRefresh
    /\ UNCHANGED <<refresh, files, fresh>>
    /\ Starts(RevertBasePlan(disk, refresh.base.old), "base")

\* undoUnlinkCurrentSnap returns, with an error or without: the task is not run
\* again.
UndoReturns ==
    /\ refresh' = IF reverting = "kernel" THEN [refresh EXCEPT !.kernel = NoRefresh]
                  ELSE IF reverting = "base" THEN [refresh EXCEPT !.base = NoRefresh]
                  ELSE refresh
    /\ undoing' = undoing \ {reverting} /\ reverting' = ""

Undone ==
    /\ phase = "up" /\ plan = <<>> /\ reverting # ""
    /\ UndoReturns
    /\ UNCHANGED <<worldVars, disk, plan, phase, running, bootOk, files, fresh, good, faults>>

\* undoMountSnap: what an undone refresh has installed is removed, whatever the
\* disk says.  (It comes after the reboot that the undo asked for, if there is one
\* to wait for; here it need not.)
UndoMountSnap(s) ==
    /\ Idle /\ bootOk /\ s \in fresh
    /\ s \in Kernels => refresh.kernel = NoRefresh
    /\ s \in Bases => refresh.base = NoRefresh
    /\ files' = files \ {s} /\ fresh' = fresh \ {s} /\ refresh' = refresh
    /\ Starts(<<>>, "")

\* InUse, for kernels and for bases.
InUse == {disk.kernel, disk.try, disk.base} \cup (IF disk.baseStatus = "" THEN {} ELSE {disk.tryBase})

\* Old revisions are removed when a refresh has succeeded, if nothing boots or runs
\* from them.
GarbageCollect(s) ==
    /\ Idle /\ bootOk /\ s \in files \ fresh
    /\ s \notin InUse \cup {running.kernel, running.base}
    /\ \A t \in {"kernel", "base"} : s \notin {refresh[t].old, refresh[t].new}
    /\ files' = files \ {s} /\ UNCHANGED <<fresh, refresh>>
    /\ Starts(<<>>, "")

\* The reboot that a refresh or an undo asks for, or anybody else.
Reboot ==
    /\ Idle
    /\ phase' = "off"
    /\ UNCHANGED <<worldVars, disk, snapdVars, running, bootOk, good, faults>>

-----------------------------------------------------------------------------
(* Faults.                                                                 *)

Fault ==
    /\ faults < MaxFaults /\ faults' = faults + 1
    /\ plan' = <<>>
    /\ UNCHANGED <<worldVars, disk, running, files, fresh, good>>

\* A task that was running is run again later.
Interrupted ==
    /\ reverting = "kernel" => "cut" \in UndoFaults
    /\ reverting' = "" /\ UNCHANGED <<undoing, refresh>>

PowerCut ==
    /\ phase \notin {"off", "stuck"}
    /\ phase' = "off" /\ UNCHANGED bootOk
    /\ Interrupted /\ Fault

\* snapd is killed in a commit, or before the end of the task is saved.  That the
\* boot was marked is only saved with the rest of the state, too.
Killed ==
    /\ plan # <<>> \/ reverting # ""
    /\ UNCHANGED <<phase, bootOk>>
    /\ Interrupted /\ Fault

\* A write fails, and the task with it.  That the boot was marked is saved
\* nevertheless.
WriteFails ==
    /\ plan # <<>> /\ bootOk' = TRUE /\ UNCHANGED phase
    /\ reverting # "" => "write" \in UndoFaults
    /\ UndoReturns /\ Fault

BootNext ==
    \/ BootStep
    \/ EnsureBootOk \/ Commit
    \/ \E k \in Kernels : RefreshKernel(k)
    \/ \E b \in Bases : RefreshBase(b)
    \/ FinishKernel \/ FinishBase \/ UndoKernel \/ UndoBase \/ Undone
    \/ \E s \in Snaps : UndoMountSnap(s) \/ GarbageCollect(s)
    \/ Reboot
    \/ PowerCut \/ Killed \/ WriteFails

BootSpec == BootInit /\ [][BootNext]_bootVars

\* A boot goes on until it succeeds or fails.
BootFairSpec == BootSpec /\ WF_bootVars(BootStep)

-----------------------------------------------------------------------------
(* Properties.                                                             *)

\* A fault at any point of an update or of its undo (in an undo, those of
\* UndoFaults) never leaves a combination of links, status, modeenv, sealed key and
\* files that does not boot ("critical points where a hard system reset ... would
\* brick a device").
NeverStuck == phase # "stuck"

\* The kernel and the base to fall back to have come up before: nothing is made
\* current that was not tried successfully, in whatever order statuses and links
\* are written ("we did not successfully boot from that kernel to know we should
\* trust it").
CurrentIsGood == disk.kernel \in good /\ disk.base \in good

\* The initramfs mounts the snap of the kernel that really runs, although it only
\* sees the links and the status after the bootloader has changed it.
MountsRunningKernel == phase \in {"mounted", "up"} => running.mounted = running.kernel

\* A refresh goes on after a restart only if the system runs the new revision:
\* the links and the status, which are all that FinishRestart looks at, tell what
\* was booted although a mark may have been cut short.
FinishedIsRunning ==
    [][/\ FinishKernel => running.kernel = refresh.kernel.new
       /\ FinishBase => running.base = refresh.base.new]_bootVars

\* Whatever is tried and however bad it is, and whatever of it is undone and removed
\* again, the device comes up again, with the same faults.
Recovers == (phase # "up") ~> (phase = "up")
=============================================================================
