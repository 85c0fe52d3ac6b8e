----------------------------- MODULE BootProofs -----------------------------
(***************************************************************************)
(* Theorems about BootTry, for any kernels, bases, bootloaders and faults. *)
(* All faults are included everywhere but in AlwaysBoots, which excludes   *)
(* failed writes in an undo, and power cuts and kills in that of a kernel. *)
(***************************************************************************)
EXTENDS BootTry, SequenceTheorems, TLAPS

\* What a refresh has made current is not being tried any more, or it is tried
\* once more.
Settled(d) ==
    /\ refresh.kernel # NoRefresh /\ d.kernel = refresh.kernel.new =>
           d.status = "" \/ d.try = refresh.kernel.new
    /\ refresh.base # NoRefresh /\ d.base = refresh.base.new =>
           d.baseStatus = "" \/ d.tryBase = refresh.base.new

\* What a refresh has made current is running.
Runs(d) ==
    /\ refresh.kernel # NoRefresh /\ d.kernel = refresh.kernel.new =>
           running.kernel = refresh.kernel.new
    /\ refresh.base # NoRefresh /\ d.base = refresh.base.new =>
           running.base = refresh.base.new

\* Until the boot has been marked, what is being tried is what runs.
Told(d) ==
    /\ d.status = "trying" /\ d.try # NoSnap => d.try = running.kernel
    /\ d.baseStatus = "trying" /\ d.tryBase # NoSnap => d.tryBase = running.base

\* The contents that a disk may have, now and in the middle of a commit.
Fits(d) ==
    /\ d.kernel \in good /\ d.base \in good
    /\ Settled(d)
    /\ phase = "up" => Runs(d)
    /\ phase = "up" /\ ~bootOk => Told(d)

Fit == {d \in Disks : Fits(d)}

\* The links and the statuses tell what the bootloader and the initramfs chose.
KernelChosen ==
    phase \in {"base", "kernel", "mounted"} =>
        /\ disk.status # "try"
        /\ running.kernel = IF disk.status = "trying" THEN disk.try ELSE disk.kernel

BaseChosen ==
    phase \in {"kernel", "mounted"} =>
        running.base = IF disk.baseStatus = "trying" THEN disk.tryBase ELSE disk.base

UpIsGood == phase = "up" => running.kernel \in good /\ running.base \in good

\* A refresh can be undone: what it started from has come up, and is another
\* revision.
OldIsGood ==
    /\ refresh.kernel # NoRefresh => /\ refresh.kernel.old \in good \cap Kernels
                                     /\ refresh.kernel.old # refresh.kernel.new
    /\ refresh.base # NoRefresh => /\ refresh.base.old \in good \cap Bases
                                   /\ refresh.base.old # refresh.base.new

\* What a commit may undo.
Reverts == {"", "kernel", "base"}

\* Writes are made, and tasks are running, only in a system that is up.
OnlyUpIsBusy == phase # "up" => plan = <<>> /\ reverting = ""

BootInv ==
    /\ BootTypeOK
    /\ disk \in Fit /\ plan \in Seq(Fit)
    /\ OnlyUpIsBusy
    /\ KernelChosen /\ BaseChosen /\ MountsRunningKernel
    /\ UpIsGood /\ OldIsGood

-----------------------------------------------------------------------------
(* Contents of the disk that differ in a few fields.                       *)

SameBase(e, d) == e.base = d.base /\ e.tryBase = d.tryBase /\ e.baseStatus = d.baseStatus

SameKernel(e, d) == e.kernel = d.kernel /\ e.try = d.try /\ e.status = d.status

LEMMA TwoWrites ==
  ASSUME NEW F, NEW x \in F, NEW y \in F
  PROVE  <<x, y>> \in Seq(F) /\ Last(<<x, y>>) = y
BY DEF Last

LEMMA OneWrite ==
  ASSUME NEW F, NEW x \in F
  PROVE  <<x>> \in Seq(F) /\ Last(<<x>>) = x
BY DEF Last

LEMMA ThreeWrites ==
  ASSUME NEW F, NEW x \in F, NEW y \in F, NEW z \in F
  PROVE  <<x, y, z>> \in Seq(F) /\ Last(<<x, y, z>>) = z
<1>1. <<x, y, z>> \in Seq(F)
  OBVIOUS
<1>2. Len(<<x, y, z>>) = 3 /\ <<x, y, z>>[3] = z
  OBVIOUS
<1>3. QED
  BY <1>1, <1>2 DEF Last

LEMMA WritesAfterWrites ==
  ASSUME NEW F, NEW s \in Seq(F), NEW t \in Seq(F)
  PROVE  s \o t \in Seq(F)
BY ConcatProperties

\* The modeenv says nothing of the links and of kernel_status.
LEMMA WriteModeenvSeq ==
  ASSUME NEW F, NEW d \in Disks, NEW m \in Disks,
         \A e \in Disks : SameKernel(e, d) /\ SameBase(e, m) => e \in F
  PROVE  LET p == WriteModeenv(d, m)
         IN  /\ p \in Seq(F)
             /\ Last(p) \in Disks /\ SameKernel(Last(p), d) /\ SameBase(Last(p), m)
<1> DEFINE w == [d EXCEPT !.kernels = m.kernels, !.base = m.base, !.tryBase = m.tryBase,
                          !.baseStatus = m.baseStatus]
           v == [w EXCEPT !.sealed = IF bl = "grub" THEN m.kernels ELSE @]
<1>1. w \in Disks /\ SameKernel(w, d) /\ SameBase(w, m)
  BY DEF Disks, SameKernel, SameBase
<1>2. m.kernels \in SUBSET Kernels
  BY DEF Disks
<1> HIDE DEF w
<1>3. v \in Disks /\ SameKernel(v, d) /\ SameBase(v, m)
  BY <1>1, <1>2 DEF Disks, SameKernel, SameBase
<1> HIDE DEF v
<1>4. w \in F /\ v \in F
  BY <1>1, <1>3
<1>5. WriteModeenv(d, m) = <<w, v>>
  BY DEF WriteModeenv, w, v
<1>6. <<w, v>> \in Seq(F) /\ Last(<<w, v>>) = v
  BY <1>4, TwoWrites
<1>7. QED
  BY <1>3, <1>5, <1>6

\* A mark clears the status first, and makes the kernel current before it
\* forgets that it was tried.
LEMMA MarkSuccessfulKernelSeq ==
  ASSUME NEW F, NEW d \in Disks, NEW k \in Kernels,
         NoSnap \notin Kernels,
         \A e \in Disks : /\ SameBase(e, d) /\ e.status = ""
                          /\ e.kernel \in {d.kernel, k}
                          => e \in F
  PROVE  LET p == MarkSuccessfulKernel(d, k)
         IN  /\ p \in Seq(F)
             /\ Last(p) \in Disks /\ SameBase(Last(p), d)
             /\ Last(p).kernel = k /\ Last(p).status = ""
<1> DEFINE x == [d EXCEPT !.status = ""]
           y == [d EXCEPT !.status = "", !.kernel = k]
           z == [d EXCEPT !.status = "", !.kernel = k, !.try = NoSnap]
<1>1. x \in Disks /\ SameBase(x, d) /\ x.kernel = d.kernel /\ x.status = ""
  BY DEF Disks, SameBase, BootStatuses
<1>2. y \in Disks /\ SameBase(y, d) /\ y.kernel = k /\ y.status = ""
  BY DEF Disks, SameBase, BootStatuses
<1>3. z \in Disks /\ SameBase(z, d) /\ z.kernel = k /\ z.status = ""
  BY DEF Disks, SameBase, BootStatuses
<1>4. x \in F /\ y \in F /\ z \in F
  BY <1>1, <1>2, <1>3
<1>5. MarkSuccessfulKernel(d, k) = IF bl = "env" THEN <<z>> ELSE <<x, y, z>>
  BY DEF MarkSuccessfulKernel
<1> HIDE DEF x, y, z
<1>6. /\ <<z>> \in Seq(F) /\ Last(<<z>>) = z
      /\ <<x, y, z>> \in Seq(F) /\ Last(<<x, y, z>>) = z
  BY <1>4, OneWrite, ThreeWrites
<1>7. QED
  BY <1>3, <1>5, <1>6

\* Setting the next kernel leaves the current one alone; nothing is tried if it
\* is the current one.
LEMMA SetNextKernelSeq ==
  ASSUME NEW F, NEW d \in Disks, NEW k \in Kernels,
         \A e \in Disks : /\ SameBase(e, d) /\ e.kernel = d.kernel
                          /\ k = d.kernel => e.status = "" \/ SameKernel(e, d)
                          => e \in F
  PROVE  SetNextKernel(d, k) \in Seq(F)
<1> DEFINE x == IF k = d.kernel THEN d ELSE [d EXCEPT !.try = k]
           y == [x EXCEPT !.status = IF k = d.kernel THEN "" ELSE "try"]
<1>1. /\ x \in Disks /\ SameBase(x, d) /\ x.kernel = d.kernel
      /\ k = d.kernel => SameKernel(x, d)
  BY DEF Disks, SameBase, SameKernel
<1>2. SetNextKernel(d, k) = IF bl = "env" THEN <<y>> ELSE <<x, y>>
  BY DEF SetNextKernel
<1> HIDE DEF x
<1>3. /\ y \in Disks /\ SameBase(y, d) /\ y.kernel = d.kernel
      /\ k = d.kernel => y.status = ""
  BY <1>1 DEF Disks, SameBase, BootStatuses
<1> HIDE DEF y
<1>4. x \in F
  BY <1>1
<1>5. y \in F
  BY <1>3
<1>6. <<y>> \in Seq(F) /\ <<x, y>> \in Seq(F)
  BY <1>4, <1>5, OneWrite, TwoWrites
<1>7. QED
  BY <1>2, <1>6

LEMMA SetNextKernelNoTrySeq ==
  ASSUME NEW F, NEW d \in Disks, NEW k \in Kernels,
         \A e \in Disks : SameBase(e, d) /\ e.kernel = k => e \in F
  PROVE  SetNextKernelNoTry(d, k) \in Seq(F)
<1> DEFINE u == [d EXCEPT !.kernel = k, !.status = ""]
           x == [d EXCEPT !.kernel = k]
           y == [d EXCEPT !.kernel = k, !.try = NoSnap]
           z == [d EXCEPT !.kernel = k, !.try = NoSnap, !.status = ""]
<1>1. u \in Disks /\ SameBase(u, d) /\ u.kernel = k
  BY DEF Disks, SameBase, BootStatuses
<1>2. x \in Disks /\ SameBase(x, d) /\ x.kernel = k
  BY DEF Disks, SameBase
<1>3. y \in Disks /\ SameBase(y, d) /\ y.kernel = k
  BY DEF Disks, SameBase
<1>4. z \in Disks /\ SameBase(z, d) /\ z.kernel = k
  BY DEF Disks, SameBase, BootStatuses
<1>5. SetNextKernelNoTry(d, k) = IF bl = "env" THEN <<u>> ELSE <<x, y, z>>
  BY DEF SetNextKernelNoTry
<1> HIDE DEF u, x, y, z
<1>6. u \in F /\ x \in F /\ y \in F /\ z \in F
  BY <1>1, <1>2, <1>3, <1>4
<1>7. <<u>> \in Seq(F) /\ <<x, y, z>> \in Seq(F)
  BY <1>6, OneWrite, ThreeWrites
<1>8. QED
  BY <1>5, <1>7

-----------------------------------------------------------------------------
(* The plans of snapd.                                                     *)

\* A mark makes current what was tried if that is what runs, and forgets it.
LEMMA MarkPlanSeq ==
  ASSUME NEW F, NEW d \in Disks, BootAssumption,
         \A e \in Disks : /\ e.status = "" /\ e.kernel \in {d.kernel, SuccessfulKernel(d)}
                          /\ SameBase(e, d) \/ (e.base = SuccessfulBase(d) /\ e.baseStatus = "")
                          => e \in F
  PROVE  MarkPlan(d) \in Seq(F)
<1> DEFINE k == SuccessfulKernel(d)
           m == [d EXCEPT !.kernels = {k}, !.base = SuccessfulBase(d), !.tryBase = NoSnap,
                          !.baseStatus = ""]
           marked == MarkSuccessfulKernel(d, k)
<1>1. k \in Kernels /\ SuccessfulBase(d) \in Bases
  BY DEF SuccessfulKernel, SuccessfulBase, Disks
<1>2. m \in Disks /\ m.base = SuccessfulBase(d) /\ m.baseStatus = ""
  BY <1>1 DEF Disks, BootStatuses
<1>3. MarkPlan(d) = marked \o WriteModeenv(Last(marked), m)
  BY DEF MarkPlan
<1>4. NoSnap \notin Kernels
  BY DEF BootAssumption
<1> HIDE DEF m, k
<1>5. /\ marked \in Seq(F)
      /\ Last(marked) \in Disks /\ SameBase(Last(marked), d)
      /\ Last(marked).kernel = k /\ Last(marked).status = ""
  BY <1>1, <1>4, MarkSuccessfulKernelSeq DEF k
<1> HIDE DEF marked
<1>6. \A e \in Disks : SameKernel(e, Last(marked)) /\ SameBase(e, m) => e \in F
  BY <1>2, <1>5 DEF SameKernel, SameBase, k
<1>7. WriteModeenv(Last(marked), m) \in Seq(F)
  BY <1>2, <1>5, <1>6, WriteModeenvSeq
<1>8. marked \o WriteModeenv(Last(marked), m) \in Seq(F)
  BY <1>5, <1>7, WritesAfterWrites
<1>9. QED
  BY <1>3, <1>8

LEMMA TryKernelPlanSeq ==
  ASSUME NEW F, NEW d \in Disks, NEW k \in Kernels,
         \A e \in Disks : /\ SameBase(e, d) /\ e.kernel = d.kernel
                          /\ k = d.kernel => e.status = "" \/ SameKernel(e, d)
                          => e \in F
  PROVE  TryKernelPlan(d, k) \in Seq(F)
<1> DEFINE m == [d EXCEPT !.kernels = @ \cup {k}]
           modeenv == WriteModeenv(d, m)
<1>1. m \in Disks /\ SameBase(m, d)
  BY DEF Disks, SameBase
<1>2. TryKernelPlan(d, k) = modeenv \o SetNextKernel(Last(modeenv), k)
  BY DEF TryKernelPlan
<1> HIDE DEF m
<1>3. \A e \in Disks : SameKernel(e, d) /\ SameBase(e, m) => e \in F
  BY <1>1 DEF SameKernel, SameBase
<1>4. /\ modeenv \in Seq(F) /\ Last(modeenv) \in Disks
      /\ SameKernel(Last(modeenv), d) /\ SameBase(Last(modeenv), m)
  BY <1>1, <1>3, WriteModeenvSeq
<1> HIDE DEF modeenv
<1>5. \A e \in Disks :
         /\ SameBase(e, Last(modeenv)) /\ e.kernel = Last(modeenv).kernel
         /\ k = Last(modeenv).kernel => e.status = "" \/ SameKernel(e, Last(modeenv))
         => e \in F
  BY <1>1, <1>4 DEF SameKernel, SameBase
<1>6. SetNextKernel(Last(modeenv), k) \in Seq(F)
  BY <1>4, <1>5, SetNextKernelSeq
<1>7. QED
  BY <1>2, <1>4, <1>6, WritesAfterWrites

LEMMA RevertKernelPlanSeq ==
  ASSUME NEW F, NEW d \in Disks, NEW k \in Kernels,
         \A e \in Disks : SameBase(e, d) /\ (e.kernel = k \/ SameKernel(e, d)) => e \in F
  PROVE  RevertKernelPlan(d, k) \in Seq(F)
<1> DEFINE m == [d EXCEPT !.kernels = {k}]
           modeenv == WriteModeenv(d, m)
<1>1. m \in Disks /\ SameBase(m, d)
  BY DEF Disks, SameBase
<1>2. RevertKernelPlan(d, k) = modeenv \o SetNextKernelNoTry(Last(modeenv), k)
  BY DEF RevertKernelPlan
<1> HIDE DEF m
<1>3. \A e \in Disks : SameKernel(e, d) /\ SameBase(e, m) => e \in F
  BY <1>1 DEF SameBase
<1>4. /\ modeenv \in Seq(F) /\ Last(modeenv) \in Disks
      /\ SameBase(Last(modeenv), m)
  BY <1>1, <1>3, WriteModeenvSeq
<1> HIDE DEF modeenv
<1>5. \A e \in Disks : SameBase(e, Last(modeenv)) /\ e.kernel = k => e \in F
  BY <1>1, <1>4 DEF SameBase
<1>6. SetNextKernelNoTry(Last(modeenv), k) \in Seq(F)
  BY <1>4, <1>5, SetNextKernelNoTrySeq
<1>7. QED
  BY <1>2, <1>4, <1>6, WritesAfterWrites

\* A base is set in the modeenv alone.
LEMMA TryBasePlanSeq ==
  ASSUME NEW F, NEW d \in Disks, NEW b \in Bases,
         \A e \in Disks : /\ SameKernel(e, d) /\ e.base = d.base
                          /\ b = d.base => e.baseStatus = ""
                          => e \in F
  PROVE  TryBasePlan(d, b) \in Seq(F)
<1> DEFINE m == IF b = d.base THEN [d EXCEPT !.baseStatus = ""]
                ELSE [d EXCEPT !.tryBase = b, !.baseStatus = "try"]
<1>1. m \in Disks /\ m.base = d.base /\ (b = d.base => m.baseStatus = "")
  BY DEF Disks, BootStatuses
<1>2. TryBasePlan(d, b) = WriteModeenv(d, m)
  BY DEF TryBasePlan
<1> HIDE DEF m
<1>3. \A e \in Disks : SameKernel(e, d) /\ SameBase(e, m) => e \in F
  BY <1>1 DEF SameBase
<1>4. QED
  BY <1>1, <1>2, <1>3, WriteModeenvSeq

LEMMA RevertBasePlanSeq ==
  ASSUME NEW F, NEW d \in Disks, NEW b \in Bases,
         \A e \in Disks : SameKernel(e, d) /\ e.base = b => e \in F
  PROVE  RevertBasePlan(d, b) \in Seq(F)
<1> DEFINE m == IF b = d.base THEN [d EXCEPT !.baseStatus = ""]
                ELSE [d EXCEPT !.base = b, !.tryBase = NoSnap, !.baseStatus = ""]
<1>1. m \in Disks /\ m.base = b
  BY DEF Disks, BootStatuses
<1>2. RevertBasePlan(d, b) = WriteModeenv(d, m)
  BY DEF RevertBasePlan
<1> HIDE DEF m
<1>3. \A e \in Disks : SameKernel(e, d) /\ SameBase(e, m) => e \in F
  BY <1>1 DEF SameBase
<1>4. QED
  BY <1>1, <1>2, <1>3, WriteModeenvSeq

-----------------------------------------------------------------------------
(* The invariant.                                                          *)

LEMMA FitIsDisk == Fit \subseteq Disks
BY DEF Fit

LEMMA SeqMonotone ==
  ASSUME NEW E, NEW F, E \subseteq F, NEW s \in Seq(E)
  PROVE  s \in Seq(F)
BY SeqDef

LEMMA EmptyIsSeq ==
  ASSUME NEW S
  PROVE  <<>> \in Seq(S)
OBVIOUS

LEMMA BootInitially == BootInit => BootInv
<1> SUFFICES ASSUME BootInit PROVE BootInv
  OBVIOUS
<1> USE BootAssumption DEF BootAssumption
<1>1. disk \in Disks /\ disk.kernel = Kernel0 /\ disk.base = Base0 /\ disk.status = ""
  BY DEF BootInit, Disks, BootStatuses
<1>2. refresh.kernel = NoRefresh /\ refresh.base = NoRefresh
  BY DEF BootInit
<1>3. plan = <<>> /\ phase = "up" /\ bootOk = TRUE /\ reverting = "" /\ undoing = {}
  BY DEF BootInit
<1>4. /\ running \in [kernel : Kernels, mounted : Kernels, base : Bases]
      /\ running.kernel = Kernel0 /\ running.base = Base0 /\ running.mounted = Kernel0
  BY DEF BootInit
<1>5. /\ Kernel0 \in good /\ Base0 \in good /\ files \subseteq Snaps /\ fresh \subseteq Snaps
      /\ good \subseteq Snaps
  BY DEF BootInit, Snaps
<1>6. refresh \in [kernel : [old : Kernels \cup {NoSnap}, new : Kernels \cup {NoSnap}],
                   base : [old : Bases \cup {NoSnap}, new : Bases \cup {NoSnap}]]
  BY DEF BootInit, NoRefresh
<1>7. bl \in Bootloaders /\ bad \subseteq Snaps /\ faults \in 0..MaxFaults
  <2>1. bl \in Bootloaders /\ bad \subseteq Snaps
    BY Zenon DEF BootInit
  <2>2. faults = 0 /\ MaxFaults \in Nat
    BY DEF BootInit
  <2>3. QED
    BY <2>1, <2>2
<1>8. disk \in Fit
  BY <1>1, <1>2, <1>3, <1>5 DEF Fit, Fits, Settled, Runs, Told
<1>9. plan \in Seq(Fit) /\ plan \in Seq(Disks)
  <2>1. plan = <<>>
    BY <1>3
  <2>2. QED
    BY <2>1, EmptyIsSeq, Zenon
<1>10. /\ bootOk \in BOOLEAN /\ reverting \in Reverts /\ undoing \subseteq {"kernel", "base"}
       /\ phase \in {"off", "base", "kernel", "mounted", "up", "stuck"}
  BY <1>3 DEF Reverts
<1>11. BootTypeOK
  BY <1>1, <1>4, <1>5, <1>6, <1>7, <1>9, <1>10, Zenon DEF BootTypeOK, Reverts
<1>12. QED
  BY <1>2, <1>3, <1>4, <1>5, <1>8, <1>9, <1>11
     DEF BootInv, OnlyUpIsBusy, KernelChosen, BaseChosen, MountsRunningKernel, UpIsGood, OldIsGood

\* The types of what an action looks at.
LEMMA Facts ==
  ASSUME BootInv
  PROVE  /\ disk \in Disks
         /\ disk.kernel \in Kernels /\ disk.try \in Kernels \cup {NoSnap}
         /\ disk.status \in BootStatuses
         /\ disk.base \in Bases /\ disk.tryBase \in Bases \cup {NoSnap}
         /\ disk.baseStatus \in BootStatuses
         /\ disk.kernel \in good /\ disk.base \in good /\ Settled(disk)
         /\ running.kernel \in Kernels /\ running.base \in Bases
         /\ files \subseteq Snaps /\ fresh \subseteq Snaps /\ undoing \subseteq {"kernel", "base"}
         /\ NoSnap \notin Snaps /\ Kernels \cap Bases = {}
<1>1. disk \in Disks /\ disk.kernel \in good /\ disk.base \in good /\ Settled(disk)
  BY DEF BootInv, Fit, Fits
<1>2. /\ disk.kernel \in Kernels /\ disk.try \in Kernels \cup {NoSnap}
      /\ disk.status \in BootStatuses
      /\ disk.base \in Bases /\ disk.tryBase \in Bases \cup {NoSnap}
      /\ disk.baseStatus \in BootStatuses
  BY <1>1 DEF Disks
<1>3. /\ running.kernel \in Kernels /\ running.base \in Bases
      /\ files \subseteq Snaps /\ fresh \subseteq Snaps /\ undoing \subseteq {"kernel", "base"}
  BY DEF BootInv, BootTypeOK
<1>4. NoSnap \notin Snaps /\ Kernels \cap Bases = {}
  BY BootAssumption DEF BootAssumption, Snaps
<1>5. QED
  BY <1>1, <1>2, <1>3, <1>4

\* A step that leaves no writes and no task running.
LEMMA Quiet ==
  ASSUME BootTypeOK', disk' \in Fit', plan' = <<>>, reverting' = "",
         KernelChosen', BaseChosen', MountsRunningKernel', UpIsGood', OldIsGood'
  PROVE  BootInv'
<1>1. plan' \in Seq(Fit')
  BY EmptyIsSeq, Zenon
<1>2. OnlyUpIsBusy'
  BY Zenon DEF OnlyUpIsBusy
<1>3. QED
  BY <1>1, <1>2, Zenon DEF BootInv

LEMMA BootloaderStep ==
  ASSUME BootInv, Bootloader
  PROVE  BootInv'
<1> DEFINE k == IF disk.status = "try" THEN disk.try ELSE disk.kernel
<1>1. /\ phase = "off"
      /\ disk' = [disk EXCEPT !.status = IF @ = "try" THEN "trying" ELSE ""]
      /\ UNCHANGED <<bl, bad, plan, reverting, undoing, refresh, files, fresh, bootOk, good, faults>>
  BY DEF Bootloader, worldVars, snapdVars
<1>2. \/ /\ k \in files /\ phase' = "base"
         /\ running' = [running EXCEPT !.kernel = k]
      \/ phase' \in {"off", "stuck"} /\ running' = running
  BY DEF Bootloader
<1>3. plan = <<>> /\ plan' = <<>> /\ reverting = "" /\ reverting' = ""
  BY <1>1 DEF BootInv, OnlyUpIsBusy
<1>4. /\ disk' \in Disks /\ disk'.kernel = disk.kernel /\ disk'.try = disk.try
      /\ disk'.status = IF disk.status = "try" THEN "trying" ELSE ""
      /\ SameBase(disk', disk)
  BY <1>1, Facts DEF Disks, SameBase, BootStatuses
<1>5. Settled(disk)'
  BY <1>1, <1>4, Facts DEF Settled, SameBase
<1>6. disk' \in Fit'
  <2>1. good' = good
    BY <1>1
  <2>2. disk.kernel \in good /\ disk.base \in good
    BY Facts
  <2>3. disk'.kernel \in good' /\ disk'.base \in good'
    BY <1>4, <2>1, <2>2, Zenon DEF SameBase
  <2>4. Fits(disk)'
    BY <1>2, <1>5, <2>3 DEF Fits
  <2>5. QED
    BY <1>4, <2>4 DEF Fit
<1>7. k \in files => k \in Kernels
  BY Facts
<1> HIDE DEF k
<1>8. /\ running' \in [kernel : Kernels, mounted : Kernels, base : Bases]
      /\ phase' = "base" => running'.kernel = k
  BY <1>2, <1>7 DEF BootInv, BootTypeOK
<1>9. KernelChosen'
  BY <1>2, <1>4, <1>8 DEF KernelChosen, k
<1>10. phase' \in {"off", "base", "stuck"}
  BY <1>2
<1>11. BootTypeOK'
  BY <1>1, <1>3, <1>4, <1>8, <1>10 DEF BootInv, BootTypeOK
<1>12. OldIsGood'
  BY <1>1 DEF BootInv, OldIsGood
<1>13. BaseChosen' /\ MountsRunningKernel' /\ UpIsGood'
  BY <1>10 DEF BaseChosen, MountsRunningKernel, UpIsGood
<1>14. QED
  BY <1>3, <1>6, <1>9, <1>11, <1>12, <1>13, Quiet, Zenon

LEMMA SelectBaseStep ==
  ASSUME BootInv, SelectBase
  PROVE  BootInv'
<1>1. /\ phase = "base"
      /\ UNCHANGED <<bl, bad, plan, reverting, undoing, refresh, files, fresh, bootOk, good, faults>>
  BY DEF SelectBase, worldVars, snapdVars
<1>2. plan = <<>> /\ plan' = <<>> /\ reverting = "" /\ reverting' = ""
  BY <1>1 DEF BootInv, OnlyUpIsBusy
<1>3. CASE phase' \in {"off", "stuck"} /\ UNCHANGED <<running, disk>>
  <2>1. disk' \in Fit'
    BY <1>1, <1>3, Facts DEF Fit, Fits, Settled
  <2>2. BootTypeOK' /\ OldIsGood'
    BY <1>1, <1>3 DEF BootInv, BootTypeOK, OldIsGood
  <2>3. KernelChosen' /\ BaseChosen' /\ MountsRunningKernel' /\ UpIsGood'
    BY <1>3 DEF KernelChosen, BaseChosen, MountsRunningKernel, UpIsGood
  <2>4. QED
    BY <1>2, <2>1, <2>2, <2>3, Quiet, Zenon
<1>4. CASE /\ phase' = "kernel"
           /\ running' = [running EXCEPT !.base = IF TriesBase THEN disk.tryBase ELSE disk.base]
           /\ disk' = [disk EXCEPT !.baseStatus = NextBaseStatus(TriesBase)]
  <2>1. NextBaseStatus(TriesBase) \in BootStatuses
    BY Facts DEF NextBaseStatus, BootStatuses
  <2>2. /\ disk' \in Disks /\ SameKernel(disk', disk)
        /\ disk'.base = disk.base /\ disk'.tryBase = disk.tryBase
        /\ disk'.baseStatus = NextBaseStatus(TriesBase)
    BY <1>4, <2>1, Facts DEF Disks, SameKernel
  <2>3. TriesBase => disk.tryBase \in Bases /\ disk.baseStatus = "try"
    BY Facts DEF TriesBase, Snaps
  <2>4. /\ running' \in [kernel : Kernels, mounted : Kernels, base : Bases]
        /\ running'.kernel = running.kernel
        /\ running'.base = IF TriesBase THEN disk.tryBase ELSE disk.base
    BY <1>4, <2>3, Facts DEF BootInv, BootTypeOK
  <2>5. BaseChosen'
    BY <2>2, <2>4 DEF BaseChosen, NextBaseStatus
  <2>6. KernelChosen'
    BY <1>1, <1>4, <2>2, <2>4 DEF BootInv, KernelChosen, SameKernel
  <2>7. Settled(disk)'
    BY <1>1, <2>2, <2>3, Facts DEF Settled, SameKernel, NextBaseStatus
  <2>8. disk' \in Fit'
    <3>1. disk'.kernel \in good' /\ disk'.base \in good' /\ phase' # "up"
      BY <1>1, <1>4, <2>2, Facts DEF SameKernel
    <3>2. Fits(disk)'
      BY <2>7, <3>1 DEF Fits
    <3>3. QED
      BY <2>2, <3>2 DEF Fit
  <2>9. BootTypeOK' /\ OldIsGood'
    BY <1>1, <1>2, <1>4, <2>2, <2>4 DEF BootInv, BootTypeOK, OldIsGood
  <2>10. MountsRunningKernel' /\ UpIsGood'
    BY <1>4 DEF MountsRunningKernel, UpIsGood
  <2>11. QED
    BY <1>2, <2>5, <2>6, <2>8, <2>9, <2>10, Quiet, Zenon
<1>5. QED
  BY <1>3, <1>4 DEF SelectBase, GivesUp

LEMMA SelectKernelStep ==
  ASSUME BootInv, SelectKernel
  PROVE  BootInv'
<1> DEFINE first == IF disk.status = "trying" THEN disk.try ELSE disk.kernel
<1>1. /\ phase = "kernel"
      /\ UNCHANGED <<bl, bad, disk, plan, reverting, undoing, refresh, files, fresh, bootOk, good, faults>>
  BY DEF SelectKernel, worldVars, snapdVars
<1>2. /\ phase' \in {"mounted", "off", "stuck"}
      /\ phase' = "mounted" => first \in files
      /\ running' = IF phase' = "mounted" THEN [running EXCEPT !.mounted = first] ELSE running
  BY DEF SelectKernel, GivesUp
<1>3. plan = <<>> /\ plan' = <<>> /\ reverting = "" /\ reverting' = ""
  BY <1>1 DEF BootInv, OnlyUpIsBusy
<1>4. first \in files => first \in Kernels
  BY Facts
<1>5. running.kernel = first /\ disk.status # "try"
  BY <1>1 DEF BootInv, KernelChosen
<1> HIDE DEF first
<1>6. /\ running' \in [kernel : Kernels, mounted : Kernels, base : Bases]
      /\ running'.kernel = running.kernel /\ running'.base = running.base
      /\ phase' = "mounted" => running'.mounted = first
  BY <1>2, <1>4 DEF BootInv, BootTypeOK
<1>7. disk' \in Fit'
  BY <1>1, <1>2, Facts DEF Fit, Fits, Settled
<1>8. BootTypeOK' /\ OldIsGood'
  BY <1>1, <1>2, <1>3, <1>6 DEF BootInv, BootTypeOK, OldIsGood
<1>9. KernelChosen' /\ BaseChosen'
  BY <1>1, <1>5, <1>6 DEF BootInv, KernelChosen, BaseChosen, first
<1>10. MountsRunningKernel' /\ UpIsGood'
  BY <1>2, <1>5, <1>6 DEF MountsRunningKernel, UpIsGood
<1>11. QED
  BY <1>3, <1>7, <1>8, <1>9, <1>10, Quiet, Zenon

\* The system goes down: only what is on disk matters.
LEMMA DownStep ==
  ASSUME BootInv, phase' = "off", plan' = <<>>, reverting' = "",
         faults' \in 0..MaxFaults,
         UNCHANGED <<bl, bad, disk, undoing, running, bootOk, refresh, files, fresh, good>>
  PROVE  BootInv'
<1>1. disk' \in Fit'
  BY Facts DEF Fit, Fits, Settled
<1>2. plan' \in Seq(Disks) /\ reverting' \in {"", "kernel", "base"}
  BY EmptyIsSeq, Zenon
<1>3. BootTypeOK'
  <2>1. phase' \in {"off", "base", "kernel", "mounted", "up", "stuck"}
    BY Zenon
  <2>2. QED
    BY <1>2, <2>1, Zenon DEF BootInv, BootTypeOK
<1>4. OldIsGood'
  BY DEF BootInv, OldIsGood
<1>5. KernelChosen' /\ BaseChosen' /\ MountsRunningKernel' /\ UpIsGood'
  BY DEF KernelChosen, BaseChosen, MountsRunningKernel, UpIsGood
<1>6. QED
  BY <1>1, <1>3, <1>4, <1>5, Quiet, Zenon

LEMMA BootFailsStep ==
  ASSUME BootInv, BootFails
  PROVE  BootInv'
<1>1. /\ phase # "up" /\ phase' = "off"
      /\ UNCHANGED <<bl, bad, disk, plan, reverting, undoing, running, bootOk, refresh, files, fresh, good, faults>>
  BY DEF BootFails, worldVars, snapdVars
<1>2. plan' = <<>> /\ reverting' = "" /\ faults' \in 0..MaxFaults
  BY <1>1 DEF BootInv, BootTypeOK, OnlyUpIsBusy
<1>3. QED
  BY <1>1, <1>2, DownStep

\* What has come up is what the disk says is being tried, or is current.
LEMMA ComesUpStep ==
  ASSUME BootInv, ComesUp
  PROVE  BootInv'
<1>1. /\ phase = "mounted" /\ phase' = "up" /\ bootOk' = FALSE
      /\ good' = good \cup {running.kernel, running.base}
      /\ UNCHANGED <<bl, bad, disk, plan, reverting, undoing, refresh, files, fresh, running, faults>>
  BY DEF ComesUp, worldVars, snapdVars
<1>2. plan = <<>> /\ plan' = <<>> /\ reverting = "" /\ reverting' = ""
  BY <1>1 DEF BootInv, OnlyUpIsBusy
<1>3. /\ disk.status # "try"
      /\ running.kernel = IF disk.status = "trying" THEN disk.try ELSE disk.kernel
      /\ running.base = IF disk.baseStatus = "trying" THEN disk.tryBase ELSE disk.base
      /\ running.mounted = running.kernel
  BY <1>1 DEF BootInv, KernelChosen, BaseChosen, MountsRunningKernel
<1>4. Told(disk)'
  BY <1>1, <1>3 DEF Told
<1>5. Runs(disk)'
  <2>1. Settled(disk) /\ disk.status \in BootStatuses /\ disk.baseStatus \in BootStatuses
    BY Facts
  <2>2. QED
    BY <1>1, <1>3, <2>1 DEF Settled, Runs, BootStatuses
<1>6. Settled(disk)' /\ disk' \in Disks /\ disk'.kernel \in good' /\ disk'.base \in good'
  BY <1>1, Facts DEF Settled
<1>7. disk' \in Fit'
  BY <1>4, <1>5, <1>6 DEF Fit, Fits
<1>8. good' \subseteq Snaps
  BY <1>1, Facts DEF BootInv, BootTypeOK, Snaps
<1>9. BootTypeOK'
  BY <1>1, <1>2, <1>8 DEF BootInv, BootTypeOK
<1>10. OldIsGood'
  BY <1>1 DEF BootInv, OldIsGood
<1>11. KernelChosen' /\ BaseChosen' /\ MountsRunningKernel' /\ UpIsGood'
  BY <1>1, <1>3 DEF KernelChosen, BaseChosen, MountsRunningKernel, UpIsGood
<1>12. QED
  BY <1>2, <1>7, <1>9, <1>10, <1>11, Quiet, Zenon

Refreshes == [kernel : [old : Kernels \cup {NoSnap}, new : Kernels \cup {NoSnap}],
              base : [old : Bases \cup {NoSnap}, new : Bases \cup {NoSnap}]]

\* snapd decides on the next writes, and makes none of them yet.
LEMMA StartsStep ==
  ASSUME BootInv, phase = "up",
         UNCHANGED <<bl, bad, disk, phase, running, bootOk, good, faults>>,
         plan' \in Seq(Fit'), disk \in Fit', reverting' \in Reverts,
         undoing' \subseteq {"kernel", "base"},
         refresh' \in Refreshes, files' \subseteq Snaps, fresh' \subseteq Snaps, OldIsGood'
  PROVE  BootInv'
<1>1. plan' \in Seq(Disks)
  <2>1. Fit' \subseteq Disks
    BY DEF Fit, Disks, BootStatuses
  <2>2. QED
    BY <2>1, SeqMonotone
<1>2. BootTypeOK'
  BY <1>1 DEF BootInv, BootTypeOK, Refreshes, Reverts
<1>3. KernelChosen' /\ BaseChosen' /\ MountsRunningKernel' /\ UpIsGood'
  BY DEF BootInv, KernelChosen, BaseChosen, MountsRunningKernel, UpIsGood
<1>4. OnlyUpIsBusy'
  BY DEF OnlyUpIsBusy
<1>5. disk' \in Fit'
  BY Zenon
<1>6. QED
  BY <1>2, <1>3, <1>4, <1>5, Zenon DEF BootInv

LEMMA EnsureBootOkStep ==
  ASSUME BootInv, EnsureBootOk
  PROVE  BootInv'
<1>1. /\ phase = "up" /\ ~bootOk /\ plan' = MarkPlan(disk)
      /\ UNCHANGED <<bl, bad, disk, reverting, undoing, phase, running, bootOk, refresh, files, fresh, good, faults>>
  BY DEF EnsureBootOk, Idle, worldVars
<1>2. /\ disk \in Disks /\ disk.kernel \in good /\ disk.base \in good
      /\ Settled(disk) /\ Runs(disk) /\ Told(disk)
      /\ running.kernel \in good /\ running.base \in good
  BY <1>1 DEF BootInv, Fit, Fits, UpIsGood
<1> DEFINE k == SuccessfulKernel(disk)
           b == SuccessfulBase(disk)
<1>3. k = disk.kernel \/ k = running.kernel
  BY <1>2 DEF SuccessfulKernel, Told
<1>4. b = disk.base \/ b = running.base
  BY <1>2 DEF SuccessfulBase, Told
<1> HIDE DEF k, b
<1>5. ASSUME NEW e \in Disks, e.status = "", e.kernel \in {disk.kernel, k},
             SameBase(e, disk) \/ (e.base = b /\ e.baseStatus = "")
      PROVE  e \in Fit
  <2>1. e.kernel \in good /\ e.base \in good
    BY <1>2, <1>3, <1>4, <1>5 DEF SameBase
  <2>2. Settled(e)
    BY <1>2, <1>5 DEF Settled, SameBase
  <2>3. Runs(e)
    BY <1>2, <1>3, <1>4, <1>5 DEF Runs, SameBase
  <2>4. Told(e)
    BY <1>2, <1>5 DEF Told, SameBase
  <2>5. QED
    BY <2>1, <2>2, <2>3, <2>4 DEF Fit, Fits
<1>6. MarkPlan(disk) \in Seq(Fit)
  BY <1>2, <1>5, MarkPlanSeq, BootAssumption DEF k, b
<1>7. Fit' = Fit
  BY <1>1 DEF Fit, Fits, Settled, Runs, Told, Disks, BootStatuses
<1>8. OldIsGood' /\ refresh' \in Refreshes
  BY <1>1 DEF BootInv, OldIsGood, BootTypeOK, Refreshes
<1>8a. files' \subseteq Snaps /\ fresh' \subseteq Snaps /\ undoing' \subseteq {"kernel", "base"}
  BY <1>1 DEF BootInv, BootTypeOK
<1>8b. reverting' \in Reverts
  BY <1>1 DEF BootInv, BootTypeOK, Reverts
<1>9. plan' \in Seq(Fit') /\ disk \in Fit'
  BY <1>1, <1>6, <1>7 DEF BootInv
<1>10. QED
  BY <1>1, <1>8, <1>8a, <1>8b, <1>9, StartsStep

LEMMA CommitStep ==
  ASSUME BootInv, Commit
  PROVE  BootInv'
<1>1. /\ phase = "up" /\ plan # <<>> /\ disk' = Head(plan) /\ plan' = Tail(plan)
      /\ UNCHANGED <<bl, bad, reverting, undoing, phase, running, refresh, files, fresh, good, faults>>
  BY DEF Commit, worldVars
<1>2. bootOk' \in BOOLEAN /\ (bootOk => bootOk')
  BY DEF Commit
<1>3. disk' \in Fit /\ plan' \in Seq(Fit)
  BY <1>1, HeadTailProperties DEF BootInv
<1>4. Fit \subseteq Fit'
  <2>1. SUFFICES ASSUME NEW d \in Fit PROVE d \in Fit'
    OBVIOUS
  <2>2. d \in Disks /\ Fits(d)
    BY <2>1 DEF Fit
  <2>3. /\ d.kernel \in good' /\ d.base \in good' /\ Settled(d)' /\ Runs(d)'
        /\ ~bootOk' => Told(d)'
    BY <1>1, <1>2, <2>2 DEF Fits, Settled, Runs, Told
  <2>4. QED
    BY <2>2, <2>3 DEF Fit, Fits
<1>5. disk' \in Fit' /\ plan' \in Seq(Fit')
  BY <1>3, <1>4, SeqMonotone
<1>6. disk' \in Disks /\ plan' \in Seq(Disks)
  BY <1>3, FitIsDisk, SeqMonotone
<1>7. BootTypeOK'
  BY <1>1, <1>2, <1>6 DEF BootInv, BootTypeOK
<1>8. OldIsGood'
  BY <1>1 DEF BootInv, OldIsGood
<1>9. KernelChosen' /\ BaseChosen' /\ MountsRunningKernel' /\ UpIsGood'
  BY <1>1 DEF BootInv, KernelChosen, BaseChosen, MountsRunningKernel, UpIsGood
<1>10. OnlyUpIsBusy'
  BY <1>1 DEF OnlyUpIsBusy
<1>11. QED
  BY <1>5, <1>7, <1>8, <1>9, <1>10, Zenon DEF BootInv

\* While nothing is to be marked.
LEMMA FitsMarked ==
  ASSUME phase' = "up", bootOk' = TRUE, NEW e \in Disks,
         e.kernel \in good', e.base \in good', Settled(e)', Runs(e)'
  PROVE  e \in Fit'
BY DEF Fit, Fits, Disks, BootStatuses

LEMMA RefreshKernelStep ==
  ASSUME BootInv, NEW k \in Kernels, RefreshKernel(k)
  PROVE  BootInv'
<1>1. /\ phase = "up" /\ bootOk = TRUE /\ plan' = TryKernelPlan(disk, k) /\ reverting' = ""
      /\ files' = files \cup {k} /\ fresh' = fresh \cup ({k} \ files) /\ undoing' = undoing
      /\ UNCHANGED <<bl, bad, disk, phase, running, bootOk, good, faults>>
  BY DEF RefreshKernel, Idle, Starts, worldVars, BootInv, BootTypeOK
<1>2. /\ disk \in Disks /\ disk.kernel \in good /\ disk.base \in good
      /\ Settled(disk) /\ Runs(disk) /\ disk.kernel \in Kernels
  BY <1>1, Facts DEF BootInv, Fit, Fits
<1>3. refresh \in Refreshes
  BY DEF BootInv, BootTypeOK, Refreshes
<1> DEFINE begins == [refresh EXCEPT !.kernel = [old |-> disk.kernel, new |-> k]]
<1>4. \/ /\ refresh'.kernel = [old |-> disk.kernel, new |-> k]
         /\ refresh'.base = refresh.base /\ refresh' \in Refreshes
         /\ k # disk.kernel
      \/ k = refresh.kernel.new /\ refresh' = refresh
  <2>1. \/ k # disk.kernel /\ refresh' = begins
        \/ k = refresh.kernel.new /\ refresh' = refresh
    BY Zenon DEF RefreshKernel
  <2>2. /\ begins.kernel = [old |-> disk.kernel, new |-> k]
        /\ begins.base = refresh.base /\ begins \in Refreshes
    BY <1>2, <1>3 DEF Refreshes
  <2> HIDE DEF begins
  <2>3. QED
    BY <2>1, <2>2, Zenon
<1> HIDE DEF begins
<1>5. refresh' \in Refreshes /\ OldIsGood'
  <2>1. OldIsGood
    BY DEF BootInv
  <2>2. CASE k = refresh.kernel.new /\ refresh' = refresh
    BY <1>1, <1>3, <2>1, <2>2 DEF OldIsGood
  <2>3. CASE /\ refresh'.kernel = [old |-> disk.kernel, new |-> k]
             /\ refresh'.base = refresh.base /\ refresh' \in Refreshes
             /\ k # disk.kernel
    <3>1. refresh'.kernel.old = disk.kernel /\ refresh'.kernel.new = k
      BY <2>3
    <3>2. good' = good
      BY <1>1
    <3>3. QED
      BY <1>2, <2>1, <2>3, <3>1, <3>2 DEF OldIsGood
  <2>4. QED
    BY <1>4, <2>2, <2>3
<1>6. refresh'.base = refresh.base /\ refresh'.kernel.new = k
  BY <1>4
<1>7. ASSUME NEW e \in Disks, SameBase(e, disk), e.kernel = disk.kernel,
             k = disk.kernel => e.status = "" \/ SameKernel(e, disk)
      PROVE  e \in Fit'
  <2>1. e.kernel \in good' /\ e.base \in good'
    BY <1>1, <1>2, <1>7 DEF SameBase
  <2>2. k = disk.kernel => refresh' = refresh
    BY <1>4
  <2>3. Settled(e)'
    BY <1>2, <1>6, <1>7, <2>2 DEF Settled, SameBase, SameKernel
  <2>4. Runs(e)'
    BY <1>1, <1>2, <1>6, <1>7, <2>2 DEF Runs, SameBase
  <2>5. QED
    BY <1>1, <2>1, <2>3, <2>4, FitsMarked
<1>8. TryKernelPlan(disk, k) \in Seq(Fit')
  BY <1>2, <1>7, TryKernelPlanSeq
<1>9. disk \in Fit'
  BY <1>2, <1>7 DEF SameBase, SameKernel
<1>10. files' \subseteq Snaps /\ fresh' \subseteq Snaps
  BY <1>1, Facts DEF Snaps
<1>10a. reverting' \in Reverts /\ undoing' \subseteq {"kernel", "base"}
  BY <1>1 DEF Reverts, BootInv, BootTypeOK
<1>11. QED
  BY <1>1, <1>5, <1>8, <1>9, <1>10, <1>10a, StartsStep

LEMMA RefreshBaseStep ==
  ASSUME BootInv, NEW b \in Bases, RefreshBase(b)
  PROVE  BootInv'
<1>1. /\ phase = "up" /\ bootOk = TRUE /\ plan' = TryBasePlan(disk, b) /\ reverting' = ""
      /\ files' = files \cup {b} /\ fresh' = fresh \cup ({b} \ files) /\ undoing' = undoing
      /\ UNCHANGED <<bl, bad, disk, phase, running, bootOk, good, faults>>
  BY DEF RefreshBase, Idle, Starts, worldVars, BootInv, BootTypeOK
<1>2. /\ disk \in Disks /\ disk.kernel \in good /\ disk.base \in good
      /\ Settled(disk) /\ Runs(disk) /\ disk.base \in Bases
  BY <1>1, Facts DEF BootInv, Fit, Fits
<1>3. refresh \in Refreshes
  BY DEF BootInv, BootTypeOK, Refreshes
<1> DEFINE begins == [refresh EXCEPT !.base = [old |-> disk.base, new |-> b]]
<1>4. \/ /\ refresh'.base = [old |-> disk.base, new |-> b]
         /\ refresh'.kernel = refresh.kernel /\ refresh' \in Refreshes
         /\ b # disk.base
      \/ b = refresh.base.new /\ refresh' = refresh
  <2>1. \/ b # disk.base /\ refresh' = begins
        \/ b = refresh.base.new /\ refresh' = refresh
    BY Zenon DEF RefreshBase
  <2>2. /\ begins.base = [old |-> disk.base, new |-> b]
        /\ begins.kernel = refresh.kernel /\ begins \in Refreshes
    BY <1>2, <1>3 DEF Refreshes
  <2> HIDE DEF begins
  <2>3. QED
    BY <2>1, <2>2, Zenon
<1> HIDE DEF begins
<1>5. refresh' \in Refreshes /\ OldIsGood'
  <2>1. OldIsGood
    BY DEF BootInv
  <2>2. CASE b = refresh.base.new /\ refresh' = refresh
    BY <1>1, <1>3, <2>1, <2>2 DEF OldIsGood
  <2>3. CASE /\ refresh'.base = [old |-> disk.base, new |-> b]
             /\ refresh'.kernel = refresh.kernel /\ refresh' \in Refreshes
             /\ b # disk.base
    <3>1. refresh'.base.old = disk.base /\ refresh'.base.new = b
      BY <2>3
    <3>2. good' = good
      BY <1>1
    <3>3. QED
      BY <1>2, <2>1, <2>3, <3>1, <3>2 DEF OldIsGood
  <2>4. QED
    BY <1>4, <2>2, <2>3
<1>6. refresh'.kernel = refresh.kernel /\ refresh'.base.new = b
  BY <1>4
<1>7. ASSUME NEW e \in Disks, SameKernel(e, disk), e.base = disk.base,
             b = disk.base => e.baseStatus = "" \/ SameBase(e, disk)
      PROVE  e \in Fit'
  <2>1. e.kernel \in good' /\ e.base \in good'
    BY <1>1, <1>2, <1>7 DEF SameKernel
  <2>2. b = disk.base => refresh' = refresh
    BY <1>4
  <2>3. Settled(e)'
    BY <1>2, <1>6, <1>7, <2>2 DEF Settled, SameBase, SameKernel
  <2>4. Runs(e)'
    BY <1>1, <1>2, <1>6, <1>7, <2>2 DEF Runs, SameKernel
  <2>5. QED
    BY <1>1, <2>1, <2>3, <2>4, FitsMarked
<1>8. TryBasePlan(disk, b) \in Seq(Fit')
  BY <1>2, <1>7, TryBasePlanSeq
<1>9. disk \in Fit'
  BY <1>2, <1>7 DEF SameBase, SameKernel
<1>10. files' \subseteq Snaps /\ fresh' \subseteq Snaps
  BY <1>1, Facts DEF Snaps
<1>10a. reverting' \in Reverts /\ undoing' \subseteq {"kernel", "base"}
  BY <1>1 DEF Reverts, BootInv, BootTypeOK
<1>11. QED
  BY <1>1, <1>5, <1>8, <1>9, <1>10, <1>10a, StartsStep

\* A refresh of a kernel is over; nothing is said of it any more.
LEMMA KernelOver ==
  ASSUME BootInv, Idle, bootOk, refresh' = [refresh EXCEPT !.kernel = NoRefresh],
         UNCHANGED <<phase, running, bootOk, good>>
  PROVE  /\ refresh' \in Refreshes /\ OldIsGood'
         /\ \A e \in Disks : SameBase(e, disk) /\ e.kernel \in good => e \in Fit'
<1>1. refresh \in Refreshes /\ phase = "up" /\ bootOk = TRUE
  BY DEF BootInv, BootTypeOK, Refreshes, Idle
<1>2. refresh' \in Refreshes /\ refresh'.kernel = NoRefresh /\ refresh'.base = refresh.base
  BY <1>1 DEF Refreshes, NoRefresh
<1>3. OldIsGood'
  BY <1>2 DEF BootInv, OldIsGood
<1>4. Settled(disk) /\ Runs(disk) /\ disk.base \in good
  BY <1>1 DEF BootInv, Fit, Fits
<1>5. ASSUME NEW e \in Disks, SameBase(e, disk), e.kernel \in good
      PROVE  e \in Fit'
  <2>1. Settled(e)' /\ Runs(e)'
    BY <1>2, <1>4, <1>5 DEF Settled, Runs, SameBase
  <2>2. e.kernel \in good' /\ e.base \in good'
    BY <1>4, <1>5 DEF SameBase
  <2>3. QED
    BY <1>1, <2>1, <2>2, FitsMarked
<1>6. QED
  BY <1>2, <1>3, <1>5

LEMMA BaseOver ==
  ASSUME BootInv, Idle, bootOk, refresh' = [refresh EXCEPT !.base = NoRefresh],
         UNCHANGED <<phase, running, bootOk, good>>
  PROVE  /\ refresh' \in Refreshes /\ OldIsGood'
         /\ \A e \in Disks : SameKernel(e, disk) /\ e.base \in good => e \in Fit'
<1>1. refresh \in Refreshes /\ phase = "up" /\ bootOk = TRUE
  BY DEF BootInv, BootTypeOK, Refreshes, Idle
<1>2. refresh' \in Refreshes /\ refresh'.base = NoRefresh /\ refresh'.kernel = refresh.kernel
  BY <1>1 DEF Refreshes, NoRefresh
<1>3. OldIsGood'
  BY <1>2 DEF BootInv, OldIsGood
<1>4. Settled(disk) /\ Runs(disk) /\ disk.kernel \in good
  BY <1>1 DEF BootInv, Fit, Fits
<1>5. ASSUME NEW e \in Disks, SameKernel(e, disk), e.base \in good
      PROVE  e \in Fit'
  <2>1. Settled(e)' /\ Runs(e)'
    BY <1>2, <1>4, <1>5 DEF Settled, Runs, SameKernel
  <2>2. e.kernel \in good' /\ e.base \in good'
    BY <1>4, <1>5 DEF SameKernel
  <2>3. QED
    BY <1>1, <2>1, <2>2, FitsMarked
<1>6. QED
  BY <1>2, <1>3, <1>5

LEMMA FinishKernelStep ==
  ASSUME BootInv, FinishKernel
  PROVE  BootInv'
<1>1. /\ Idle /\ bootOk /\ phase = "up"
      /\ refresh' = [refresh EXCEPT !.kernel = NoRefresh]
      /\ files' = files /\ fresh' = fresh \ Kernels /\ undoing' = undoing
      /\ plan' = <<>> /\ reverting' = ""
      /\ UNCHANGED <<bl, bad, disk, phase, running, bootOk, good, faults>>
  BY DEF FinishKernel, Idle, Starts, worldVars
<1>2. refresh' \in Refreshes /\ OldIsGood' /\ disk \in Fit'
  BY <1>1, KernelOver, Facts DEF SameBase
<1>3. plan' \in Seq(Fit')
  BY <1>1, EmptyIsSeq
<1>3a. files' \subseteq Snaps /\ fresh' \subseteq Snaps /\ undoing' \subseteq {"kernel", "base"}
  BY <1>1, Facts
<1>3b. reverting' \in Reverts
  BY <1>1 DEF Reverts
<1>4. QED
  BY <1>1, <1>2, <1>3, <1>3a, <1>3b, StartsStep

LEMMA UndoKernelStep ==
  ASSUME BootInv, UndoKernel
  PROVE  BootInv'
<1> DEFINE old == refresh.kernel.old
<1>1. /\ phase = "up" /\ bootOk = TRUE /\ refresh.kernel # NoRefresh /\ reverting' = "kernel"
      /\ plan' = RevertKernelPlan(disk, old) /\ undoing' = undoing \cup {"kernel"}
      /\ UNCHANGED <<bl, bad, disk, phase, running, bootOk, refresh, files, fresh, good, faults>>
  BY DEF UndoKernel, Idle, Starts, worldVars, BootInv, BootTypeOK
<1>2. old \in good /\ old \in Kernels /\ old # refresh.kernel.new
  BY <1>1 DEF BootInv, OldIsGood
<1>3. /\ disk \in Disks /\ disk.kernel \in good /\ disk.base \in good
      /\ Settled(disk) /\ Runs(disk)
  BY <1>1, Facts DEF BootInv, Fit, Fits
<1> HIDE DEF old
<1>4. ASSUME NEW e \in Disks, SameBase(e, disk), e.kernel = old \/ SameKernel(e, disk)
      PROVE  e \in Fit'
  <2>1. e.kernel \in good' /\ e.base \in good'
    BY <1>1, <1>2, <1>3, <1>4 DEF SameBase, SameKernel
  <2>2. Settled(e)'
    BY <1>1, <1>2, <1>3, <1>4 DEF Settled, SameBase, SameKernel
  <2>3. Runs(e)'
    BY <1>1, <1>2, <1>3, <1>4 DEF Runs, SameBase, SameKernel
  <2>4. QED
    BY <1>1, <2>1, <2>2, <2>3, FitsMarked
<1>5. disk \in Fit'
  BY <1>3, <1>4 DEF SameBase, SameKernel
<1>6. plan' \in Seq(Fit')
  BY <1>1, <1>2, <1>3, <1>4, RevertKernelPlanSeq
<1>7. files' \subseteq Snaps /\ fresh' \subseteq Snaps /\ undoing' \subseteq {"kernel", "base"}
  BY <1>1, Facts
<1>8. refresh' \in Refreshes /\ OldIsGood'
  BY <1>1 DEF BootInv, BootTypeOK, OldIsGood, Refreshes
<1>9. reverting' \in Reverts
  BY <1>1 DEF Reverts
<1>10. QED
  BY <1>1, <1>5, <1>6, <1>7, <1>8, <1>9, StartsStep

LEMMA FinishBaseStep ==
  ASSUME BootInv, FinishBase
  PROVE  BootInv'
<1>1. /\ Idle /\ bootOk /\ phase = "up"
      /\ refresh' = [refresh EXCEPT !.base = NoRefresh]
      /\ files' = files /\ fresh' = fresh \ Bases /\ undoing' = undoing
      /\ plan' = <<>> /\ reverting' = ""
      /\ UNCHANGED <<bl, bad, disk, phase, running, bootOk, good, faults>>
  BY DEF FinishBase, Idle, Starts, worldVars
<1>2. refresh' \in Refreshes /\ OldIsGood' /\ disk \in Fit'
  BY <1>1, BaseOver, Facts DEF SameKernel
<1>3. plan' \in Seq(Fit')
  BY <1>1, EmptyIsSeq
<1>3a. files' \subseteq Snaps /\ fresh' \subseteq Snaps /\ undoing' \subseteq {"kernel", "base"}
  BY <1>1, Facts
<1>3b. reverting' \in Reverts
  BY <1>1 DEF Reverts
<1>4. QED
  BY <1>1, <1>2, <1>3, <1>3a, <1>3b, StartsStep

LEMMA UndoBaseStep ==
  ASSUME BootInv, UndoBase
  PROVE  BootInv'
<1> DEFINE old == refresh.base.old
<1>1. /\ phase = "up" /\ bootOk = TRUE /\ refresh.base # NoRefresh /\ reverting' = "base"
      /\ plan' = RevertBasePlan(disk, old) /\ undoing' = undoing \cup {"base"}
      /\ UNCHANGED <<bl, bad, disk, phase, running, bootOk, refresh, files, fresh, good, faults>>
  BY DEF UndoBase, Idle, Starts, worldVars, BootInv, BootTypeOK
<1>2. old \in good /\ old \in Bases /\ old # refresh.base.new
  BY <1>1 DEF BootInv, OldIsGood
<1>3. /\ disk \in Disks /\ disk.kernel \in good /\ disk.base \in good
      /\ Settled(disk) /\ Runs(disk)
  BY <1>1, Facts DEF BootInv, Fit, Fits
<1> HIDE DEF old
<1>4. ASSUME NEW e \in Disks, SameKernel(e, disk), e.base = old \/ SameBase(e, disk)
      PROVE  e \in Fit'
  <2>1. e.kernel \in good' /\ e.base \in good'
    BY <1>1, <1>2, <1>3, <1>4 DEF SameBase, SameKernel
  <2>2. Settled(e)'
    BY <1>1, <1>2, <1>3, <1>4 DEF Settled, SameBase, SameKernel
  <2>3. Runs(e)'
    BY <1>1, <1>2, <1>3, <1>4 DEF Runs, SameBase, SameKernel
  <2>4. QED
    BY <1>1, <2>1, <2>2, <2>3, FitsMarked
<1>5. disk \in Fit'
  BY <1>3, <1>4 DEF SameBase, SameKernel
<1>6. plan' \in Seq(Fit')
  BY <1>1, <1>2, <1>3, <1>4, RevertBasePlanSeq
<1>7. files' \subseteq Snaps /\ fresh' \subseteq Snaps /\ undoing' \subseteq {"kernel", "base"}
  BY <1>1, Facts
<1>8. refresh' \in Refreshes /\ OldIsGood'
  BY <1>1 DEF BootInv, BootTypeOK, OldIsGood, Refreshes
<1>9. reverting' \in Reverts
  BY <1>1 DEF Reverts
<1>10. QED
  BY <1>1, <1>5, <1>6, <1>7, <1>8, <1>9, StartsStep

\* Files are removed, and nothing else.
LEMMA RemoveStep ==
  ASSUME BootInv, NEW s, UndoMountSnap(s) \/ GarbageCollect(s)
  PROVE  BootInv'
<1>1. /\ phase = "up" /\ plan' = <<>> /\ reverting' = "" /\ undoing' = undoing
      /\ files' = files \ {s} /\ fresh' \in {fresh, fresh \ {s}} /\ refresh' = refresh
      /\ UNCHANGED <<bl, bad, disk, phase, running, bootOk, good, faults>>
  BY DEF UndoMountSnap, GarbageCollect, Idle, Starts, worldVars
<1>2. Fit' = Fit
  <2>1. UNCHANGED <<refresh, phase, running, bootOk, good>>
    BY <1>1
  <2>2. QED
    BY <2>1 DEF Fit, Fits, Settled, Runs, Told, Disks, BootStatuses
<1>3. refresh' \in Refreshes /\ OldIsGood' /\ disk \in Fit'
  BY <1>1, <1>2 DEF BootInv, BootTypeOK, OldIsGood, Refreshes
<1>4. plan' \in Seq(Fit')
  BY <1>1, EmptyIsSeq
<1>5. files' \subseteq Snaps /\ fresh' \subseteq Snaps /\ undoing' \subseteq {"kernel", "base"}
  BY <1>1, Facts
<1>6. reverting' \in Reverts
  BY <1>1 DEF Reverts
<1>7. QED
  BY <1>1, <1>3, <1>4, <1>5, <1>6, StartsStep

LEMMA RebootStep ==
  ASSUME BootInv, Reboot
  PROVE  BootInv'
<1>1. /\ plan = <<>> /\ reverting = "" /\ phase' = "off"
      /\ UNCHANGED <<bl, bad, disk, plan, reverting, undoing, running, bootOk, refresh, files, fresh, good, faults>>
  BY DEF Reboot, Idle, worldVars, snapdVars
<1>2. plan' = <<>> /\ reverting' = "" /\ faults' \in 0..MaxFaults
  BY <1>1 DEF BootInv, BootTypeOK, OnlyUpIsBusy
<1>3. QED
  BY <1>1, <1>2, DownStep

LEMMA FaultFacts ==
  ASSUME BootInv, Fault
  PROVE  /\ faults' \in 0..MaxFaults /\ plan' = <<>>
         /\ UNCHANGED <<bl, bad, disk, running, files, fresh, good>>
<1>1. faults \in 0..MaxFaults /\ faults < MaxFaults /\ faults' = faults + 1
  BY DEF BootInv, BootTypeOK, Fault
<1>2. MaxFaults \in Nat
  BY BootAssumption DEF BootAssumption
<1>3. faults' \in 0..MaxFaults
  BY <1>1, <1>2
<1>4. QED
  BY <1>3 DEF Fault, worldVars

LEMMA PowerCutStep ==
  ASSUME BootInv, PowerCut
  PROVE  BootInv'
<1>1. /\ Fault /\ phase' = "off" /\ bootOk' = bootOk
      /\ reverting' = "" /\ UNCHANGED <<undoing, refresh>>
  BY DEF PowerCut, Interrupted
<1>2. QED
  BY <1>1, FaultFacts, DownStep

\* Refreshes that are over say less of the disk.
EndedRefreshes == {refresh, [refresh EXCEPT !.kernel = NoRefresh], [refresh EXCEPT !.base = NoRefresh]}

\* A commit that ends in the middle leaves contents it could have gone on from.
LEMMA CutShort ==
  ASSUME BootInv, phase = "up", phase' = phase, bootOk' \in BOOLEAN, bootOk => bootOk',
         faults' \in 0..MaxFaults, plan' = <<>>, reverting' = "",
         undoing' \subseteq undoing, refresh' \in EndedRefreshes,
         UNCHANGED <<bl, bad, disk, running, files, fresh, good>>
  PROVE  BootInv'
<1>1. refresh \in Refreshes
  BY DEF BootInv, BootTypeOK, Refreshes
<1> DEFINE Over(r) == /\ r \in Refreshes
                      /\ r.kernel \in {refresh.kernel, NoRefresh}
                      /\ r.base \in {refresh.base, NoRefresh}
<1>2. Over(refresh')
  <2>1. Over(refresh)
    BY <1>1
  <2>2. Over([refresh EXCEPT !.kernel = NoRefresh])
    BY <1>1 DEF Refreshes, NoRefresh
  <2>3. Over([refresh EXCEPT !.base = NoRefresh])
    BY <1>1 DEF Refreshes, NoRefresh
  <2> HIDE DEF Over
  <2>4. QED
    BY <2>1, <2>2, <2>3, Zenon DEF EndedRefreshes
<1>3. disk \in Disks /\ Fits(disk)
  BY DEF BootInv, Fit
<1>4. Settled(disk)' /\ Runs(disk)' /\ (~bootOk' => Told(disk)')
  BY <1>2, <1>3 DEF Fits, Settled, Runs, Told
<1>5. disk'.kernel \in good' /\ disk'.base \in good'
  BY <1>3 DEF Fits
<1>6. Fits(disk)'
  BY <1>4, <1>5 DEF Fits
<1>7. disk' \in Fit' /\ plan' \in Seq(Fit')
  <2>1. disk' \in Disks' /\ disk' \in Fit'
    BY <1>3, <1>6 DEF Fit, Disks, BootStatuses
  <2>2. plan' \in Seq(Fit')
    BY EmptyIsSeq
  <2>3. QED
    BY <2>1, <2>2
<1>8. OldIsGood'
  BY <1>2 DEF BootInv, OldIsGood
<1>9. reverting' \in Reverts /\ undoing' \subseteq {"kernel", "base"}
  BY Facts DEF Reverts
<1>10. BootTypeOK'
  <2>1. plan' \in Seq(Disks)
    BY EmptyIsSeq, Zenon
  <2>2. refresh' \in Refreshes
    BY <1>2
  <2> HIDE DEF Over
  <2>3. QED
    BY <1>9, <2>1, <2>2, Zenon DEF BootInv, BootTypeOK, Refreshes, Reverts
<1>11. KernelChosen' /\ BaseChosen' /\ MountsRunningKernel' /\ UpIsGood'
  BY DEF BootInv, KernelChosen, BaseChosen, MountsRunningKernel, UpIsGood
<1>12. QED
  BY <1>7, <1>8, <1>10, <1>11, Quiet, Zenon

LEMMA KilledStep ==
  ASSUME BootInv, Killed
  PROVE  BootInv'
<1>1. /\ Fault /\ phase' = phase /\ bootOk' = bootOk
      /\ reverting' = "" /\ UNCHANGED <<undoing, refresh>>
  BY DEF Killed, Interrupted
<1>2. bootOk \in BOOLEAN /\ phase = "up"
  BY DEF BootInv, BootTypeOK, OnlyUpIsBusy, Killed
<1>3. refresh' \in EndedRefreshes /\ undoing' \subseteq undoing
  BY <1>1 DEF EndedRefreshes
<1>4. QED
  BY <1>1, <1>2, <1>3, FaultFacts, CutShort

LEMMA ReturnsFacts ==
  ASSUME UndoReturns
  PROVE  refresh' \in EndedRefreshes /\ undoing' \subseteq undoing /\ reverting' = ""
BY DEF UndoReturns, EndedRefreshes

LEMMA WriteFailsStep ==
  ASSUME BootInv, WriteFails
  PROVE  BootInv'
<1>1. Fault /\ UndoReturns /\ phase' = phase /\ bootOk' = TRUE
  BY DEF WriteFails
<1>2. phase = "up"
  BY DEF BootInv, OnlyUpIsBusy, WriteFails
<1>3. QED
  BY <1>1, <1>2, FaultFacts, ReturnsFacts, CutShort

LEMMA UndoneStep ==
  ASSUME BootInv, Undone
  PROVE  BootInv'
<1>1. /\ UndoReturns /\ phase = "up" /\ plan' = <<>>
      /\ UNCHANGED <<bl, bad, disk, phase, running, bootOk, files, fresh, good, faults>>
  BY DEF Undone, worldVars
<1>2. faults' \in 0..MaxFaults /\ bootOk \in BOOLEAN
  BY <1>1 DEF BootInv, BootTypeOK
<1>3. QED
  BY <1>1, <1>2, ReturnsFacts, CutShort

LEMMA BootStutter ==
  ASSUME BootInv, UNCHANGED bootVars
  PROVE  BootInv'
<1>1. UNCHANGED <<bl, bad, disk, plan, reverting, undoing, phase, running, bootOk, refresh, files, fresh, good, faults>>
  BY DEF bootVars
<1>2. Fit' = Fit
  BY <1>1 DEF Fit, Fits, Settled, Runs, Told, Disks, BootStatuses
<1>3. BootTypeOK' /\ OldIsGood'
  BY <1>1 DEF BootInv, BootTypeOK, OldIsGood
<1>4. KernelChosen' /\ BaseChosen' /\ MountsRunningKernel' /\ UpIsGood' /\ OnlyUpIsBusy'
  BY <1>1 DEF BootInv, KernelChosen, BaseChosen, MountsRunningKernel, UpIsGood, OnlyUpIsBusy
<1>5. disk' \in Fit' /\ plan' \in Seq(Fit')
  BY <1>1, <1>2 DEF BootInv
<1>6. QED
  BY <1>3, <1>4, <1>5, Zenon DEF BootInv

LEMMA BootPreserved == BootInv /\ [BootNext]_bootVars => BootInv'
<1> SUFFICES ASSUME BootInv, [BootNext]_bootVars PROVE BootInv'
  OBVIOUS
<1>1. CASE BootStep
  BY <1>1, BootloaderStep, SelectBaseStep, SelectKernelStep, BootFailsStep, ComesUpStep DEF BootStep
<1>2. CASE EnsureBootOk \/ Commit
  BY <1>2, EnsureBootOkStep, CommitStep
<1>3. CASE \E k \in Kernels : RefreshKernel(k)
  BY <1>3, RefreshKernelStep
<1>4. CASE \E b \in Bases : RefreshBase(b)
  BY <1>4, RefreshBaseStep
<1>5. CASE FinishKernel \/ FinishBase \/ UndoKernel \/ UndoBase \/ Undone
  BY <1>5, FinishKernelStep, FinishBaseStep, UndoKernelStep, UndoBaseStep, UndoneStep
<1>6. CASE \E s \in Snaps : UndoMountSnap(s) \/ GarbageCollect(s)
  BY <1>6, RemoveStep
<1>7. CASE Reboot \/ PowerCut \/ Killed \/ WriteFails
  BY <1>7, RebootStep, PowerCutStep, KilledStep, WriteFailsStep
<1>8. CASE UNCHANGED bootVars
  BY <1>8, BootStutter
<1>9. QED
  BY <1>1, <1>2, <1>3, <1>4, <1>5, <1>6, <1>7, <1>8 DEF BootNext

-----------------------------------------------------------------------------
(* Theorems.                                                               *)

\* Whatever is refreshed, undone and cut short, the invariant holds.
THEOREM BootInvariant == BootSpec => []BootInv
<1>1. BootInit => BootInv
  BY BootInitially
<1>2. BootInv /\ [BootNext]_bootVars => BootInv'
  BY BootPreserved
<1>3. QED
  BY <1>1, <1>2, PTL DEF BootSpec

\* The disk, the plans of snapd, the refreshes and the running system keep their
\* types: no write ever leaves a link or the modeenv without a kernel or a base.
THEOREM BootTypeCorrect == BootSpec => []BootTypeOK
<1>1. BootInv => BootTypeOK
  BY DEF BootInv
<1>2. QED
  BY <1>1, BootInvariant, PTL

\* Only kernels and bases that have come up are ever made current, whatever the
\* order in which marks, tries and undos are written and cut short.
THEOREM OnlyGoodIsCurrent == BootSpec => []CurrentIsGood
<1>1. BootInv => CurrentIsGood
  BY Facts DEF CurrentIsGood
<1>2. QED
  BY <1>1, BootInvariant, PTL

\* The initramfs always mounts the snap of the kernel that was started.
THEOREM MountsWhatRuns == BootSpec => []MountsRunningKernel
<1>1. BootInv => MountsRunningKernel
  BY DEF BootInv
<1>2. QED
  BY <1>1, BootInvariant, PTL

\* FinishRestart lets a refresh go on only if the system runs the new revision.
THEOREM FinishesWhatRuns == BootSpec => FinishedIsRunning
<1>1. BootInv /\ FinishKernel => running.kernel = refresh.kernel.new
  BY DEF BootInv, Fit, Fits, Runs, FinishKernel, Idle
<1>2. BootInv /\ FinishBase => running.base = refresh.base.new
  BY DEF BootInv, Fit, Fits, Runs, FinishBase, Idle
<1>3. BootInv /\ [BootNext]_bootVars =>
        [/\ FinishKernel => running.kernel = refresh.kernel.new
         /\ FinishBase => running.base = refresh.base.new]_bootVars
  BY <1>1, <1>2
<1>4. QED
  BY <1>3, BootInvariant, PTL DEF BootSpec, FinishedIsRunning

-----------------------------------------------------------------------------
(* A device that boots.                                                    *)

\* From these contents the bootloader and the initramfs find what they need when
\* fs is installed: the current kernel and base are, the modeenv and the sealed
\* key know the kernel, and both know the one that is tried.
Boots(d, fs) ==
    /\ d.kernel \in fs /\ d.base \in fs
    /\ d.kernel \in d.kernels /\ Unseals(d, d.kernel)
    /\ d.status # "" /\ d.try # NoSnap => d.try \in fs /\ d.try \in d.kernels /\ Unseals(d, d.try)
    /\ d.baseStatus # "" /\ d.tryBase # NoSnap => d.tryBase \in fs

Bootable(fs) == {d \in Disks : Boots(d, fs)}

\* What the undo of mount-snap may remove at any moment, and what is left then.
Leaving ==
    {s \in fresh : /\ s \in Kernels => refresh.kernel = NoRefresh
                   /\ s \in Bases => refresh.base = NoRefresh}

Kept == files \ Leaving

\* What will be left when the running undo is over, too.
Reverted == IF reverting = "kernel" THEN Kernels ELSE Bases

Stays == Kept \ (fresh \cap Reverted)

\* A refresh can be undone: what it started from is still installed.
OldIsInstalled ==
    /\ refresh.kernel # NoRefresh => refresh.kernel.old \in files /\ refresh.kernel.old \notin fresh
    /\ refresh.base # NoRefresh => refresh.base.old \in files /\ refresh.base.old \notin fresh

\* The last write of the running undo, if it has not been made yet.
Ends == IF plan = <<>> THEN disk ELSE Last(plan)

\* Every write leads to contents that boot without the files that may be removed,
\* but for the ones that revert the kernel: of those only the last does.  The last
\* write of an undo does not need the files that this undo will remove.
StuckInv ==
    /\ NeverStuck
    /\ reverting # "kernel" => disk \in Bootable(Kept) /\ plan \in Seq(Bootable(Kept))
    /\ reverting # "" => Ends \in Bootable(Stays)
    /\ OldIsInstalled

LEMMA BootableGrows ==
  ASSUME NEW fs, NEW gs, fs \subseteq gs
  PROVE  Bootable(fs) \subseteq Bootable(gs)
BY DEF Bootable, Boots

LEMMA BootableIs ==
  ASSUME NEW fs, NEW d \in Disks, Boots(d, fs)
  PROVE  d \in Bootable(fs)
BY DEF Bootable

\* Between the write of the modeenv and the reseal, the key knows the kernels of
\* before; what boots must be known to both.
LEMMA WriteModeenvBoots ==
  ASSUME NEW fs, NEW d \in Disks, NEW m \in Disks,
         d.kernel \in fs, m.base \in fs,
         d.kernel \in m.kernels, Unseals(d, d.kernel),
         d.status # "" /\ d.try # NoSnap =>
             d.try \in fs /\ d.try \in m.kernels /\ Unseals(d, d.try),
         m.baseStatus # "" /\ m.tryBase # NoSnap => m.tryBase \in fs
  PROVE  WriteModeenv(d, m) \in Seq(Bootable(fs))
<1> DEFINE w == [d EXCEPT !.kernels = m.kernels, !.base = m.base, !.tryBase = m.tryBase,
                          !.baseStatus = m.baseStatus]
           v == [w EXCEPT !.sealed = IF bl = "grub" THEN m.kernels ELSE @]
<1>1. /\ w \in Disks /\ SameKernel(w, d) /\ SameBase(w, m)
      /\ w.kernels = m.kernels /\ w.sealed = d.sealed
  BY DEF Disks, SameKernel, SameBase
<1>2. m.kernels \in SUBSET Kernels
  BY DEF Disks
<1> HIDE DEF w
<1>3. /\ v \in Disks /\ SameKernel(v, d) /\ SameBase(v, m)
      /\ v.kernels = m.kernels /\ (bl = "grub" => v.sealed = m.kernels)
  BY <1>1, <1>2 DEF Disks, SameKernel, SameBase
<1> HIDE DEF v
<1>4. Boots(w, fs)
  BY <1>1 DEF Boots, SameKernel, SameBase, Unseals
<1>5. Boots(v, fs)
  BY <1>3 DEF Boots, SameKernel, SameBase, Unseals
<1>6. w \in Bootable(fs) /\ v \in Bootable(fs)
  BY <1>1, <1>3, <1>4, <1>5, BootableIs
<1>7. WriteModeenv(d, m) = <<w, v>>
  BY DEF WriteModeenv, w, v
<1>8. QED
  BY <1>6, <1>7, TwoWrites

\* What the modeenv and the key say at the end.
LEMMA WriteModeenvLast ==
  ASSUME NEW d \in Disks, NEW m \in Disks
  PROVE  LET e == Last(WriteModeenv(d, m))
         IN  /\ e \in Disks /\ SameKernel(e, d) /\ SameBase(e, m)
             /\ e.kernels = m.kernels /\ (bl = "grub" => e.sealed = m.kernels)
<1> DEFINE w == [d EXCEPT !.kernels = m.kernels, !.base = m.base, !.tryBase = m.tryBase,
                          !.baseStatus = m.baseStatus]
           v == [w EXCEPT !.sealed = IF bl = "grub" THEN m.kernels ELSE @]
<1>1. w \in Disks /\ SameKernel(w, d) /\ SameBase(w, m) /\ w.kernels = m.kernels
  BY DEF Disks, SameKernel, SameBase
<1>2. m.kernels \in SUBSET Kernels
  BY DEF Disks
<1> HIDE DEF w
<1>3. /\ v \in Disks /\ SameKernel(v, d) /\ SameBase(v, m)
      /\ v.kernels = m.kernels /\ (bl = "grub" => v.sealed = m.kernels)
  BY <1>1, <1>2 DEF Disks, SameKernel, SameBase
<1> HIDE DEF v
<1>4. WriteModeenv(d, m) = <<w, v>>
  BY DEF WriteModeenv, w, v
<1>5. Last(<<w, v>>) = v
  BY <1>1, <1>3, TwoWrites
<1>6. QED
  BY <1>3, <1>4, <1>5

\* A kernel is marked while the modeenv and the key know both kernels, and only
\* then forget the old one.
LEMMA MarkPlanBoots ==
  ASSUME NEW fs, NEW d \in Bootable(fs), BootAssumption
  PROVE  MarkPlan(d) \in Seq(Bootable(fs))
<1> DEFINE k == SuccessfulKernel(d)
           b == SuccessfulBase(d)
           m == [d EXCEPT !.kernels = {k}, !.base = b, !.tryBase = NoSnap, !.baseStatus = ""]
           x == [d EXCEPT !.status = ""]
           y == [d EXCEPT !.status = "", !.kernel = k]
           z == [d EXCEPT !.status = "", !.kernel = k, !.try = NoSnap]
           marked == MarkSuccessfulKernel(d, k)
<1>1. d \in Disks /\ Boots(d, fs)
  BY DEF Bootable
<1>2. k \in Kernels /\ b \in Bases
  BY <1>1 DEF SuccessfulKernel, SuccessfulBase, Disks
<1>3. k \in fs /\ k \in d.kernels /\ Unseals(d, k)
  BY <1>1 DEF SuccessfulKernel, Boots
<1>4. b \in fs
  BY <1>1 DEF SuccessfulBase, Boots
<1> HIDE DEF k, b
<1>5. /\ m \in Disks /\ m.base = b /\ m.baseStatus = "" /\ m.tryBase = NoSnap
      /\ m.kernels = {k}
  BY <1>1, <1>2 DEF Disks, BootStatuses
<1>6. /\ x \in Disks /\ SameBase(x, d) /\ x.kernel = d.kernel /\ x.try = d.try /\ x.status = ""
      /\ x.kernels = d.kernels /\ x.sealed = d.sealed
  BY <1>1 DEF Disks, SameBase, BootStatuses
<1>7. /\ y \in Disks /\ SameBase(y, d) /\ y.kernel = k /\ y.try = d.try /\ y.status = ""
      /\ y.kernels = d.kernels /\ y.sealed = d.sealed
  BY <1>1, <1>2 DEF Disks, SameBase, BootStatuses
<1>8. /\ z \in Disks /\ SameBase(z, d) /\ z.kernel = k /\ z.try = NoSnap /\ z.status = ""
      /\ z.kernels = d.kernels /\ z.sealed = d.sealed
  BY <1>1, <1>2 DEF Disks, SameBase, BootStatuses
<1>9. MarkPlan(d) = marked \o WriteModeenv(Last(marked), m)
  BY DEF MarkPlan, k, b
<1>10. marked = IF bl = "env" THEN <<z>> ELSE <<x, y, z>>
  BY DEF MarkSuccessfulKernel
<1> HIDE DEF m, x, y, z, marked
<1>11. Boots(x, fs) /\ Boots(y, fs) /\ Boots(z, fs)
  <2>1. Boots(x, fs)
    BY <1>1, <1>6 DEF Boots, SameBase, Unseals
  <2>2. Boots(y, fs)
    BY <1>1, <1>3, <1>7 DEF Boots, SameBase, Unseals
  <2>3. Boots(z, fs)
    BY <1>1, <1>3, <1>8 DEF Boots, SameBase, Unseals
  <2>4. QED
    BY <2>1, <2>2, <2>3
<1>12. x \in Bootable(fs) /\ y \in Bootable(fs) /\ z \in Bootable(fs)
  BY <1>6, <1>7, <1>8, <1>11, BootableIs
<1>13. marked \in Seq(Bootable(fs)) /\ Last(marked) = z
  BY <1>10, <1>12, OneWrite, ThreeWrites
<1>14. WriteModeenv(z, m) \in Seq(Bootable(fs))
  <2>1. Unseals(z, z.kernel)
    BY <1>3, <1>8 DEF Unseals
  <2>2. QED
    BY <1>3, <1>4, <1>5, <1>8, <2>1, WriteModeenvBoots
<1>15. QED
  BY <1>9, <1>13, <1>14, WritesAfterWrites

\* The modeenv and the key know a kernel before the link to try and the status
\* name it.
LEMMA TryKernelPlanBoots ==
  ASSUME NEW fs, NEW d \in Bootable(fs), NEW k \in Kernels, k \in fs
  PROVE  TryKernelPlan(d, k) \in Seq(Bootable(fs))
<1> DEFINE m == [d EXCEPT !.kernels = @ \cup {k}]
           modeenv == WriteModeenv(d, m)
           e == Last(modeenv)
           x == IF k = e.kernel THEN e ELSE [e EXCEPT !.try = k]
           y == [x EXCEPT !.status = IF k = e.kernel THEN "" ELSE "try"]
<1>1. d \in Disks /\ Boots(d, fs)
  BY DEF Bootable
<1>2. m \in Disks /\ SameBase(m, d) /\ m.kernels = d.kernels \cup {k}
  BY <1>1 DEF Disks, SameBase
<1>3. TryKernelPlan(d, k) = modeenv \o SetNextKernel(e, k)
  BY DEF TryKernelPlan
<1> HIDE DEF m
<1>4. modeenv \in Seq(Bootable(fs))
  <2>1. /\ d.kernel \in fs /\ m.base \in fs /\ d.kernel \in m.kernels /\ Unseals(d, d.kernel)
        /\ d.status # "" /\ d.try # NoSnap =>
               d.try \in fs /\ d.try \in m.kernels /\ Unseals(d, d.try)
        /\ m.baseStatus # "" /\ m.tryBase # NoSnap => m.tryBase \in fs
    BY <1>1, <1>2 DEF Boots, SameBase
  <2>2. QED
    BY <1>1, <1>2, <2>1, WriteModeenvBoots
<1>5. /\ e \in Disks /\ SameKernel(e, d) /\ SameBase(e, m)
      /\ e.kernels = m.kernels /\ (bl = "grub" => e.sealed = m.kernels)
  BY <1>1, <1>2, WriteModeenvLast
<1>6. SetNextKernel(e, k) = IF bl = "env" THEN <<y>> ELSE <<x, y>>
  BY DEF SetNextKernel
<1> HIDE DEF modeenv, e
<1>7. /\ e.kernel \in fs /\ e.base \in fs
      /\ e.kernel \in e.kernels /\ Unseals(e, e.kernel)
      /\ k \in e.kernels /\ Unseals(e, k)
      /\ Boots(e, fs)
  BY <1>1, <1>2, <1>5 DEF Boots, SameKernel, SameBase, Unseals
<1>8. /\ x \in Disks /\ SameBase(x, e) /\ x.kernel = e.kernel
      /\ x.kernels = e.kernels /\ x.sealed = e.sealed
      /\ x = e \/ (x.try = k /\ x.status = e.status)
  BY <1>5 DEF Disks, SameBase
<1> HIDE DEF x
<1>9. /\ y \in Disks /\ SameBase(y, e) /\ y.kernel = e.kernel /\ y.try = x.try
      /\ y.kernels = e.kernels /\ y.sealed = e.sealed
      /\ y.status = "" \/ k # e.kernel
  BY <1>8 DEF Disks, SameBase, BootStatuses
<1> HIDE DEF y
<1>10. Boots(x, fs)
  BY <1>7, <1>8 DEF Boots, SameBase, Unseals
<1>11. k # e.kernel => x.try = k
  BY <1>5 DEF x, Disks
<1>12. y.status = "" \/ y.try = k
  BY <1>9, <1>11
<1>13. Boots(y, fs)
  BY <1>7, <1>9, <1>12 DEF Boots, SameBase, Unseals
<1>14. x \in Bootable(fs) /\ y \in Bootable(fs)
  BY <1>8, <1>9, <1>10, <1>13, BootableIs
<1>15. SetNextKernel(e, k) \in Seq(Bootable(fs))
  BY <1>6, <1>14, OneWrite, TwoWrites
<1>16. QED
  BY <1>3, <1>4, <1>15, WritesAfterWrites

LEMMA LastOfConcat ==
  ASSUME NEW S, NEW s \in Seq(S), NEW t \in Seq(S), t # <<>>
  PROVE  Last(s \o t) = Last(t) /\ s \o t # <<>>
<1>1. Len(t) \in Nat /\ Len(t) # 0 /\ Len(s) \in Nat
  BY EmptySeq, LenProperties
<1>2. Len(s \o t) = Len(s) + Len(t)
  BY ConcatProperties
<1>3. (s \o t)[Len(s) + Len(t)] = t[Len(t)]
  BY <1>1, ConcatProperties
<1>4. s \o t # <<>>
  BY <1>1, <1>2, EmptySeq
<1>5. QED
  BY <1>2, <1>3, <1>4 DEF Last

\* The modeenv forgets the kernel that runs before the link to it is replaced; once
\* all is written the old kernel is the only one, and known to all.
LEMMA RevertKernelPlanEnds ==
  ASSUME NEW fs, NEW d \in Disks, NEW k \in Kernels, k \in fs,
         d.base \in fs, d.baseStatus # "" /\ d.tryBase # NoSnap => d.tryBase \in fs
  PROVE  LET p == RevertKernelPlan(d, k)
         IN  p # <<>> /\ Last(p) \in Bootable(fs)
<1> DEFINE m == [d EXCEPT !.kernels = {k}]
           modeenv == WriteModeenv(d, m)
           e == Last(modeenv)
           u == [e EXCEPT !.kernel = k, !.status = ""]
           x == [e EXCEPT !.kernel = k]
           y == [e EXCEPT !.kernel = k, !.try = NoSnap]
           z == [e EXCEPT !.kernel = k, !.try = NoSnap, !.status = ""]
           set == SetNextKernelNoTry(e, k)
<1>1. d \in Disks
  OBVIOUS
<1>2. m \in Disks /\ SameBase(m, d) /\ m.kernels = {k}
  BY <1>1 DEF Disks, SameBase
<1>3. RevertKernelPlan(d, k) = modeenv \o set
  BY DEF RevertKernelPlan
<1> HIDE DEF m
<1>4. \A f \in Disks : SameKernel(f, d) /\ SameBase(f, m) => f \in Disks
  OBVIOUS
<1>5. modeenv \in Seq(Disks)
  BY <1>1, <1>2, <1>4, WriteModeenvSeq
<1>6. /\ e \in Disks /\ SameKernel(e, d) /\ SameBase(e, m)
      /\ e.kernels = {k} /\ (bl = "grub" => e.sealed = {k})
  BY <1>1, <1>2, WriteModeenvLast
<1>7. set = IF bl = "env" THEN <<u>> ELSE <<x, y, z>>
  BY DEF SetNextKernelNoTry
<1> HIDE DEF modeenv, e, set
<1>8. /\ u \in Disks /\ SameBase(u, e) /\ u.kernel = k /\ u.try = e.try /\ u.status = ""
      /\ u.kernels = {k} /\ (bl = "grub" => u.sealed = {k})
  BY <1>6 DEF Disks, SameBase, BootStatuses
<1>9. /\ z \in Disks /\ SameBase(z, e) /\ z.kernel = k /\ z.try = NoSnap /\ z.status = ""
      /\ z.kernels = {k} /\ (bl = "grub" => z.sealed = {k})
  BY <1>6 DEF Disks, SameBase, BootStatuses
<1>10. x \in Disks /\ y \in Disks
  BY <1>6 DEF Disks
<1> HIDE DEF u, x, y, z
<1>11. Boots(u, fs)
  BY <1>2, <1>6, <1>8 DEF Boots, SameBase, SameKernel, Unseals
<1>12. Boots(z, fs)
  BY <1>2, <1>6, <1>9 DEF Boots, SameBase, SameKernel, Unseals
<1>13. u \in Bootable(fs) /\ z \in Bootable(fs)
  BY <1>8, <1>9, <1>11, <1>12, BootableIs
<1>14. set \in Seq(Disks) /\ Last(set) \in Bootable(fs)
  <2>1. <<u>> \in Seq(Disks) /\ Last(<<u>>) = u
    BY <1>8, OneWrite
  <2>2. <<x, y, z>> \in Seq(Disks) /\ Last(<<x, y, z>>) = z
    <3>1. x \in Disks /\ y \in Disks /\ z \in Disks
      BY <1>9, <1>10
    <3>2. QED
      BY <3>1, ThreeWrites, Zenon
  <2>3. QED
    BY <1>7, <1>13, <2>1, <2>2
<1>15. set # <<>>
  BY <1>7
<1>16. QED
  BY <1>3, <1>5, <1>14, <1>15, LastOfConcat

LEMMA TryBasePlanBoots ==
  ASSUME NEW fs, NEW d \in Bootable(fs), NEW b \in Bases, b \in fs
  PROVE  TryBasePlan(d, b) \in Seq(Bootable(fs))
<1> DEFINE m == IF b = d.base THEN [d EXCEPT !.baseStatus = ""]
                ELSE [d EXCEPT !.tryBase = b, !.baseStatus = "try"]
<1>1. d \in Disks /\ Boots(d, fs)
  BY DEF Bootable
<1>2. /\ m \in Disks /\ m.base = d.base /\ m.kernels = d.kernels
      /\ m.baseStatus = "" \/ m.tryBase = b
  BY <1>1 DEF Disks, BootStatuses
<1>3. TryBasePlan(d, b) = WriteModeenv(d, m)
  BY DEF TryBasePlan
<1> HIDE DEF m
<1>4. /\ d.kernel \in fs /\ m.base \in fs /\ d.kernel \in m.kernels /\ Unseals(d, d.kernel)
      /\ d.status # "" /\ d.try # NoSnap =>
             d.try \in fs /\ d.try \in m.kernels /\ Unseals(d, d.try)
      /\ m.baseStatus # "" /\ m.tryBase # NoSnap => m.tryBase \in fs
  BY <1>1, <1>2 DEF Boots
<1>5. QED
  BY <1>1, <1>2, <1>3, <1>4, WriteModeenvBoots

LEMMA LastOfTwo ==
  ASSUME NEW S, NEW p \in Seq(S), Len(p) = 2
  PROVE  p # <<>> /\ Last(p) \in S
<1>1. Len(<<>>) = 0
  BY EmptySeq, Zenon
<1>2. p # <<>>
  BY <1>1
<1>3. 2 \in 1..Len(p)
  OBVIOUS
<1>4. p[2] \in S
  BY <1>3, ElementOfSeq, Zenon
<1>5. QED
  BY <1>2, <1>4 DEF Last

LEMMA RevertBasePlanBoots ==
  ASSUME NEW fs, NEW d \in Disks, NEW b \in Bases, b \in fs,
         d.kernel \in fs, d.kernel \in d.kernels, Unseals(d, d.kernel),
         d.status # "" /\ d.try # NoSnap =>
             d.try \in fs /\ d.try \in d.kernels /\ Unseals(d, d.try)
  PROVE  /\ RevertBasePlan(d, b) \in Seq(Bootable(fs))
         /\ RevertBasePlan(d, b) # <<>> /\ Last(RevertBasePlan(d, b)) \in Bootable(fs)
<1> DEFINE m == IF b = d.base THEN [d EXCEPT !.baseStatus = ""]
                ELSE [d EXCEPT !.base = b, !.tryBase = NoSnap, !.baseStatus = ""]
<1>1. d \in Disks
  OBVIOUS
<1>2. m \in Disks /\ m.base = b /\ m.kernels = d.kernels /\ m.baseStatus = ""
  BY <1>1 DEF Disks, BootStatuses
<1>3. RevertBasePlan(d, b) = WriteModeenv(d, m)
  BY DEF RevertBasePlan
<1> HIDE DEF m
<1>4. /\ d.kernel \in fs /\ m.base \in fs /\ d.kernel \in m.kernels /\ Unseals(d, d.kernel)
      /\ d.status # "" /\ d.try # NoSnap =>
             d.try \in fs /\ d.try \in m.kernels /\ Unseals(d, d.try)
      /\ m.baseStatus # "" /\ m.tryBase # NoSnap => m.tryBase \in fs
  BY <1>2
<1>5. WriteModeenv(d, m) \in Seq(Bootable(fs))
  BY <1>1, <1>2, <1>4, WriteModeenvBoots
<1>6. Len(WriteModeenv(d, m)) = 2
  BY DEF WriteModeenv
<1>7. WriteModeenv(d, m) # <<>> /\ Last(WriteModeenv(d, m)) \in Bootable(fs)
  BY <1>5, <1>6, LastOfTwo
<1>8. QED
  BY <1>3, <1>5, <1>7
-----------------------------------------------------------------------------
(* The invariant, action by action.                                        *)

LEMMA SameBootable ==
  ASSUME bl' = bl
  PROVE  Bootable(Kept)' = Bootable(Kept') /\ Bootable(Stays)' = Bootable(Stays')
BY DEF Bootable, Boots, Unseals, Disks, BootStatuses

\* While no undo runs.
LEMMA IdleBoots ==
  ASSUME StuckInv, reverting = ""
  PROVE  disk \in Bootable(Kept) /\ Boots(disk, Kept) /\ OldIsInstalled
<1>1. reverting # "kernel"
  OBVIOUS
<1>2. disk \in Bootable(Kept) /\ OldIsInstalled
  BY <1>1, Zenon DEF StuckInv
<1>3. QED
  BY <1>2 DEF Bootable

\* After a step that leaves no undo running.
LEMMA Established ==
  ASSUME bl' = bl, phase' # "stuck", reverting' = "",
         disk' \in Bootable(Kept'), plan' \in Seq(Bootable(Kept')), OldIsInstalled'
  PROVE  StuckInv'
<1>1. disk' \in Bootable(Kept)' /\ plan' \in Seq(Bootable(Kept)')
  BY SameBootable
<1>2. QED
  BY <1>1, Zenon DEF StuckInv, NeverStuck

\* The files and the refreshes stay as they are.
LEMMA SameFiles ==
  ASSUME UNCHANGED <<refresh, files, fresh>>
  PROVE  Kept' = Kept /\ (OldIsInstalled => OldIsInstalled')
BY DEF Kept, Leaving, OldIsInstalled

\* Nothing runs in snapd, and the disk may change.
LEMMA StillBoots ==
  ASSUME StuckInv, reverting = "", bl' = bl,
         phase' # "stuck", disk' \in Bootable(Kept), plan' = <<>>, reverting' = "",
         UNCHANGED <<refresh, files, fresh>>
  PROVE  StuckInv'
<1>1. Kept' = Kept /\ OldIsInstalled'
  BY SameFiles, IdleBoots
<1>2. plan' \in Seq(Bootable(Kept'))
  BY EmptyIsSeq, Zenon
<1>3. QED
  BY <1>1, <1>2, Established

LEMMA NotUp ==
  ASSUME BootInv, phase # "up"
  PROVE  reverting = "" /\ plan = <<>>
BY Zenon DEF BootInv, OnlyUpIsBusy

LEMMA BootloaderBoots ==
  ASSUME BootInv, StuckInv, Bootloader
  PROVE  StuckInv'
<1>1. /\ phase = "off" /\ bl' = bl
      /\ disk' = [disk EXCEPT !.status = IF @ = "try" THEN "trying" ELSE ""]
      /\ UNCHANGED <<plan, reverting, refresh, files, fresh>>
  BY DEF Bootloader, snapdVars, worldVars
<1>2. reverting = "" /\ plan = <<>>
  BY <1>1, NotUp
<1>3. Boots(disk, Kept)
  BY <1>2, IdleBoots
<1>4. phase' # "stuck"
  <2>1. disk.kernel \in files
    BY <1>3 DEF Boots, Kept
  <2>2. QED
    BY <2>1 DEF Bootloader
<1>5. /\ disk' \in Disks /\ disk'.kernel = disk.kernel /\ disk'.try = disk.try
      /\ SameBase(disk', disk) /\ disk'.kernels = disk.kernels /\ disk'.sealed = disk.sealed
      /\ disk.status = "" => disk'.status = ""
  BY <1>1, Facts DEF Disks, SameBase, BootStatuses
<1>6. Boots(disk', Kept)
  BY <1>3, <1>5 DEF Boots, SameBase, Unseals
<1>7. disk' \in Bootable(Kept)
  BY <1>5, <1>6, BootableIs
<1>8. QED
  BY <1>1, <1>2, <1>4, <1>7, StillBoots

\* The key is sealed to the kernel that the bootloader chose.
LEMMA SelectBaseBoots ==
  ASSUME BootInv, StuckInv, SelectBase
  PROVE  StuckInv'
<1>1. phase = "base" /\ bl' = bl /\ UNCHANGED <<plan, reverting, refresh, files, fresh>>
  BY DEF SelectBase, snapdVars, worldVars
<1>2. reverting = "" /\ plan = <<>>
  BY <1>1, NotUp
<1>3. Boots(disk, Kept)
  BY <1>2, IdleBoots
<1>4. /\ disk.status # "try"
      /\ running.kernel = IF disk.status = "trying" THEN disk.try ELSE disk.kernel
  BY <1>1 DEF BootInv, KernelChosen
<1>5. running.kernel # NoSnap
  BY Facts DEF Snaps
<1>6. Unseals(disk, running.kernel) /\ disk.base \in files
  BY <1>3, <1>4, <1>5 DEF Boots, Kept
<1>7. /\ phase' = "kernel"
      /\ disk' = [disk EXCEPT !.baseStatus = NextBaseStatus(TriesBase)]
  BY <1>6 DEF SelectBase
<1>8. NextBaseStatus(TriesBase) \in BootStatuses
  BY Facts DEF NextBaseStatus, BootStatuses
<1>9. /\ disk' \in Disks /\ SameKernel(disk', disk)
      /\ disk'.base = disk.base /\ disk'.tryBase = disk.tryBase
      /\ disk'.kernels = disk.kernels /\ disk'.sealed = disk.sealed
      /\ disk'.baseStatus = NextBaseStatus(TriesBase)
  BY <1>7, <1>8, Facts DEF Disks, SameKernel
<1>10. disk.baseStatus = "" => disk'.baseStatus = ""
  BY <1>9 DEF NextBaseStatus, TriesBase
<1>11. Boots(disk', Kept)
  BY <1>3, <1>9, <1>10 DEF Boots, SameKernel, Unseals
<1>12. disk' \in Bootable(Kept)
  BY <1>9, <1>11, BootableIs
<1>13. phase' # "stuck" /\ plan' = <<>> /\ reverting' = ""
  BY <1>1, <1>2, <1>7
<1>14. QED
  BY <1>1, <1>2, <1>12, <1>13, StillBoots

LEMMA SelectKernelBoots ==
  ASSUME BootInv, StuckInv, SelectKernel
  PROVE  StuckInv'
<1>1. phase = "kernel" /\ bl' = bl /\ UNCHANGED <<disk, plan, reverting, refresh, files, fresh>>
  BY DEF SelectKernel, snapdVars, worldVars
<1>2. reverting = "" /\ plan = <<>>
  BY <1>1, NotUp
<1>3. Boots(disk, Kept) /\ disk \in Bootable(Kept)
  BY <1>2, IdleBoots
<1>4. phase' # "stuck"
  <2>1. CASE disk.status # ""
    BY <2>1 DEF SelectKernel, GivesUp
  <2>2. CASE disk.status = ""
    <3>1. disk.kernel \in files /\ disk.kernel \in disk.kernels
      BY <1>3 DEF Boots, Kept
    <3>2. QED
      BY <2>2, <3>1 DEF SelectKernel, GivesUp
  <2>3. QED
    BY <2>1, <2>2
<1>5. plan' = <<>> /\ reverting' = "" /\ disk' \in Bootable(Kept)
  BY <1>1, <1>2, <1>3
<1>6. QED
  BY <1>1, <1>2, <1>4, <1>5, StillBoots

LEMMA DownBoots ==
  ASSUME StuckInv, reverting = "", plan = <<>>, phase' # "stuck",
         UNCHANGED <<bl, disk, plan, reverting, refresh, files, fresh>>
  PROVE  StuckInv'
<1>1. disk' \in Bootable(Kept) /\ plan' = <<>> /\ reverting' = ""
  BY IdleBoots
<1>2. QED
  BY <1>1, StillBoots
\* snapd decides on writes, every one of which leads to contents that boot.
LEMMA StartsBoots ==
  ASSUME StuckInv, Idle, UNCHANGED <<bl, disk, phase>>, reverting' = "",
         Kept \subseteq Kept', plan' \in Seq(Bootable(Kept')), OldIsInstalled'
  PROVE  StuckInv'
<1>1. disk \in Bootable(Kept) /\ phase = "up"
  BY IdleBoots DEF Idle
<1>2. disk' \in Bootable(Kept')
  BY <1>1, BootableGrows
<1>3. phase' # "stuck"
  BY <1>1
<1>4. QED
  BY <1>2, <1>3, Established

LEMMA EnsureBootOkBoots ==
  ASSUME BootInv, StuckInv, EnsureBootOk
  PROVE  StuckInv'
<1>1. /\ Idle /\ reverting = "" /\ plan' = MarkPlan(disk)
      /\ UNCHANGED <<bl, disk, reverting, phase, refresh, files, fresh>>
  BY DEF EnsureBootOk, Idle, worldVars
<1>2. disk \in Bootable(Kept) /\ OldIsInstalled
  BY <1>1, IdleBoots
<1>3. Kept' = Kept /\ OldIsInstalled'
  BY <1>1, <1>2, SameFiles
<1>4. plan' \in Seq(Bootable(Kept'))
  BY <1>1, <1>2, <1>3, MarkPlanBoots, BootAssumption
<1>5. QED
  BY <1>1, <1>3, <1>4, StartsBoots

LEMMA LastOfTail ==
  ASSUME NEW S, NEW s \in Seq(S), s # <<>>
  PROVE  /\ Tail(s) = <<>> => Head(s) = Last(s)
         /\ Tail(s) # <<>> => Last(Tail(s)) = Last(s)
<1>1. Len(s) \in Nat /\ Len(s) # 0
  BY EmptySeq, LenProperties
<1> DEFINE t == Tail(s)
<1>2. t \in Seq(S) /\ Len(t) = Len(s) - 1 /\ Head(s) = s[1]
  BY HeadTailProperties
<1>3. ASSUME Tail(s) = <<>> PROVE Head(s) = Last(s)
  <2> HIDE DEF t
  <2>1. Len(t) = 0
    <3>1. t = <<>> /\ Len(<<>>) = 0
      BY <1>3, EmptySeq, Zenon DEF t
    <3>2. QED
      BY <3>1, Zenon
  <2>2. Len(s) = 1 /\ Head(s) = s[1]
    BY <1>1, <1>2, <2>1
  <2>3. QED
    BY <2>2, Zenon DEF Last
<1>4. ASSUME Tail(s) # <<>> PROVE Last(Tail(s)) = Last(s)
  <2>1. Len(Tail(s)) # 0
    BY <1>2, <1>4, EmptySeq
  <2>2. Tail(s)[Len(s) - 1] = s[Len(s)]
    BY <1>1, <1>2, <2>1, HeadTailProperties
  <2>3. QED
    BY <1>2, <2>2 DEF Last
<1>5. QED
  BY <1>3, <1>4

\* A write of an undo is followed by the rest of it.
LEMMA CommitBoots ==
  ASSUME BootInv, StuckInv, Commit
  PROVE  StuckInv'
<1>1. /\ phase = "up" /\ plan # <<>> /\ disk' = Head(plan) /\ plan' = Tail(plan)
      /\ UNCHANGED <<bl, reverting, phase, refresh, files, fresh>>
  BY DEF Commit, worldVars
<1>2. Kept' = Kept /\ Stays' = Stays
  BY <1>1 DEF Kept, Leaving, Stays, Reverted
<1>3. Bootable(Kept)' = Bootable(Kept) /\ Bootable(Stays)' = Bootable(Stays)
  BY <1>1, <1>2, SameBootable
<1>4. OldIsInstalled'
  BY <1>1, SameFiles DEF StuckInv
<1>5. plan \in Seq(Disks)
  BY DEF BootInv, BootTypeOK
<1>6. Ends' = Ends
  <2>1. plan' = <<>> => disk' = Last(plan)
    BY <1>1, <1>5, LastOfTail
  <2>2. plan' # <<>> => Last(plan') = Last(plan)
    BY <1>1, <1>5, LastOfTail
  <2>3. Last(plan)' = Last(plan')
    BY DEF Last
  <2>4. QED
    BY <1>1, <2>1, <2>2, <2>3, Zenon DEF Ends
<1>7. reverting # "kernel" => disk' \in Bootable(Kept) /\ plan' \in Seq(Bootable(Kept))
  <2>1. SUFFICES ASSUME reverting # "kernel"
                 PROVE  disk' \in Bootable(Kept) /\ plan' \in Seq(Bootable(Kept))
    OBVIOUS
  <2>2. plan \in Seq(Bootable(Kept))
    BY <2>1 DEF StuckInv
  <2>3. QED
    BY <1>1, <2>2, HeadTailProperties
<1>8. reverting # "" => Ends' \in Bootable(Stays)
  BY <1>6 DEF StuckInv
<1>9. NeverStuck' /\ reverting' = reverting
  BY <1>1 DEF NeverStuck
<1>10. QED
  BY <1>3, <1>4, <1>7, <1>8, <1>9, Zenon DEF StuckInv

\* The files of a refresh that begins, or begins once more, are kept.
LEMMA RefreshKernelKeeps ==
  ASSUME BootInv, StuckInv, NEW k \in Kernels, RefreshKernel(k)
  PROVE  Kept \subseteq Kept' /\ k \in Kept' /\ OldIsInstalled'
<1>1. /\ files' = files \cup {k} /\ fresh' = fresh \cup ({k} \ files)
      /\ reverting = ""
  BY DEF RefreshKernel, Idle
<1>2. refresh \in Refreshes /\ OldIsGood /\ k # NoSnap /\ k \notin Bases
  BY Facts DEF BootInv, BootTypeOK, Refreshes, Snaps
<1> DEFINE begins == [refresh EXCEPT !.kernel = [old |-> disk.kernel, new |-> k]]
<1>3. \/ /\ refresh' = begins /\ k # disk.kernel /\ fresh \cap Kernels = {}
      \/ k = refresh.kernel.new /\ refresh' = refresh
  BY Zenon DEF RefreshKernel
<1>4. begins.kernel.new = k /\ begins.kernel.old = disk.kernel /\ begins.base = refresh.base
  BY <1>2 DEF Refreshes
<1> HIDE DEF begins
<1>5. refresh'.kernel.new = k /\ refresh'.base = refresh.base
  BY <1>3, <1>4
<1>6. refresh'.kernel # NoRefresh
  BY <1>2, <1>5 DEF NoRefresh
<1>7. ASSUME NEW s \in Leaving' PROVE s \in Leaving /\ s # k
  <2>1. s \in fresh' /\ s \notin Kernels /\ (s \in Bases => refresh.base = NoRefresh)
    BY <1>5, <1>6, <1>7 DEF Leaving
  <2>2. QED
    BY <1>1, <2>1 DEF Leaving
<1>8. Kept \subseteq Kept' /\ k \in Kept'
  BY <1>1, <1>7 DEF Kept
<1>9. OldIsInstalled /\ Boots(disk, Kept)
  BY <1>1, IdleBoots
<1>10. refresh'.kernel.old \in files' /\ refresh'.kernel.old \notin fresh'
  <2>1. CASE refresh' = refresh /\ k = refresh.kernel.new
    <3>1. /\ refresh.kernel.old \in files /\ refresh.kernel.old \notin fresh
          /\ refresh.kernel.old # k
      BY <1>2, <1>6, <1>9, <2>1 DEF OldIsInstalled, OldIsGood
    <3>2. QED
      BY <1>1, <2>1, <3>1
  <2>2. CASE refresh' = begins /\ k # disk.kernel /\ fresh \cap Kernels = {}
    <3>1. disk.kernel \in files /\ disk.kernel \notin fresh
      BY <1>9, <2>2, Facts DEF Boots, Kept
    <3>2. QED
      BY <1>1, <1>4, <2>2, <3>1
  <2>3. QED
    BY <1>3, <2>1, <2>2
<1>11. refresh.base # NoRefresh => refresh.base.old \in files' /\ refresh.base.old \notin fresh'
  BY <1>1, <1>2, <1>9 DEF OldIsInstalled, OldIsGood
<1>12. OldIsInstalled'
  BY <1>5, <1>10, <1>11, Zenon DEF OldIsInstalled
<1>13. QED
  BY <1>8, <1>12

LEMMA RefreshKernelBoots ==
  ASSUME BootInv, StuckInv, NEW k \in Kernels, RefreshKernel(k)
  PROVE  StuckInv'
<1>1. /\ Idle /\ reverting = "" /\ plan' = TryKernelPlan(disk, k) /\ reverting' = ""
      /\ UNCHANGED <<bl, disk, phase>>
  BY DEF RefreshKernel, Idle, Starts, worldVars
<1>2. Kept \subseteq Kept' /\ k \in Kept' /\ OldIsInstalled'
  BY RefreshKernelKeeps
<1>3. disk \in Bootable(Kept)
  BY <1>1, IdleBoots
<1>4. disk \in Bootable(Kept')
  BY <1>2, <1>3, BootableGrows
<1>5. plan' \in Seq(Bootable(Kept'))
  BY <1>1, <1>2, <1>4, TryKernelPlanBoots
<1>6. QED
  BY <1>1, <1>2, <1>5, StartsBoots
LEMMA RefreshBaseKeeps ==
  ASSUME BootInv, StuckInv, NEW b \in Bases, RefreshBase(b)
  PROVE  Kept \subseteq Kept' /\ b \in Kept' /\ OldIsInstalled'
<1>1. /\ files' = files \cup {b} /\ fresh' = fresh \cup ({b} \ files)
      /\ reverting = ""
  BY DEF RefreshBase, Idle
<1>2. refresh \in Refreshes /\ OldIsGood /\ b # NoSnap /\ b \notin Kernels
  BY Facts DEF BootInv, BootTypeOK, Refreshes, Snaps
<1> DEFINE begins == [refresh EXCEPT !.base = [old |-> disk.base, new |-> b]]
<1>3. \/ /\ refresh' = begins /\ b # disk.base /\ fresh \cap Bases = {}
      \/ b = refresh.base.new /\ refresh' = refresh
  BY Zenon DEF RefreshBase
<1>4. begins.base.new = b /\ begins.base.old = disk.base /\ begins.kernel = refresh.kernel
  BY <1>2 DEF Refreshes
<1> HIDE DEF begins
<1>5. refresh'.base.new = b /\ refresh'.kernel = refresh.kernel
  BY <1>3, <1>4
<1>6. refresh'.base # NoRefresh
  BY <1>2, <1>5 DEF NoRefresh
<1>7. ASSUME NEW s \in Leaving' PROVE s \in Leaving /\ s # b
  <2>1. s \in fresh' /\ s \notin Bases /\ (s \in Kernels => refresh.kernel = NoRefresh)
    BY <1>5, <1>6, <1>7 DEF Leaving
  <2>2. QED
    BY <1>1, <2>1 DEF Leaving
<1>8. Kept \subseteq Kept' /\ b \in Kept'
  BY <1>1, <1>7 DEF Kept
<1>9. OldIsInstalled /\ Boots(disk, Kept)
  BY <1>1, IdleBoots
<1>10. refresh'.base.old \in files' /\ refresh'.base.old \notin fresh'
  <2>1. CASE refresh' = refresh /\ b = refresh.base.new
    <3>1. /\ refresh.base.old \in files /\ refresh.base.old \notin fresh
          /\ refresh.base.old # b
      BY <1>2, <1>6, <1>9, <2>1 DEF OldIsInstalled, OldIsGood
    <3>2. QED
      BY <1>1, <2>1, <3>1
  <2>2. CASE refresh' = begins /\ b # disk.base /\ fresh \cap Bases = {}
    <3>1. disk.base \in files /\ disk.base \notin fresh
      BY <1>9, <2>2, Facts DEF Boots, Kept
    <3>2. QED
      BY <1>1, <1>4, <2>2, <3>1
  <2>3. QED
    BY <1>3, <2>1, <2>2
<1>11. refresh.kernel # NoRefresh => refresh.kernel.old \in files' /\ refresh.kernel.old \notin fresh'
  BY <1>1, <1>2, <1>9 DEF OldIsInstalled, OldIsGood
<1>12. OldIsInstalled'
  BY <1>5, <1>10, <1>11, Zenon DEF OldIsInstalled
<1>13. QED
  BY <1>8, <1>12

LEMMA RefreshBaseBoots ==
  ASSUME BootInv, StuckInv, NEW b \in Bases, RefreshBase(b)
  PROVE  StuckInv'
<1>1. /\ Idle /\ reverting = "" /\ plan' = TryBasePlan(disk, b) /\ reverting' = ""
      /\ UNCHANGED <<bl, disk, phase>>
  BY DEF RefreshBase, Idle, Starts, worldVars
<1>2. Kept \subseteq Kept' /\ b \in Kept' /\ OldIsInstalled'
  BY RefreshBaseKeeps
<1>3. disk \in Bootable(Kept)
  BY <1>1, IdleBoots
<1>4. disk \in Bootable(Kept')
  BY <1>2, <1>3, BootableGrows
<1>5. plan' \in Seq(Bootable(Kept'))
  BY <1>1, <1>2, <1>4, TryBasePlanBoots
<1>6. QED
  BY <1>1, <1>2, <1>5, StartsBoots

\* A refresh that is over leaves nothing to undo, and its files are kept.
LEMMA FinishBoots ==
  ASSUME BootInv, StuckInv, FinishKernel \/ FinishBase
  PROVE  StuckInv'
<1>1. /\ Idle /\ reverting = "" /\ plan' = <<>> /\ reverting' = "" /\ files' = files
      /\ UNCHANGED <<bl, disk, phase>>
  BY DEF FinishKernel, FinishBase, Idle, Starts, worldVars
<1>2. refresh \in Refreshes /\ Kernels \cap Bases = {} /\ fresh \subseteq Snaps
  BY Facts DEF BootInv, BootTypeOK, Refreshes
<1>3. OldIsInstalled
  BY <1>1, IdleBoots
<1>4. Kept \subseteq Kept' /\ OldIsInstalled'
  <2>1. CASE FinishKernel
    <3>1. refresh' = [refresh EXCEPT !.kernel = NoRefresh] /\ fresh' = fresh \ Kernels
      BY <2>1 DEF FinishKernel
    <3>2. refresh'.kernel = NoRefresh /\ refresh'.base = refresh.base
      BY <1>2, <3>1 DEF Refreshes
    <3>3. Leaving' \subseteq Leaving
      BY <3>1, <3>2 DEF Leaving
    <3>4. OldIsInstalled'
      <4>1. files' = files /\ \A s : s \notin fresh => s \notin fresh'
        BY <1>1, <3>1
      <4>2. QED
        BY <1>3, <3>2, <4>1, Zenon DEF OldIsInstalled
    <3>5. QED
      BY <1>1, <3>3, <3>4 DEF Kept
  <2>2. CASE FinishBase
    <3>1. refresh' = [refresh EXCEPT !.base = NoRefresh] /\ fresh' = fresh \ Bases
      BY <2>2 DEF FinishBase
    <3>2. refresh'.base = NoRefresh /\ refresh'.kernel = refresh.kernel
      BY <1>2, <3>1 DEF Refreshes
    <3>3. Leaving' \subseteq Leaving
      BY <3>1, <3>2 DEF Leaving
    <3>4. OldIsInstalled'
      <4>1. files' = files /\ \A s : s \notin fresh => s \notin fresh'
        BY <1>1, <3>1
      <4>2. QED
        BY <1>3, <3>2, <4>1, Zenon DEF OldIsInstalled
    <3>5. QED
      BY <1>1, <3>3, <3>4 DEF Kept
  <2>3. QED
    BY <2>1, <2>2
<1>5. plan' \in Seq(Bootable(Kept'))
  BY <1>1, EmptyIsSeq, Zenon
<1>6. QED
  BY <1>1, <1>4, <1>5, StartsBoots

\* The old kernel and what the modeenv says of bases do not go with the new kernel.
LEMMA UndoKernelBoots ==
  ASSUME BootInv, StuckInv, UndoKernel
  PROVE  StuckInv'
<1> DEFINE old == refresh.kernel.old
           without == Kept \ (fresh \cap Kernels)
<1>1. /\ reverting = "" /\ phase = "up" /\ refresh.kernel # NoRefresh
      /\ plan' = RevertKernelPlan(disk, old) /\ reverting' = "kernel"
      /\ UNCHANGED <<bl, disk, phase, refresh, files, fresh>>
  BY DEF UndoKernel, Idle, Starts, worldVars
<1>2. OldIsInstalled /\ Boots(disk, Kept) /\ disk \in Disks
  BY <1>1, IdleBoots, Facts
<1>3. old \in Kernels /\ old \in files /\ old \notin fresh
  BY <1>1, <1>2 DEF BootInv, OldIsGood, OldIsInstalled
<1> HIDE DEF old
<1>4. old \in without
  BY <1>3 DEF Kept, Leaving
<1>5. /\ disk.base \in without
      /\ disk.baseStatus # "" /\ disk.tryBase # NoSnap => disk.tryBase \in without
  BY <1>2, Facts DEF Boots
<1> HIDE DEF without
<1>6. plan' # <<>> /\ Last(plan') \in Bootable(without)
  BY <1>1, <1>2, <1>3, <1>4, <1>5, RevertKernelPlanEnds
<1>7. Kept' = Kept /\ OldIsInstalled'
  BY <1>1, <1>2, SameFiles
<1>8. Stays' = without
  BY <1>1, <1>7 DEF Stays, Reverted, without
<1>9. Ends' \in Bootable(Stays)'
  <2>1. Ends' = Last(plan')
    BY <1>6 DEF Ends, Last
  <2>2. QED
    BY <1>1, <1>6, <1>8, <2>1, SameBootable
<1>10. NeverStuck'
  BY <1>1 DEF NeverStuck
<1>11. QED
  BY <1>1, <1>7, <1>9, <1>10, Zenon DEF StuckInv

LEMMA UndoBaseBoots ==
  ASSUME BootInv, StuckInv, UndoBase
  PROVE  StuckInv'
<1> DEFINE old == refresh.base.old
           without == Kept \ (fresh \cap Bases)
<1>1. /\ reverting = "" /\ phase = "up" /\ refresh.base # NoRefresh
      /\ plan' = RevertBasePlan(disk, old) /\ reverting' = "base"
      /\ UNCHANGED <<bl, disk, phase, refresh, files, fresh>>
  BY DEF UndoBase, Idle, Starts, worldVars
<1>2. OldIsInstalled /\ Boots(disk, Kept) /\ disk \in Disks /\ disk \in Bootable(Kept)
  BY <1>1, IdleBoots, Facts
<1>3. old \in Bases /\ old \in files /\ old \notin fresh
  BY <1>1, <1>2 DEF BootInv, OldIsGood, OldIsInstalled
<1> HIDE DEF old
<1>4. old \in without
  BY <1>3 DEF Kept, Leaving
<1>5. /\ disk.kernel \in without /\ disk.kernel \in disk.kernels /\ Unseals(disk, disk.kernel)
      /\ disk.status # "" /\ disk.try # NoSnap =>
             disk.try \in without /\ disk.try \in disk.kernels /\ Unseals(disk, disk.try)
  BY <1>2, Facts DEF Boots
<1>6. without \subseteq Kept
  OBVIOUS
<1> HIDE DEF without
<1>7. /\ plan' \in Seq(Bootable(without))
      /\ plan' # <<>> /\ Last(plan') \in Bootable(without)
  BY <1>1, <1>2, <1>3, <1>4, <1>5, RevertBasePlanBoots
<1>8. plan' \in Seq(Bootable(Kept))
  <2>1. Bootable(without) \subseteq Bootable(Kept)
    BY <1>6, BootableGrows
  <2>2. QED
    BY <1>7, <2>1, SeqMonotone
<1>9. Kept' = Kept /\ OldIsInstalled'
  BY <1>1, <1>2, SameFiles
<1>10. Stays' = without
  BY <1>1, <1>9 DEF Stays, Reverted, without
<1>11. Ends' \in Bootable(Stays)'
  <2>1. Ends' = Last(plan')
    BY <1>7 DEF Ends, Last
  <2>2. QED
    BY <1>1, <1>7, <1>10, <2>1, SameBootable
<1>12. disk' \in Bootable(Kept)' /\ plan' \in Seq(Bootable(Kept)')
  BY <1>1, <1>2, <1>8, <1>9, SameBootable
<1>13. NeverStuck'
  BY <1>1 DEF NeverStuck
<1>14. QED
  BY <1>9, <1>11, <1>12, <1>13, Zenon DEF StuckInv
\* An undo is over: the files of the refresh may now be removed.
LEMMA UndoneBoots ==
  ASSUME BootInv, StuckInv, Undone
  PROVE  StuckInv'
<1>1. /\ phase = "up" /\ plan = <<>> /\ reverting # "" /\ reverting' = ""
      /\ UNCHANGED <<bl, disk, plan, phase, files, fresh>>
  BY DEF Undone, UndoReturns, worldVars
<1>2. /\ refresh \in Refreshes /\ Kernels \cap Bases = {} /\ fresh \subseteq Snaps
      /\ reverting \in {"kernel", "base"}
  BY <1>1, Facts DEF BootInv, BootTypeOK, Refreshes
<1>3. disk \in Bootable(Stays)
  BY <1>1 DEF StuckInv, Ends
<1>4. OldIsInstalled
  BY DEF StuckInv
<1>5. Stays \subseteq Kept' /\ OldIsInstalled'
  <2>1. CASE reverting = "kernel"
    <3>1. refresh' = [refresh EXCEPT !.kernel = NoRefresh]
      BY <2>1 DEF Undone, UndoReturns
    <3>2. refresh'.kernel = NoRefresh /\ refresh'.base = refresh.base
      BY <1>2, <3>1 DEF Refreshes
    <3>3. Leaving' \subseteq Leaving \cup (fresh \cap Kernels)
      BY <1>1, <3>2 DEF Leaving
    <3>4. Stays \subseteq Kept'
      BY <1>1, <2>1, <3>3 DEF Stays, Reverted, Kept
    <3>5. OldIsInstalled'
      BY <1>1, <1>4, <3>2, Zenon DEF OldIsInstalled
    <3>6. QED
      BY <3>4, <3>5
  <2>2. CASE reverting = "base"
    <3>1. refresh' = [refresh EXCEPT !.base = NoRefresh]
      BY <2>2 DEF Undone, UndoReturns
    <3>2. refresh'.base = NoRefresh /\ refresh'.kernel = refresh.kernel
      BY <1>2, <3>1 DEF Refreshes
    <3>3. Leaving' \subseteq Leaving \cup (fresh \cap Bases)
      BY <1>1, <3>2 DEF Leaving
    <3>4. Stays \subseteq Kept'
      BY <1>1, <2>2, <3>3 DEF Stays, Reverted, Kept
    <3>5. OldIsInstalled'
      BY <1>1, <1>4, <3>2, Zenon DEF OldIsInstalled
    <3>6. QED
      BY <3>4, <3>5
  <2>3. QED
    BY <1>2, <2>1, <2>2
<1>6. disk' \in Bootable(Kept')
  BY <1>1, <1>3, <1>5, BootableGrows
<1>7. plan' \in Seq(Bootable(Kept'))
  BY <1>1, EmptyIsSeq, Zenon
<1>8. phase' # "stuck"
  BY <1>1
<1>9. QED
  BY <1>1, <1>5, <1>6, <1>7, <1>8, Established

\* Whatever the disk says, it does not need the files of an undone refresh.
LEMMA UndoMountSnapBoots ==
  ASSUME BootInv, StuckInv, NEW s, UndoMountSnap(s)
  PROVE  StuckInv'
<1>1. /\ Idle /\ reverting = "" /\ plan' = <<>> /\ reverting' = "" /\ refresh' = refresh
      /\ files' = files \ {s} /\ fresh' = fresh \ {s} /\ UNCHANGED <<bl, disk, phase>>
  BY DEF UndoMountSnap, Idle, Starts, worldVars
<1>2. s \in Leaving
  BY DEF UndoMountSnap, Leaving
<1>3. Leaving' = Leaving \ {s}
  BY <1>1 DEF Leaving
<1>4. Kept' = Kept
  BY <1>1, <1>2, <1>3 DEF Kept
<1>5. OldIsInstalled'
  <2>1. OldIsInstalled
    BY <1>1, IdleBoots
  <2>2. s \in fresh
    BY <1>2 DEF Leaving
  <2>3. \A t : t \in files /\ t \notin fresh => t \in files' /\ t \notin fresh'
    BY <1>1, <2>2
  <2>4. QED
    BY <1>1, <2>1, <2>3, Zenon DEF OldIsInstalled
<1>6. plan' \in Seq(Bootable(Kept'))
  BY <1>1, EmptyIsSeq, Zenon
<1>7. Kept \subseteq Kept'
  BY <1>4
<1>8. QED
  BY <1>1, <1>5, <1>6, <1>7, StartsBoots

\* What InUse and the refreshes name is what a boot looks for.
LEMMA GarbageCollectBoots ==
  ASSUME BootInv, StuckInv, NEW s, GarbageCollect(s)
  PROVE  StuckInv'
<1>1. /\ phase = "up" /\ reverting = "" /\ plan' = <<>> /\ reverting' = ""
      /\ files' = files \ {s} /\ refresh' = refresh /\ fresh' = fresh
      /\ UNCHANGED <<bl, disk, phase>>
  BY DEF GarbageCollect, Idle, Starts, worldVars
<1>2. s \notin InUse /\ s # refresh.kernel.old /\ s # refresh.base.old
  BY DEF GarbageCollect
<1>3. Boots(disk, Kept) /\ OldIsInstalled /\ disk \in Disks
  BY <1>1, IdleBoots, Facts
<1>4. Kept' = Kept \ {s}
  <2>1. Leaving' = Leaving
    BY <1>1 DEF Leaving
  <2>2. QED
    BY <1>1, <2>1 DEF Kept
<1>5. Boots(disk, Kept')
  BY <1>2, <1>3, <1>4 DEF Boots, InUse
<1>6. disk' \in Bootable(Kept')
  BY <1>1, <1>3, <1>5, BootableIs
<1>7. OldIsInstalled'
  BY <1>1, <1>2, <1>3 DEF OldIsInstalled
<1>8. plan' \in Seq(Bootable(Kept'))
  BY <1>1, EmptyIsSeq, Zenon
<1>9. phase' # "stuck"
  BY <1>1
<1>10. QED
  BY <1>1, <1>6, <1>7, <1>8, <1>9, Established

\* A fault leaves one of the contents that the commit goes through.
LEMMA FaultBoots ==
  ASSUME BootInv, StuckInv, UndoFaults = {}, PowerCut \/ Killed \/ WriteFails
  PROVE  StuckInv'
<1>1. /\ plan' = <<>> /\ reverting' = "" /\ phase' \in {"off", phase}
      /\ UNCHANGED <<bl, disk, files, fresh>>
  BY DEF PowerCut, Killed, WriteFails, Fault, Interrupted, UndoReturns, worldVars
<1>2. reverting # "kernel" /\ refresh' = refresh
  <2>1. CASE PowerCut \/ Killed
    BY <2>1 DEF PowerCut, Killed, Interrupted
  <2>2. CASE WriteFails
    BY <2>2 DEF WriteFails, UndoReturns
  <2>3. QED
    BY <2>1, <2>2
<1>3. disk \in Bootable(Kept) /\ OldIsInstalled /\ phase # "stuck"
  BY <1>2, Zenon DEF StuckInv, NeverStuck
<1>4. Kept' = Kept /\ OldIsInstalled'
  BY <1>1, <1>2, <1>3, SameFiles
<1>5. plan' \in Seq(Bootable(Kept'))
  BY <1>1, EmptyIsSeq, Zenon
<1>6. phase' # "stuck" /\ disk' \in Bootable(Kept')
  BY <1>1, <1>3, <1>4
<1>7. QED
  BY <1>1, <1>4, <1>5, <1>6, Established

LEMMA BootsInitially == BootInit => StuckInv
<1> SUFFICES ASSUME BootInit PROVE StuckInv
  OBVIOUS
<1> USE BootAssumption DEF BootAssumption
<1>1. /\ disk \in Disks /\ disk.kernel = Kernel0 /\ disk.base = Base0 /\ disk.status = ""
      /\ disk.try = NoSnap /\ disk.baseStatus = ""
      /\ disk.kernels = {Kernel0} /\ disk.sealed = {Kernel0}
  BY DEF BootInit, Disks, BootStatuses
<1>2. Kernel0 \in Kept /\ Base0 \in Kept
  <2>1. files = {Kernel0, Base0} /\ fresh = {}
    BY DEF BootInit
  <2>2. QED
    BY <2>1 DEF Kept, Leaving
<1>3. Boots(disk, Kept)
  BY <1>1, <1>2 DEF Boots, Unseals
<1>4. disk \in Bootable(Kept)
  BY <1>1, <1>3, BootableIs
<1>5. plan = <<>> /\ reverting = "" /\ phase = "up"
  BY DEF BootInit
<1>6. plan \in Seq(Bootable(Kept))
  BY <1>5, EmptyIsSeq, Zenon
<1>7. OldIsInstalled
  BY DEF BootInit, OldIsInstalled
<1>8. QED
  BY <1>4, <1>5, <1>6, <1>7 DEF StuckInv, NeverStuck

LEMMA BootsStutter ==
  ASSUME StuckInv, UNCHANGED bootVars
  PROVE  StuckInv'
<1>1. UNCHANGED <<bl, disk, plan, reverting, phase, refresh, files, fresh>>
  BY DEF bootVars
<1>2. Kept' = Kept /\ Stays' = Stays /\ Ends' = Ends
  BY <1>1 DEF Kept, Leaving, Stays, Reverted, Ends, Last
<1>3. Bootable(Kept)' = Bootable(Kept) /\ Bootable(Stays)' = Bootable(Stays)
  BY <1>1, <1>2, SameBootable
<1>4. OldIsInstalled' /\ NeverStuck'
  BY <1>1 DEF StuckInv, OldIsInstalled, NeverStuck
<1>5. QED
  BY <1>1, <1>2, <1>3, <1>4, Zenon DEF StuckInv

LEMMA BootsPreserved ==
  ASSUME BootInv, StuckInv, UndoFaults = {}, [BootNext]_bootVars
  PROVE  StuckInv'
<1>1. CASE Bootloader \/ SelectBase \/ SelectKernel
  BY <1>1, BootloaderBoots, SelectBaseBoots, SelectKernelBoots
<1>2. CASE BootFails \/ ComesUp
  <2>1. /\ phase # "up" /\ phase' # "stuck"
        /\ UNCHANGED <<bl, disk, plan, reverting, refresh, files, fresh>>
    BY <1>2 DEF BootFails, ComesUp, snapdVars, worldVars
  <2>2. QED
    BY <2>1, NotUp, DownBoots
<1>3. CASE EnsureBootOk \/ Commit
  BY <1>3, EnsureBootOkBoots, CommitBoots
<1>4. CASE \E k \in Kernels : RefreshKernel(k)
  BY <1>4, RefreshKernelBoots
<1>5. CASE \E b \in Bases : RefreshBase(b)
  BY <1>5, RefreshBaseBoots
<1>6. CASE FinishKernel \/ FinishBase \/ UndoKernel \/ UndoBase \/ Undone
  BY <1>6, FinishBoots, UndoKernelBoots, UndoBaseBoots, UndoneBoots
<1>7. CASE \E s \in Snaps : UndoMountSnap(s) \/ GarbageCollect(s)
  BY <1>7, UndoMountSnapBoots, GarbageCollectBoots
<1>8. CASE Reboot
  <2>1. /\ reverting = "" /\ plan = <<>> /\ phase' # "stuck"
        /\ UNCHANGED <<bl, disk, plan, reverting, refresh, files, fresh>>
    BY <1>8 DEF Reboot, Idle, snapdVars, worldVars
  <2>2. QED
    BY <2>1, DownBoots
<1>9. CASE PowerCut \/ Killed \/ WriteFails
  BY <1>9, FaultBoots
<1>10. CASE UNCHANGED bootVars
  BY <1>10, BootsStutter
<1>11. QED
  BY <1>1, <1>2, <1>3, <1>4, <1>5, <1>6, <1>7, <1>8, <1>9, <1>10 DEF BootNext, BootStep

\* If no write of an undo fails, and no power cut or kill falls into the undo of a
\* kernel, the device always finds a kernel and a base to boot: after a cut, a kill
\* or a failed write anywhere in a mark or a refresh, after a cut or a kill in the
\* undo of a base, and although the undo of mount-snap removes files without a look
\* at what boots.  (The code does not promise more: see boot_undo for the cut, and
\* the failed write leaves a disk that names files the undo then removes.)
THEOREM AlwaysBoots ==
  ASSUME UndoFaults = {}
  PROVE  BootSpec => []NeverStuck
<1>1. BootInit => StuckInv
  BY BootsInitially
<1>2. BootInv /\ StuckInv /\ [BootNext]_bootVars => StuckInv'
  BY BootsPreserved
<1>3. StuckInv => NeverStuck
  BY DEF StuckInv
<1>4. QED
  BY <1>1, <1>2, <1>3, BootInvariant, PTL DEF BootSpec
=============================================================================
