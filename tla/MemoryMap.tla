------------------------------ MODULE MemoryMap ------------------------------
(***************************************************************************)
(* The mapping drivers Drivers/memory/kernel/memory.c ("mem": one kmalloc, *)
(* so consecutive page frames) and Drivers/nonConMemory/kernel/nonMemory.c *)
(* ("nonmem": one vmalloc, so any frames, mapped page by page), and the    *)
(* /proc file of the second, which sums up the reader's address space.     *)
(*                                                                         *)
(* The threads of one process share a memory descriptor (mm) with its user *)
(* count and its lock.  Sizes are in pages.  vma->vm_pgoff is not an input *)
(* because neither driver looks at it.  Failures of the two init functions *)
(* are the subject of DriverLoad.                                          *)
(***************************************************************************)
EXTENDS Naturals, Sequences, FiniteSets, FiniteSetsExt

CONSTANTS
  Threads,     \* threads of the process
  Kthreads,    \* kernel threads: they have no mm
  Files,       \* open files of the device
  NPAGES,
  NumFrames,   \* bound: frames of physical memory
  NumRegions,  \* bound: places for a VMA, in address order; 1 is the program's
  MaxPages,    \* bound: the largest length given to mmap(2)
  RemoveInUse, \* may the module go while it is in use?  (no .owner: it may)
  None

ASSUME MemoryMapAssumption ==
  /\ NPAGES \in Nat \ {0} /\ NumFrames \in Nat /\ MaxPages \in Nat
  /\ NumFrames > NPAGES + 1
  /\ NumRegions \in Nat \ {0}
  /\ Threads \cap Kthreads = {}
  /\ RemoveInUse \in BOOLEAN
  /\ None \notin Threads \cup Files \cup {"mem", "nonmem"}

VARIABLES
  drv,       \* None, "mem" or "nonmem": the driver that is loaded
  area,      \* kmalloc_area or vmalloc_area: the frame of each of its pages
  reserved,  \* the frames with PageReserved
  alive,     \* threads that have started and not exited
  fds,       \* the files that are open
  vma,       \* the process's VMAs: file, length, page table entries
  mm_users,
  writer, readers,  \* the mm's lock
  pend,      \* the VMA mmap(2) is building: where it goes, and its contents
  pc,
  chunk, size       \* locals of memory_seq_show

module == <<drv, area, reserved>>
lock   == <<writer, readers>>
show   == <<chunk, size>>
vars   == <<module, alive, fds, vma, mm_users, lock, pend, pc, show>>

Frames  == 0..(NumFrames - 1)
Regions == 1..NumRegions
NoVma   == [file |-> None, pages |-> 0, ptes |-> <<>>]
Image   == [file |-> None, pages |-> 1, ptes |-> <<>>]  \* the program itself
Idle    == [region |-> 0, vma |-> NoVma]

Goto(t, l) == pc' = [pc EXCEPT ![t] = l]
Mapped     == {r \in Regions : vma[r].file # None}

-----------------------------------------------------------------------------
(* Loading and unloading *)

SetPageReserved == reserved' = {area'[p] : p \in 1..NPAGES}

\* kmalloc of NPAGES + 1 pages from frame f, rounded up to a page.
mydriver_init ==
  /\ drv = None
  /\ drv' = "mem"
  /\ \E f \in Frames, up \in {0, 1} :
       /\ f + NPAGES \in Frames
       /\ area' = [p \in 1..NPAGES |-> f + up + p - 1]
  /\ SetPageReserved
  /\ UNCHANGED <<alive, fds, vma, mm_users, lock, pend, pc, show>>

\* vmalloc: any different frames.
driver_initt ==
  /\ drv = None
  /\ drv' = "nonmem"
  /\ area' \in {a \in [1..NPAGES -> Frames] :
                  \A p, q \in 1..NPAGES : a[p] = a[q] => p = q}
  /\ SetPageReserved
  /\ UNCHANGED <<alive, fds, vma, mm_users, lock, pend, pc, show>>

Unused == fds = {} /\ Mapped = {} /\ pend = Idle

FreeArea ==
  /\ RemoveInUse \/ Unused
  /\ drv'      = None
  /\ area'     = <<>>
  /\ reserved' = {}       \* ClearPageReserved; the pages are freed

mydriver_exit ==
  /\ drv = "mem"
  /\ FreeArea
  /\ UNCHANGED <<alive, fds, vma, mm_users, lock, pend, pc, show>>

\* remove_proc_entry waits for reads of the /proc file that are under way.
driver_exit ==
  /\ drv = "nonmem"
  /\ \A t \in Threads \cup Kthreads : pc[t] \in {"idle", "RemapPage"}
  /\ FreeArea
  /\ UNCHANGED <<alive, fds, vma, mm_users, lock, pend, pc, show>>

-----------------------------------------------------------------------------
(* The process: threads, files, unmapping (external) *)

\* The first thread of a new process, with a new mm.
Exec(t) ==
  /\ alive = {} /\ mm_users = 0
  /\ alive' = {t}
  /\ mm_users' = 1
  /\ vma' = [vma EXCEPT ![1] = Image]
  /\ UNCHANGED <<module, fds, lock, pend, pc, show>>

Clone(t) ==
  /\ alive # {} /\ t \notin alive
  /\ alive' = alive \cup {t}
  /\ mm_users' = mm_users + 1
  /\ UNCHANGED <<module, fds, vma, lock, pend, pc, show>>

\* mmput: the last user takes the VMAs with it.
mmput ==
  /\ mm_users' = mm_users - 1
  /\ vma' = IF mm_users = 1 THEN [r \in Regions |-> NoVma] ELSE vma

\* exit_mm and exit_files: the last thread also closes the files.
Exit(t) ==
  /\ t \in alive /\ pc[t] = "idle"
  /\ alive' = alive \ {t}
  /\ fds' = IF alive = {t} THEN {} ELSE fds
  /\ mmput
  /\ UNCHANGED <<module, lock, pend, pc, show>>

Munmap(t, r) ==
  /\ t \in alive /\ pc[t] = "idle"
  /\ writer = None /\ readers = {}
  /\ r \in Mapped
  /\ vma' = [vma EXCEPT ![r] = NoVma]
  /\ UNCHANGED <<module, alive, fds, mm_users, lock, pend, pc, show>>

-----------------------------------------------------------------------------
(* The device: open, release, mmap *)

memory_open(t, f) ==
  /\ drv # None
  /\ t \in alive /\ pc[t] = "idle"
  /\ f \notin fds \cup {vma[r].file : r \in Regions} \cup {pend.vma.file}
  /\ fds' = fds \cup {f}
  /\ UNCHANGED <<module, alive, vma, mm_users, lock, pend, pc, show>>

\* close(2).  A mapping keeps the file; release, which does nothing, comes
\* with the last of them.
memory_release(t, f) ==
  /\ t \in alive /\ pc[t] = "idle"
  /\ f \in fds
  /\ fds' = fds \ {f}
  /\ UNCHANGED <<module, alive, vma, mm_users, lock, pend, pc, show>>

\* mmap(2) chooses a free place and calls the driver with the lock held and
\* the new VMA not yet among the others; MapEnds puts it there, MapFails
\* undoes what was mapped.
MapEnds(region, new) ==
  /\ vma' = [vma EXCEPT ![region] = new]
  /\ writer' = None
  /\ pend' = Idle

MapFails ==
  /\ writer' = None
  /\ pend' = Idle
  /\ UNCHANGED vma

CanMap(t, f, r) ==
  /\ drv # None
  /\ t \in alive /\ pc[t] = "idle"
  /\ f \in fds
  /\ vma[r] = NoVma
  /\ writer = None /\ readers = {}

\* Seeded fault: one page too many passes the check.
FitsPlusOne(pages) == pages <= NPAGES + 1

Fits(pages) == pages <= NPAGES

\* memory.c: everything with one remap_pfn_range from the first frame.  A
\* request that is too large or a failing remap changes nothing.
memory_mmap(t, f, r, pages) ==
  /\ drv = "mem"
  /\ CanMap(t, f, r)
  /\ Fits(pages)
  /\ vma' = [vma EXCEPT ![r] = [file |-> f, pages |-> pages,
                 ptes |-> [p \in 1..pages |-> area[1] + p - 1]]]
  /\ UNCHANGED <<module, alive, fds, mm_users, lock, pend, pc, show>>

\* nonMemory.c: the check, then a loop over the pages.
MapStart(t, f, r, pages) ==
  /\ drv = "nonmem"
  /\ CanMap(t, f, r)
  /\ Fits(pages)
  /\ writer' = t
  /\ pend' = [region |-> r, vma |-> [file |-> f, pages |-> pages, ptes |-> <<>>]]
  /\ Goto(t, "RemapPage")
  /\ UNCHANGED <<module, alive, fds, vma, mm_users, readers, show>>

\* Behind the area there is a guard page: no frame.
vmalloc_to_pfn(p) == IF p \in DOMAIN area THEN area[p] ELSE NumFrames

RemapPage(t) ==
  LET done == Len(pend.vma.ptes) + 1
      new  == [pend.vma EXCEPT !.ptes = Append(@, vmalloc_to_pfn(done))]
  IN  /\ pc[t] = "RemapPage"
      /\ IF done < new.pages
         THEN pend' = [pend EXCEPT !.vma = new] /\ UNCHANGED <<writer, vma, pc>>
         ELSE MapEnds(pend.region, new) /\ Goto(t, "idle")
      /\ UNCHANGED <<module, alive, fds, mm_users, readers, show>>

\* remap_pfn_range fails for one of the pages: no page table, or a private
\* mapping of several pages, which cannot be remapped in parts.
RemapFails(t) ==
  /\ pc[t] = "RemapPage"
  /\ MapFails
  /\ Goto(t, "idle")
  /\ UNCHANGED <<module, alive, fds, mm_users, readers, show>>

-----------------------------------------------------------------------------
(* /proc/nonmemory_driver_proc *)

\* memory_seq_open, seq_read and get_task_mm.
memory_seq_show(t) ==
  /\ drv = "nonmem"
  /\ t \in alive /\ pc[t] = "idle"
  /\ mm_users' = mm_users + 1
  /\ Goto(t, "ShowLock")
  /\ UNCHANGED <<module, alive, fds, vma, lock, pend, show>>

\* The early return of a reader without an mm; it prints nothing.
ShowNoMm(t) ==
  /\ drv = "nonmem"
  /\ t \in Kthreads
  /\ UNCHANGED vars

\* Seeded fault: the VMAs are walked without the lock.
ShowUnlocked(t) ==
  /\ pc[t] = "ShowLock"
  /\ Goto(t, "ShowWalk")
  /\ UNCHANGED <<module, alive, fds, vma, mm_users, lock, pend, show>>

ShowLock(t) ==
  /\ pc[t] = "ShowLock"
  /\ writer = None
  /\ readers' = readers \cup {t}
  /\ Goto(t, "ShowWalk")
  /\ UNCHANGED <<module, alive, fds, vma, mm_users, writer, pend, show>>

Ahead(t) == {r \in Regions : r > chunk[t] /\ vma[r] # NoVma}

ShowVma(t) ==
  /\ pc[t] = "ShowWalk"
  /\ Ahead(t) # {}
  /\ LET r == Min(Ahead(t)) IN
       /\ chunk' = [chunk EXCEPT ![t] = r]
       /\ size'  = [size EXCEPT ![t] = @ + vma[r].pages]
  /\ UNCHANGED <<module, alive, fds, vma, mm_users, lock, pend, pc>>

ShowUnlock(t) ==
  /\ pc[t] = "ShowWalk"
  /\ Ahead(t) = {}
  /\ readers' = readers \ {t}
  /\ chunk' = [chunk EXCEPT ![t] = 0]
  /\ Goto(t, "ShowPut")
  /\ UNCHANGED <<module, alive, fds, vma, mm_users, writer, pend, size>>

\* Seeded fault: the reference taken by get_task_mm is kept.
ForgetMmput(t) ==
  /\ pc[t] = "ShowPut"
  /\ size' = [size EXCEPT ![t] = 0]
  /\ Goto(t, "idle")
  /\ UNCHANGED <<module, alive, fds, vma, mm_users, lock, pend, chunk>>

\* mmput, seq_printf and the return.
ShowPut(t) ==
  /\ pc[t] = "ShowPut"
  /\ mmput
  /\ size' = [size EXCEPT ![t] = 0]
  /\ Goto(t, "idle")
  /\ UNCHANGED <<module, alive, fds, lock, pend, chunk>>

-----------------------------------------------------------------------------
Init ==
  /\ drv = None /\ area = <<>> /\ reserved = {}
  /\ alive = {} /\ fds = {} /\ mm_users = 0
  /\ vma = [r \in Regions |-> NoVma]
  /\ writer = None /\ readers = {}
  /\ pend = Idle
  /\ pc = [t \in Threads \cup Kthreads |-> "idle"]
  /\ chunk = [t \in Threads |-> 0] /\ size = [t \in Threads |-> 0]

Process(t) ==
  \/ Exec(t) \/ Clone(t) \/ Exit(t)
  \/ \E r \in Regions : Munmap(t, r)
  \/ \E f \in Files : memory_open(t, f) \/ memory_release(t, f)
  \/ \E f \in Files, r \in Regions, pages \in 1..MaxPages :
       memory_mmap(t, f, r, pages) \/ MapStart(t, f, r, pages)
  \/ RemapPage(t) \/ RemapFails(t)
  \/ memory_seq_show(t) \/ ShowLock(t) \/ ShowVma(t) \/ ShowUnlock(t) \/ ShowPut(t)

Next ==
  \/ mydriver_init \/ driver_initt \/ mydriver_exit \/ driver_exit
  \/ \E t \in Threads : Process(t)
  \/ \E t \in Kthreads : ShowNoMm(t)

Spec == Init /\ [][Next]_vars

-----------------------------------------------------------------------------
(* Properties *)

\* Page i of every mapping, of either driver and of any length mmap accepted,
\* is page i of the loaded driver's area and reserved: the size check, the
\* arithmetic on frames, the loop and its early return leave no page out and
\* reach none behind the area.
MapsTheArea ==
  \A r \in Mapped :
    /\ DOMAIN vma[r].ptes = 1..vma[r].pages
    /\ \A p \in 1..vma[r].pages :
         p \in DOMAIN area /\ vma[r].ptes[p] = area[p] /\ area[p] \in reserved

\* What memory_seq_show has summed up when its walk ends is the size of the
\* address space at that moment, whatever the other threads map and unmap.
SumExact ==
  \A t \in Threads : (pc[t] = "ShowWalk" /\ Ahead(t) = {}) =>
    size[t] = MapThenSumSet(LAMBDA r : vma[r].pages, Regions)

\* When the last thread has exited nothing is left of the mm: memory_seq_show
\* gives back the reference it took on every path, and no mapping of the
\* driver's pages outlives the process.
NoLeakedMm == alive = {} => mm_users = 0 /\ Mapped = {} /\ fds = {}
=============================================================================
