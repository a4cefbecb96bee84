--------------------------- MODULE MemoryProofs ---------------------------
(***************************************************************************)
(* Proofs about the mapping drivers, for any number of threads, files,     *)
(* regions, frames and pages.  What is proved of the mm holds for any      *)
(* RemoveInUse; what is proved of the mappings assumes that a module stays *)
(* while it is in use, which the drivers, having no .owner, do not ensure. *)
(***************************************************************************)
EXTENDS MemoryMap, FiniteSetTheorems, TLAPS

-----------------------------------------------------------------------------
(* The inductive invariant of the mm *)

Vmas    == [file : Files \cup {None}, pages : Nat, ptes : Seq(0..NumFrames)]
Showing == {"ShowLock", "ShowWalk", "ShowPut"}

\* The type invariant of both drivers' state and the mm.
MmTypes ==
  /\ drv \in {None, "mem", "nonmem"}
  /\ alive \subseteq Threads /\ fds \subseteq Files
  /\ writer \in Threads \cup {None} /\ readers \subseteq Threads
  /\ vma \in [Regions -> Vmas]
  /\ pend \in [region : 0..NumRegions, vma : Vmas]
  /\ pc \in [Threads \cup Kthreads -> {"idle", "RemapPage"} \cup Showing]

\* The area of the driver that is loaded, and the frames it has reserved.
AreaInv ==
  /\ drv = None => area = <<>> /\ reserved = {}
  /\ drv # None => /\ area \in [1..NPAGES -> Frames]
                   /\ reserved = {area[p] : p \in 1..NPAGES}
  /\ drv = "mem" => \A p \in 1..NPAGES : area[p] = area[1] + p - 1

\* The lock of the mm: one thread that maps, or any number that walk.
LockInv ==
  /\ \A t \in Threads : /\ pc[t] = "RemapPage" <=> writer = t
                        /\ pc[t] = "ShowWalk" <=> t \in readers
  /\ writer = None => pend = Idle
  /\ writer # None => readers = {} /\ pend.region \in Regions

\* Only threads that have not exited run, and without any nothing is left.
AliveInv ==
  /\ \A t \in Threads : pc[t] # "idle" => t \in alive
  /\ alive = {} => fds = {} /\ vma = [r \in Regions |-> NoVma]

Shows == {t \in Threads : pc[t] \in Showing}

\* mm_users: one for each thread, and one for each that shows the /proc file.
UserInv ==
  /\ IsFiniteSet(alive) /\ IsFiniteSet(Shows)
  /\ mm_users = Cardinality(alive) + Cardinality(Shows)

IInv == MmTypes /\ AreaInv /\ LockInv /\ AliveInv /\ UserInv

-----------------------------------------------------------------------------
(* The inductive invariant of the mappings *)

UseInv == drv = None => Unused

\* v shows, from its first page on, the pages of the area, in their order.
FirstPages(v, n) ==
  /\ v.file \in Files
  /\ v.pages <= NPAGES
  /\ Len(v.ptes) = n
  /\ \A p \in 1..n : v.ptes[p] = area[p]

VmaInv == \A r \in Regions : vma[r] \in {NoVma, Image} \/ FirstPages(vma[r], vma[r].pages)

\* The VMA that driver_mmap is filling has at least one page to go.
PendInv ==
  pend # Idle =>
    /\ drv = "nonmem"
    /\ pend.region \in Regions
    /\ FirstPages(pend.vma, Len(pend.vma.ptes))
    /\ Len(pend.vma.ptes) < pend.vma.pages

MapInv == UseInv /\ VmaInv /\ PendInv

-----------------------------------------------------------------------------
(* Lemmas *)

\* A thread that shows the file is a second user of the mm, besides any
\* thread that is alive.
LEMMA TwoUsers ==
  ASSUME IInv, NEW t \in Threads, pc[t] \in Showing, NEW u \in alive
  PROVE  mm_users \in Nat /\ mm_users > 1
<1> DEFINE A == alive
           S == Shows
<1>1. IsFiniteSet(A) /\ IsFiniteSet(S) /\ mm_users = Cardinality(A) + Cardinality(S)
  BY DEF IInv, UserInv
<1>2. A # {} /\ S # {}
  BY DEF Shows
<1> HIDE DEF A, S
<1>3. Cardinality(A) \in Nat /\ Cardinality(A) # 0 /\ Cardinality(S) \in Nat /\ Cardinality(S) # 0
  BY <1>1, <1>2, FS_CardinalityType, FS_EmptySet
<1> QED
  BY <1>1, <1>3

\* What a thread that exits, and no other, leaves behind.
LEMMA LastExit ==
  ASSUME IInv, NEW t \in Threads, Exit(t), alive = {t}
  PROVE  vma' = [r \in Regions |-> NoVma]
<1>1. Shows = {}
  BY DEF Exit, IInv, AliveInv, Shows, Showing
<1>2. Cardinality({t}) = 1 /\ Cardinality(Shows) = 0
  BY <1>1, FS_Singleton, FS_EmptySet
<1>3. mm_users = Cardinality({t}) + Cardinality(Shows)
  BY DEF IInv, UserInv
<1>4. mm_users = 1
  BY <1>2, <1>3
<1> QED
  BY <1>4 DEF Exit, mmput

\* The entry that RemapPage appends, and the VMA that it makes.
LEMMA RemapTypes ==
  ASSUME IInv, NEW n \in Nat, n > 0
  PROVE  vmalloc_to_pfn(n) \in 0..NumFrames
<1>1. area = <<>> \/ area \in [1..NPAGES -> Frames]
  BY DEF IInv, AreaInv
<1> QED
  BY <1>1, MemoryMapAssumption DEF vmalloc_to_pfn, Frames

\* One step of the loop of driver_mmap.
Filled == [pend.vma EXCEPT !.ptes = Append(@, vmalloc_to_pfn(Len(pend.vma.ptes) + 1))]

LEMMA RemapStep ==
  ASSUME IInv, NEW t \in Threads, RemapPage(t)
  PROVE  /\ Filled \in Vmas
         /\ Filled.file = pend.vma.file /\ Filled.pages = pend.vma.pages
         /\ Filled.ptes = Append(pend.vma.ptes, vmalloc_to_pfn(Len(pend.vma.ptes) + 1))
         /\ Len(pend.vma.ptes) \in Nat /\ pend.vma.pages \in Nat
         /\ \/ /\ Len(pend.vma.ptes) + 1 < pend.vma.pages
               /\ pend' = [pend EXCEPT !.vma = Filled]
               /\ UNCHANGED <<writer, vma, pc>>
            \/ /\ Len(pend.vma.ptes) + 1 >= pend.vma.pages
               /\ MapEnds(pend.region, Filled) /\ Goto(t, "idle")
<1>1. pend.vma \in Vmas /\ pend.vma.ptes \in Seq(0..NumFrames)
  BY DEF IInv, MmTypes, Vmas
<1>2. Len(pend.vma.ptes) \in Nat /\ pend.vma.pages \in Nat
  BY <1>1 DEF Vmas
<1>3. vmalloc_to_pfn(Len(pend.vma.ptes) + 1) \in 0..NumFrames
  BY <1>2, RemapTypes
<1>4. /\ Filled \in Vmas
      /\ Filled.file = pend.vma.file /\ Filled.pages = pend.vma.pages
      /\ Filled.ptes = Append(pend.vma.ptes, vmalloc_to_pfn(Len(pend.vma.ptes) + 1))
  <2> DEFINE v == pend.vma
             pfn == vmalloc_to_pfn(Len(pend.vma.ptes) + 1)
  <2>1. Filled = [v EXCEPT !.ptes = Append(v.ptes, pfn)]
    BY DEF Filled
  <2>2. v \in [file : Files \cup {None}, pages : Nat, ptes : Seq(0..NumFrames)] /\ pfn \in 0..NumFrames
    BY <1>1, <1>3 DEF Vmas
  <2> HIDE DEF v, pfn
  <2>3. v.ptes \in Seq(0..NumFrames) /\ Append(v.ptes, pfn) \in Seq(0..NumFrames)
    BY <2>2
  <2>4. /\ Filled \in Vmas /\ Filled.file = v.file /\ Filled.pages = v.pages
        /\ Filled.ptes = Append(v.ptes, pfn)
    BY <2>1, <2>2, <2>3 DEF Vmas
  <2> QED
    BY <2>4 DEF v, pfn
<1>5. \/ Filled.pages > Len(pend.vma.ptes) + 1 /\ pend' = [pend EXCEPT !.vma = Filled] /\ UNCHANGED <<writer, vma, pc>>
      \/ ~(Filled.pages > Len(pend.vma.ptes) + 1) /\ MapEnds(pend.region, Filled) /\ Goto(t, "idle")
  BY <1>2, <1>4 DEF RemapPage, Filled
<1> QED
  BY <1>2, <1>4, <1>5

\* The page that it appends is the next one of the area, and is the last one
\* when the VMA is put among the others.
LEMMA RemapShows ==
  ASSUME IInv, MapInv, NEW t \in Threads, RemapPage(t)
  PROVE  /\ drv = "nonmem" /\ pend.region \in Regions
         /\ Len(Filled.ptes) = Len(pend.vma.ptes) + 1
         /\ FirstPages(Filled, Len(Filled.ptes))
         /\ Len(pend.vma.ptes) + 1 >= pend.vma.pages => FirstPages(Filled, Filled.pages)
<1> DEFINE s == pend.vma.ptes
           n == Len(pend.vma.ptes)
           v == Filled
<1>1. pend # Idle
  BY MemoryMapAssumption DEF RemapPage, IInv, LockInv, Idle, Regions
<1>2. /\ drv = "nonmem" /\ pend.region \in Regions /\ pend.vma.file \in Files
      /\ pend.vma.pages <= NPAGES /\ n < pend.vma.pages /\ \A p \in 1..n : s[p] = area[p]
  BY <1>1 DEF MapInv, PendInv, FirstPages
<1>3. area \in [1..NPAGES -> Frames] /\ s \in Seq(0..NumFrames) /\ n \in Nat /\ pend.vma.pages \in Nat /\ NPAGES \in Nat
  BY <1>2, MemoryMapAssumption DEF IInv, AreaInv, MmTypes, Vmas
<1>4. vmalloc_to_pfn(n + 1) = area[n + 1]
  BY <1>2, <1>3 DEF vmalloc_to_pfn
<1>5. v.file = pend.vma.file /\ v.pages = pend.vma.pages /\ v.ptes = Append(s, area[n + 1])
  BY <1>4, RemapStep
<1>6. n = Len(s)
  OBVIOUS
<1> HIDE DEF s, n, v
<1>7. Len(v.ptes) = n + 1 /\ \A p \in 1..(n + 1) : v.ptes[p] = area[p]
  <2>1. Len(Append(s, area[n + 1])) = n + 1
    BY <1>3, <1>6
  <2>2. ASSUME NEW p \in 1..(n + 1) PROVE Append(s, area[n + 1])[p] = area[p]
    <3>1. CASE p = n + 1
      BY <1>3, <1>6, <3>1
    <3>2. CASE p \in 1..n
      BY <1>2, <1>3, <1>6, <3>2
    <3>3. n \in Nat
      BY <1>3
    <3>4. p = n + 1 \/ p \in 1..n
      BY <3>3
    <3> QED
      BY <3>1, <3>2, <3>4
  <2> QED
    BY <1>5, <2>1, <2>2
<1>8. FirstPages(v, n + 1)
  BY <1>2, <1>5, <1>7 DEF FirstPages
<1>9. n + 1 >= v.pages => n + 1 = v.pages
  BY <1>2, <1>3, <1>5
<1> QED
  BY <1>2, <1>5, <1>7, <1>8, <1>9 DEF n, v

-----------------------------------------------------------------------------
(* Each part of the invariant is preserved *)

\* The types.
LEMMA TypeStep ==
  ASSUME IInv, [Next]_vars
  PROVE  MmTypes'
<1>m. MmTypes
  BY DEF IInv
<1>a. MemoryMapAssumption
  BY MemoryMapAssumption
<1>n. NoVma \in Vmas /\ Image \in Vmas /\ Idle \in [region : 0..NumRegions, vma : Vmas] /\ Regions \subseteq 0..NumRegions
  BY MemoryMapAssumption DEF NoVma, Image, Idle, Vmas, Regions
<1>0. UNCHANGED <<drv, alive, fds, writer, readers, vma, pend, pc>> => MmTypes'
  BY DEF IInv, MmTypes
<1>1. ASSUME NEW t \in Threads,
              ShowVma(t)
      PROVE  MmTypes'
  BY <1>1, <1>0 DEF ShowVma, vars, module, lock, show
<1>2. ASSUME NEW t \in Kthreads,
              ShowNoMm(t)
      PROVE  MmTypes'
  BY <1>2, <1>0 DEF ShowNoMm, vars, module, lock, show
<1>3. CASE mydriver_init
  BY <1>3, <1>m, <1>n DEF mydriver_init, SetPageReserved, module, lock, show, MmTypes,
     Showing
<1>4. CASE driver_initt
  BY <1>4, <1>m, <1>n DEF driver_initt, SetPageReserved, module, lock, show, MmTypes,
     Showing
<1>5. CASE mydriver_exit
  BY <1>5, <1>m, <1>n DEF mydriver_exit, FreeArea, module, lock, show, MmTypes, Showing
<1>6. CASE driver_exit
  BY <1>6, <1>m, <1>n DEF driver_exit, FreeArea, module, lock, show, MmTypes, Showing
<1>7. ASSUME NEW t \in Threads, Exec(t) PROVE MmTypes'
  BY <1>7, <1>m, <1>n DEF Exec, module, lock, show, MmTypes, Showing
<1>8. ASSUME NEW t \in Threads, Clone(t) PROVE MmTypes'
  BY <1>8, <1>m, <1>n DEF Clone, module, lock, show, MmTypes, Showing
<1>9. ASSUME NEW t \in Threads, Exit(t) PROVE MmTypes'
  BY <1>9, <1>m, <1>n DEF Exit, mmput, module, lock, show, MmTypes, Showing
<1>10. ASSUME NEW t \in Threads, NEW r \in Regions, Munmap(t, r) PROVE MmTypes'
  BY <1>10, <1>m, <1>n DEF Munmap, module, lock, show, MmTypes, Showing
<1>11. ASSUME NEW t \in Threads, NEW f \in Files, memory_open(t, f) PROVE MmTypes'
  BY <1>11, <1>m, <1>n DEF memory_open, module, lock, show, MmTypes, Showing
<1>12. ASSUME NEW t \in Threads, NEW f \in Files, memory_release(t, f) PROVE MmTypes'
  BY <1>12, <1>m, <1>n DEF memory_release, module, lock, show, MmTypes, Showing
<1>13. ASSUME NEW t \in Threads, NEW f \in Files, NEW r \in Regions, NEW pages \in 1..MaxPages, memory_mmap(t, f, r, pages) PROVE MmTypes'
  <2> DEFINE new == [file |-> f, pages |-> pages, ptes |-> [i \in 1..pages |-> area[1] + i - 1]]
  <2>1. area \in [1..NPAGES -> Frames] /\ pages \in Nat /\ pages <= NPAGES /\ \A i \in 1..NPAGES : area[i] = area[1] + i - 1
    BY <1>13, MemoryMapAssumption DEF memory_mmap, CanMap, Fits, IInv, AreaInv
  <2>2. \A i \in 1..pages : area[1] + i - 1 \in 0..NumFrames
    BY <2>1, MemoryMapAssumption DEF Frames
  <2>3. [i \in 1..pages |-> area[1] + i - 1] \in Seq(0..NumFrames)
    BY <2>1, <2>2
  <2>4. new \in Vmas
    BY <2>1, <2>3 DEF Vmas
  <2>5. vma' = [vma EXCEPT ![r] = new]
    BY <1>13 DEF memory_mmap
  <2> HIDE DEF new
  <2>6. vma' \in [Regions -> Vmas]
    BY <1>m, <2>4, <2>5 DEF MmTypes
  <2> QED
    BY <1>13, <1>m, <2>6 DEF memory_mmap, module, lock, show, MmTypes
<1>14. ASSUME NEW t \in Threads, NEW f \in Files, NEW r \in Regions, NEW pages \in 1..MaxPages, MapStart(t, f, r, pages) PROVE MmTypes'
  <2> DEFINE new == [file |-> f, pages |-> pages, ptes |-> <<>>]
  <2>1. new \in Vmas
    BY DEF Vmas
  <2>2. pend' = [region |-> r, vma |-> new]
    BY <1>14 DEF MapStart
  <2> HIDE DEF new
  <2>3. pend' \in [region : 0..NumRegions, vma : Vmas]
    BY <1>n, <2>1, <2>2
  <2> QED
    BY <1>14, <1>m, <2>3 DEF MapStart, Goto, module, lock, show, MmTypes
<1>15. ASSUME NEW t \in Threads, RemapPage(t) PROVE MmTypes'
  <2>1. CASE pend' = [pend EXCEPT !.vma = Filled] /\ UNCHANGED <<writer, vma, pc>>
    <3>1. pend' \in [region : 0..NumRegions, vma : Vmas]
      BY <1>m, <1>15, <2>1, RemapStep DEF MmTypes
    <3> QED
      BY <1>15, <2>1, <3>1, <1>m DEF RemapPage, MmTypes, module, show
  <2>2. CASE MapEnds(pend.region, Filled) /\ Goto(t, "idle")
    <3>1. vma' \in [Regions -> Vmas]
      BY <1>m, <1>15, <2>2, RemapStep DEF MmTypes, MapEnds
    <3> QED
      BY <1>15, <2>2, <3>1, <1>m, <1>n DEF RemapPage, MmTypes, module, show, MapEnds, Goto
  <2> QED
    BY <1>15, <2>1, <2>2, RemapStep
<1>16. ASSUME NEW t \in Threads, RemapFails(t) PROVE MmTypes'
  BY <1>16, <1>m, <1>n DEF RemapFails, MapFails, Goto, module, lock, show, MmTypes,
     Showing
<1>17. ASSUME NEW t \in Threads, memory_seq_show(t) PROVE MmTypes'
  BY <1>17, <1>m, <1>n DEF memory_seq_show, Goto, module, lock, show, MmTypes, Showing
<1>18. ASSUME NEW t \in Threads, ShowLock(t) PROVE MmTypes'
  BY <1>18, <1>m, <1>n DEF ShowLock, Goto, module, lock, show, MmTypes, Showing
<1>19. ASSUME NEW t \in Threads, ShowUnlock(t) PROVE MmTypes'
  BY <1>19, <1>m, <1>n DEF ShowUnlock, Goto, module, lock, show, MmTypes, Showing
<1>20. ASSUME NEW t \in Threads, ShowPut(t) PROVE MmTypes'
  BY <1>20, <1>m, <1>n DEF ShowPut, Goto, mmput, module, lock, show, MmTypes, Showing
<1>21. CASE UNCHANGED vars
  BY <1>21, <1>0 DEF vars, module, lock, show
<1> QED
  BY <1>1, <1>2, <1>3, <1>4, <1>5, <1>6, <1>7, <1>8, <1>9, <1>10, <1>11, <1>12, <1>13,
     <1>14, <1>15, <1>16, <1>17, <1>18, <1>19, <1>20, <1>21 DEF Next, Process

\* The area is whole while a driver is loaded, and all of it reserved.
LEMMA AreaStep ==
  ASSUME IInv, [Next]_vars
  PROVE  AreaInv'
<1>m. MmTypes
  BY DEF IInv
<1>a. MemoryMapAssumption
  BY MemoryMapAssumption
<1>b. AreaInv
  BY DEF IInv
<1>0. UNCHANGED <<drv, area, reserved>> => AreaInv'
  BY DEF IInv, AreaInv
<1>1. ASSUME NEW t \in Threads,
              Exec(t) \/ Clone(t) \/ Exit(t) \/ RemapPage(t) \/ RemapFails(t)
              \/ memory_seq_show(t) \/ ShowLock(t) \/ ShowVma(t) \/ ShowUnlock(t)
              \/ ShowPut(t)
      PROVE  AreaInv'
  BY <1>1, <1>0 DEF Exec, Clone, Exit, RemapPage, RemapFails, memory_seq_show, ShowLock,
     ShowVma, ShowUnlock, ShowPut, vars, module, lock, show
<1>2. ASSUME NEW t \in Threads, NEW r \in Regions,
              Munmap(t, r)
      PROVE  AreaInv'
  BY <1>2, <1>0 DEF Munmap, vars, module, lock, show
<1>3. ASSUME NEW t \in Threads, NEW f \in Files,
              memory_open(t, f) \/ memory_release(t, f)
      PROVE  AreaInv'
  BY <1>3, <1>0 DEF memory_open, memory_release, vars, module, lock, show
<1>4. ASSUME NEW t \in Threads, NEW f \in Files, NEW r \in Regions, NEW pages \in 1..MaxPages,
              memory_mmap(t, f, r, pages) \/ MapStart(t, f, r, pages)
      PROVE  AreaInv'
  BY <1>4, <1>0 DEF memory_mmap, MapStart, vars, module, lock, show
<1>5. ASSUME NEW t \in Kthreads,
              ShowNoMm(t)
      PROVE  AreaInv'
  BY <1>5, <1>0 DEF ShowNoMm, vars, module, lock, show
<1>6. CASE mydriver_init
  BY <1>6, <1>m, <1>b, <1>a DEF mydriver_init, SetPageReserved, module, lock, show,
     AreaInv, MmTypes, MemoryMapAssumption, Frames
<1>7. CASE driver_initt
  BY <1>7, <1>m, <1>b, <1>a DEF driver_initt, SetPageReserved, module, lock, show,
     AreaInv, MmTypes, MemoryMapAssumption, Frames
<1>8. CASE mydriver_exit
  BY <1>8, <1>m, <1>b, <1>a DEF mydriver_exit, FreeArea, module, lock, show, AreaInv,
     MmTypes, MemoryMapAssumption, Frames
<1>9. CASE driver_exit
  BY <1>9, <1>m, <1>b, <1>a DEF driver_exit, FreeArea, module, lock, show, AreaInv,
     MmTypes, MemoryMapAssumption, Frames
<1>10. CASE UNCHANGED vars
  BY <1>10, <1>0 DEF vars, module, lock, show
<1> QED
  BY <1>1, <1>2, <1>3, <1>4, <1>5, <1>6, <1>7, <1>8, <1>9, <1>10 DEF Next, Process

\* The lock and the VMA that is being mapped.
LEMMA LockStep ==
  ASSUME IInv, [Next]_vars
  PROVE  LockInv'
<1>m. MmTypes
  BY DEF IInv
<1>a. MemoryMapAssumption
  BY MemoryMapAssumption
<1>b. LockInv
  BY DEF IInv
<1>0. UNCHANGED <<writer, readers, pend, pc>> => LockInv'
  BY DEF IInv, LockInv
<1>1. CASE mydriver_init \/ driver_initt \/ mydriver_exit \/ driver_exit
  BY <1>1, <1>0 DEF mydriver_init, driver_initt, mydriver_exit, driver_exit, vars,
     module, lock, show
<1>2. ASSUME NEW t \in Threads,
              Exec(t) \/ Clone(t) \/ Exit(t) \/ ShowVma(t)
      PROVE  LockInv'
  BY <1>2, <1>0 DEF Exec, Clone, Exit, ShowVma, vars, module, lock, show
<1>3. ASSUME NEW t \in Threads, NEW r \in Regions,
              Munmap(t, r)
      PROVE  LockInv'
  BY <1>3, <1>0 DEF Munmap, vars, module, lock, show
<1>4. ASSUME NEW t \in Threads, NEW f \in Files,
              memory_open(t, f) \/ memory_release(t, f)
      PROVE  LockInv'
  BY <1>4, <1>0 DEF memory_open, memory_release, vars, module, lock, show
<1>5. ASSUME NEW t \in Threads, NEW f \in Files, NEW r \in Regions, NEW pages \in 1..MaxPages,
              memory_mmap(t, f, r, pages)
      PROVE  LockInv'
  BY <1>5, <1>0 DEF memory_mmap, vars, module, lock, show
<1>6. ASSUME NEW t \in Kthreads,
              ShowNoMm(t)
      PROVE  LockInv'
  BY <1>6, <1>0 DEF ShowNoMm, vars, module, lock, show
<1>7. ASSUME NEW t \in Threads, NEW f \in Files, NEW r \in Regions, NEW pages \in 1..MaxPages, MapStart(t, f, r, pages) PROVE LockInv'
  <2>1. pend'.region = r /\ writer = None /\ readers = {}
    BY <1>7 DEF MapStart, CanMap
  <2>2. writer' = t /\ pc' = [pc EXCEPT ![t] = "RemapPage"] /\ pc[t] = "idle" /\ readers' = readers
    BY <1>7 DEF MapStart, CanMap, Goto
  <2> QED
    BY <2>1, <2>2, <1>m, <1>b, <1>a DEF LockInv, MmTypes, MemoryMapAssumption, Showing
<1>8. ASSUME NEW t \in Threads, RemapPage(t) PROVE LockInv'
  <2>1. writer = t /\ pend.region \in Regions /\ readers = {} /\ readers' = readers
    BY <1>8, <1>b, <1>a DEF RemapPage, LockInv, MemoryMapAssumption
  <2>2. CASE pend' = [pend EXCEPT !.vma = Filled] /\ UNCHANGED <<writer, vma, pc>>
    <3>1. pend'.region = pend.region
      BY <2>2, <1>m DEF MmTypes
    <3> QED
      BY <2>1, <2>2, <3>1, <1>b, <1>a DEF LockInv, MemoryMapAssumption
  <2>3. CASE MapEnds(pend.region, Filled) /\ Goto(t, "idle")
    BY <2>1, <2>3, <1>m, <1>b, <1>a DEF MapEnds, Goto, LockInv, MmTypes, MemoryMapAssumption
  <2> QED
    BY <1>8, <2>2, <2>3, RemapStep
<1>9. ASSUME NEW t \in Threads, RemapFails(t) PROVE LockInv'
  BY <1>9, <1>m, <1>b, <1>a DEF RemapFails, MapFails, Goto, module, lock, show, LockInv,
     MmTypes, MemoryMapAssumption, Showing
<1>10. ASSUME NEW t \in Threads, memory_seq_show(t) PROVE LockInv'
  BY <1>10, <1>m, <1>b, <1>a DEF memory_seq_show, Goto, module, lock, show, LockInv,
     MmTypes, MemoryMapAssumption, Showing
<1>11. ASSUME NEW t \in Threads, ShowLock(t) PROVE LockInv'
  BY <1>11, <1>m, <1>b, <1>a DEF ShowLock, Goto, module, lock, show, LockInv, MmTypes,
     MemoryMapAssumption, Showing
<1>12. ASSUME NEW t \in Threads, ShowUnlock(t) PROVE LockInv'
  BY <1>12, <1>m, <1>b, <1>a DEF ShowUnlock, Goto, module, lock, show, LockInv, MmTypes,
     MemoryMapAssumption, Showing
<1>13. ASSUME NEW t \in Threads, ShowPut(t) PROVE LockInv'
  BY <1>13, <1>m, <1>b, <1>a DEF ShowPut, Goto, mmput, module, lock, show, LockInv,
     MmTypes, MemoryMapAssumption, Showing
<1>14. CASE UNCHANGED vars
  BY <1>14, <1>0 DEF vars, module, lock, show
<1> QED
  BY <1>1, <1>2, <1>3, <1>4, <1>5, <1>6, <1>7, <1>8, <1>9, <1>10, <1>11, <1>12, <1>13,
     <1>14 DEF Next, Process

\* The last thread to exit takes everything with it.
LEMMA AliveStep ==
  ASSUME IInv, [Next]_vars
  PROVE  AliveInv'
<1>m. MmTypes
  BY DEF IInv
<1>a. MemoryMapAssumption
  BY MemoryMapAssumption
<1>b. AliveInv
  BY DEF IInv
<1>0. UNCHANGED <<alive, fds, vma, pc>> => AliveInv'
  BY DEF IInv, AliveInv
<1>1. CASE mydriver_init \/ driver_initt \/ mydriver_exit \/ driver_exit
  BY <1>1, <1>0 DEF mydriver_init, driver_initt, mydriver_exit, driver_exit, vars,
     module, lock, show
<1>2. ASSUME NEW t \in Threads,
              ShowVma(t)
      PROVE  AliveInv'
  BY <1>2, <1>0 DEF ShowVma, vars, module, lock, show
<1>3. ASSUME NEW t \in Kthreads,
              ShowNoMm(t)
      PROVE  AliveInv'
  BY <1>3, <1>0 DEF ShowNoMm, vars, module, lock, show
<1>4. ASSUME NEW t \in Threads, Exec(t) PROVE AliveInv'
  BY <1>4, <1>m, <1>b, <1>a DEF Exec, module, lock, show, AliveInv, MmTypes,
     MemoryMapAssumption, Showing
<1>5. ASSUME NEW t \in Threads, Clone(t) PROVE AliveInv'
  BY <1>5, <1>m, <1>b, <1>a DEF Clone, module, lock, show, AliveInv, MmTypes,
     MemoryMapAssumption, Showing
<1>6. ASSUME NEW t \in Threads, Exit(t) PROVE AliveInv'
  <2>1. alive = {t} => vma' = [r \in Regions |-> NoVma]
    BY <1>6, LastExit
  <2>2. alive' = {} <=> alive = {t}
    BY <1>6 DEF Exit
  <2> QED
    BY <1>6, <1>b, <2>1, <2>2 DEF Exit, AliveInv
<1>7. ASSUME NEW t \in Threads, NEW r \in Regions, Munmap(t, r) PROVE AliveInv'
  BY <1>7, <1>m, <1>b, <1>a DEF Munmap, module, lock, show, AliveInv, MmTypes,
     MemoryMapAssumption, Showing
<1>8. ASSUME NEW t \in Threads, NEW f \in Files, memory_open(t, f) PROVE AliveInv'
  BY <1>8, <1>m, <1>b, <1>a DEF memory_open, module, lock, show, AliveInv, MmTypes,
     MemoryMapAssumption, Showing
<1>9. ASSUME NEW t \in Threads, NEW f \in Files, memory_release(t, f) PROVE AliveInv'
  BY <1>9, <1>m, <1>b, <1>a DEF memory_release, module, lock, show, AliveInv, MmTypes,
     MemoryMapAssumption, Showing
<1>10. ASSUME NEW t \in Threads, NEW f \in Files, NEW r \in Regions, NEW pages \in 1..MaxPages, memory_mmap(t, f, r, pages) PROVE AliveInv'
  BY <1>10, <1>m, <1>b, <1>a DEF memory_mmap, CanMap, Fits, module, lock, show,
     AliveInv, MmTypes, MemoryMapAssumption, Showing
<1>11. ASSUME NEW t \in Threads, NEW f \in Files, NEW r \in Regions, NEW pages \in 1..MaxPages, MapStart(t, f, r, pages) PROVE AliveInv'
  BY <1>11, <1>m, <1>b, <1>a DEF MapStart, CanMap, Fits, Goto, module, lock, show,
     AliveInv, MmTypes, MemoryMapAssumption, Showing
<1>12. ASSUME NEW t \in Threads, RemapPage(t) PROVE AliveInv'
  BY <1>12, <1>m, <1>b, <1>a DEF RemapPage, MapEnds, Goto, module, lock, show, AliveInv,
     MmTypes, MemoryMapAssumption, Showing
<1>13. ASSUME NEW t \in Threads, RemapFails(t) PROVE AliveInv'
  BY <1>13, <1>m, <1>b, <1>a DEF RemapFails, MapFails, Goto, module, lock, show,
     AliveInv, MmTypes, MemoryMapAssumption, Showing
<1>14. ASSUME NEW t \in Threads, memory_seq_show(t) PROVE AliveInv'
  BY <1>14, <1>m, <1>b, <1>a DEF memory_seq_show, Goto, module, lock, show, AliveInv,
     MmTypes, MemoryMapAssumption, Showing
<1>15. ASSUME NEW t \in Threads, ShowLock(t) PROVE AliveInv'
  BY <1>15, <1>m, <1>b, <1>a DEF ShowLock, Goto, module, lock, show, AliveInv, MmTypes,
     MemoryMapAssumption, Showing
<1>16. ASSUME NEW t \in Threads, ShowUnlock(t) PROVE AliveInv'
  BY <1>16, <1>m, <1>b, <1>a DEF ShowUnlock, Goto, module, lock, show, AliveInv,
     MmTypes, MemoryMapAssumption, Showing
<1>17. ASSUME NEW t \in Threads, ShowPut(t) PROVE AliveInv'
  BY <1>17, <1>m, <1>b, <1>a DEF ShowPut, Goto, mmput, module, lock, show, AliveInv,
     MmTypes, MemoryMapAssumption, Showing
<1>18. CASE UNCHANGED vars
  BY <1>18, <1>0 DEF vars, module, lock, show
<1> QED
  BY <1>1, <1>2, <1>3, <1>4, <1>5, <1>6, <1>7, <1>8, <1>9, <1>10, <1>11, <1>12, <1>13,
     <1>14, <1>15, <1>16, <1>17, <1>18 DEF Next, Process

\* The user count of the mm: get_task_mm and mmput keep it in step.
LEMMA UserStep ==
  ASSUME IInv, [Next]_vars
  PROVE  UserInv'
<1>m. MmTypes
  BY DEF IInv
<1>a. MemoryMapAssumption
  BY MemoryMapAssumption
<1>b. UserInv
  BY DEF IInv
<1>c. IsFiniteSet(alive) /\ IsFiniteSet(Shows) /\ Cardinality(alive) \in Nat /\ Cardinality(Shows) \in Nat
  BY <1>b, FS_CardinalityType DEF UserInv
<1>0. UNCHANGED <<alive, mm_users, pc>> => UserInv'
  BY DEF IInv, UserInv, Shows
<1>1. CASE mydriver_init \/ driver_initt \/ mydriver_exit \/ driver_exit
  BY <1>1, <1>0 DEF mydriver_init, driver_initt, mydriver_exit, driver_exit, vars,
     module, lock, show
<1>2. ASSUME NEW t \in Threads, NEW r \in Regions,
              Munmap(t, r)
      PROVE  UserInv'
  BY <1>2, <1>0 DEF Munmap, vars, module, lock, show
<1>3. ASSUME NEW t \in Threads, NEW f \in Files,
              memory_open(t, f) \/ memory_release(t, f)
      PROVE  UserInv'
  BY <1>3, <1>0 DEF memory_open, memory_release, vars, module, lock, show
<1>4. ASSUME NEW t \in Threads, NEW f \in Files, NEW r \in Regions, NEW pages \in 1..MaxPages,
              memory_mmap(t, f, r, pages)
      PROVE  UserInv'
  BY <1>4, <1>0 DEF memory_mmap, vars, module, lock, show
<1>5. ASSUME NEW t \in Threads,
              ShowVma(t)
      PROVE  UserInv'
  BY <1>5, <1>0 DEF ShowVma, vars, module, lock, show
<1>6. ASSUME NEW t \in Kthreads,
              ShowNoMm(t)
      PROVE  UserInv'
  BY <1>6, <1>0 DEF ShowNoMm, vars, module, lock, show
<1>7. ASSUME NEW t \in Threads, Exec(t) PROVE UserInv'
  <2>1. Shows' = Shows
    BY <1>7 DEF Exec, Shows
  <2>2. Cardinality({t}) = 1 /\ IsFiniteSet({t}) /\ Cardinality({}) = 0
    BY FS_Singleton, FS_EmptySet
  <2>3. mm_users = 0 /\ alive = {} /\ alive' = {t} /\ mm_users' = 1
    BY <1>7 DEF Exec
  <2> QED
    BY <1>b, <1>c, <2>1, <2>2, <2>3 DEF UserInv
<1>8. ASSUME NEW t \in Threads, Clone(t) PROVE UserInv'
  <2>1. Shows' = Shows
    BY <1>8 DEF Clone, Shows
  <2>2. Cardinality(alive \cup {t}) = Cardinality(alive) + 1 /\ IsFiniteSet(alive \cup {t})
    BY <1>8, <1>c, FS_AddElement DEF Clone
  <2>3. alive' = alive \cup {t} /\ mm_users' = mm_users + 1
    BY <1>8 DEF Clone
  <2> QED
    BY <1>b, <1>c, <2>1, <2>2, <2>3 DEF UserInv
<1>9. ASSUME NEW t \in Threads, Exit(t) PROVE UserInv'
  <2>1. Shows' = Shows
    BY <1>9 DEF Exit, Shows
  <2>2. Cardinality(alive \ {t}) = Cardinality(alive) - 1 /\ IsFiniteSet(alive \ {t})
    BY <1>9, <1>c, FS_RemoveElement DEF Exit
  <2>3. alive' = alive \ {t} /\ mm_users' = mm_users - 1
    BY <1>9 DEF Exit, mmput
  <2>4. alive # {} /\ Cardinality(alive) > 0
    BY <1>9, <1>c, FS_EmptySet DEF Exit
  <2> QED
    BY <1>b, <1>c, <2>1, <2>2, <2>3, <2>4 DEF UserInv
<1>10. ASSUME NEW t \in Threads, NEW f \in Files, NEW r \in Regions, NEW pages \in 1..MaxPages, MapStart(t, f, r, pages) PROVE UserInv'
  <2>1. Shows' = Shows
    BY <1>10, <1>m DEF MapStart, CanMap, Goto, MmTypes, Shows, Showing
  <2> QED
    BY <1>10, <1>b, <2>1 DEF MapStart, module, lock, show, UserInv
<1>11. ASSUME NEW t \in Threads, RemapPage(t) PROVE UserInv'
  <2>1. Shows' = Shows
    <3>1. CASE UNCHANGED pc
      BY <3>1 DEF Shows
    <3>2. CASE Goto(t, "idle")
      BY <1>11, <3>2, <1>m DEF RemapPage, Goto, MmTypes, Shows, Showing
    <3> QED
      BY <1>11, <3>1, <3>2, RemapStep
  <2> QED
    BY <1>11, <1>b, <2>1 DEF RemapPage, module, lock, show, UserInv
<1>12. ASSUME NEW t \in Threads, RemapFails(t) PROVE UserInv'
  <2>1. Shows' = Shows
    BY <1>12, <1>m DEF RemapFails, Goto, MmTypes, Shows, Showing
  <2> QED
    BY <1>12, <1>b, <2>1 DEF RemapFails, module, lock, show, UserInv
<1>13. ASSUME NEW t \in Threads, memory_seq_show(t) PROVE UserInv'
  <2>1. t \notin Shows /\ Shows' = Shows \cup {t}
    BY <1>13, <1>m DEF memory_seq_show, Goto, MmTypes, Shows, Showing
  <2>2. Cardinality(Shows \cup {t}) = Cardinality(Shows) + 1 /\ IsFiniteSet(Shows \cup {t})
    BY <2>1, <1>c, FS_AddElement
  <2>3. alive' = alive /\ mm_users' = mm_users + 1
    BY <1>13 DEF memory_seq_show
  <2> QED
    BY <1>b, <1>c, <2>1, <2>2, <2>3 DEF UserInv
<1>14. ASSUME NEW t \in Threads, ShowLock(t) PROVE UserInv'
  <2>1. Shows' = Shows
    BY <1>14, <1>m DEF ShowLock, Goto, MmTypes, Shows, Showing
  <2> QED
    BY <1>14, <1>b, <2>1 DEF ShowLock, module, lock, show, UserInv
<1>15. ASSUME NEW t \in Threads, ShowUnlock(t) PROVE UserInv'
  <2>1. Shows' = Shows
    BY <1>15, <1>m DEF ShowUnlock, Goto, MmTypes, Shows, Showing
  <2> QED
    BY <1>15, <1>b, <2>1 DEF ShowUnlock, module, lock, show, UserInv
<1>16. ASSUME NEW t \in Threads, ShowPut(t) PROVE UserInv'
  <2>1. t \in Shows /\ Shows' = Shows \ {t}
    BY <1>16, <1>m DEF ShowPut, Goto, MmTypes, Shows, Showing
  <2>2. Cardinality(Shows \ {t}) = Cardinality(Shows) - 1 /\ IsFiniteSet(Shows \ {t})
    BY <2>1, <1>c, FS_RemoveElement
  <2>3. alive' = alive /\ mm_users' = mm_users - 1
    BY <1>16 DEF ShowPut, mmput
  <2> QED
    BY <1>b, <1>c, <2>1, <2>2, <2>3 DEF UserInv
<1>17. CASE UNCHANGED vars
  BY <1>17, <1>0 DEF vars, module, lock, show
<1> QED
  BY <1>1, <1>2, <1>3, <1>4, <1>5, <1>6, <1>7, <1>8, <1>9, <1>10, <1>11, <1>12, <1>13,
     <1>14, <1>15, <1>16, <1>17 DEF Next, Process

-----------------------------------------------------------------------------
(* The mappings *)

\* Nobody opens or maps a device whose driver is gone.
LEMMA UseStep ==
  ASSUME ~RemoveInUse, IInv, MapInv, [Next]_vars
  PROVE  UseInv'
<1>m. MmTypes
  BY DEF IInv
<1>a. MemoryMapAssumption
  BY MemoryMapAssumption
<1>b. UseInv
  BY DEF MapInv
<1>i. Idle.vma.file = None /\ NoVma.file = None /\ Image.file = None /\ NoVma # Image
  BY DEF Idle, NoVma, Image
<1>0. UNCHANGED <<drv, fds, vma, pend>> => UseInv'
  BY DEF IInv, UseInv, Unused, Mapped, MapInv
<1>1. ASSUME NEW t \in Threads,
              Clone(t) \/ memory_seq_show(t) \/ ShowLock(t) \/ ShowVma(t)
              \/ ShowUnlock(t)
      PROVE  UseInv'
  BY <1>1, <1>0 DEF Clone, memory_seq_show, ShowLock, ShowVma, ShowUnlock, vars, module,
     lock, show
<1>2. ASSUME NEW t \in Kthreads,
              ShowNoMm(t)
      PROVE  UseInv'
  BY <1>2, <1>0 DEF ShowNoMm, vars, module, lock, show
<1>3. CASE mydriver_init
  BY <1>3, <1>m, <1>b, <1>a, <1>i DEF mydriver_init, SetPageReserved, module, lock,
     show, UseInv, Unused, Mapped, MmTypes, MemoryMapAssumption
<1>4. CASE driver_initt
  BY <1>4, <1>m, <1>b, <1>a, <1>i DEF driver_initt, SetPageReserved, module, lock, show,
     UseInv, Unused, Mapped, MmTypes, MemoryMapAssumption
<1>5. CASE mydriver_exit
  BY <1>5, <1>m, <1>b, <1>a, <1>i DEF mydriver_exit, FreeArea, module, lock, show,
     UseInv, Unused, Mapped, MmTypes, MemoryMapAssumption
<1>6. CASE driver_exit
  BY <1>6, <1>m, <1>b, <1>a, <1>i DEF driver_exit, FreeArea, module, lock, show, UseInv,
     Unused, Mapped, MmTypes, MemoryMapAssumption
<1>7. ASSUME NEW t \in Threads, Exec(t) PROVE UseInv'
  <2>1. \A r \in Regions : vma'[r] = vma[r] \/ vma'[r] = Image
    BY <1>7, <1>m DEF Exec, MmTypes
  <2> QED
    BY <1>7, <1>b, <1>i, <2>1 DEF Exec, UseInv, Unused, Mapped, module
<1>8. ASSUME NEW t \in Threads, Exit(t) PROVE UseInv'
  <2>1. \A r \in Regions : vma'[r] = vma[r] \/ vma'[r] = NoVma
    BY <1>8, <1>m DEF Exit, mmput, MmTypes
  <2> QED
    BY <1>8, <1>b, <1>i, <2>1 DEF Exit, UseInv, Unused, Mapped, module
<1>9. ASSUME NEW t \in Threads, NEW r \in Regions, Munmap(t, r) PROVE UseInv'
  <2>1. \A s \in Regions : vma'[s] = vma[s] \/ vma'[s] = NoVma
    BY <1>9, <1>m DEF Munmap, MmTypes
  <2> QED
    BY <1>9, <1>b, <1>i, <2>1 DEF Munmap, UseInv, Unused, Mapped, module
<1>10. ASSUME NEW t \in Threads, NEW f \in Files, memory_open(t, f) PROVE UseInv'
  BY <1>10, <1>m, <1>b, <1>a, <1>i DEF memory_open, module, lock, show, UseInv, Unused,
     Mapped, MmTypes, MemoryMapAssumption
<1>11. ASSUME NEW t \in Threads, NEW f \in Files, memory_release(t, f) PROVE UseInv'
  BY <1>11, <1>m, <1>b, <1>a, <1>i DEF memory_release, module, lock, show, UseInv,
     Unused, Mapped, MmTypes, MemoryMapAssumption
<1>12. ASSUME NEW t \in Threads, NEW f \in Files, NEW r \in Regions, NEW pages \in 1..MaxPages, memory_mmap(t, f, r, pages) PROVE UseInv'
  BY <1>12, <1>a DEF memory_mmap, module, UseInv, MemoryMapAssumption
<1>13. ASSUME NEW t \in Threads, NEW f \in Files, NEW r \in Regions, NEW pages \in 1..MaxPages, MapStart(t, f, r, pages) PROVE UseInv'
  BY <1>13, <1>a DEF MapStart, module, UseInv, MemoryMapAssumption
<1>14. ASSUME NEW t \in Threads, RemapPage(t) PROVE UseInv'
  <2>1. pend # Idle
    BY <1>14, <1>a DEF RemapPage, IInv, LockInv, MemoryMapAssumption, Idle, Regions
  <2>2. drv # None
    BY <2>1, <1>a DEF MapInv, PendInv, MemoryMapAssumption
  <2> QED
    BY <1>14, <2>2 DEF RemapPage, module, UseInv
<1>15. ASSUME NEW t \in Threads, RemapFails(t) PROVE UseInv'
  <2>1. pend # Idle
    BY <1>15, <1>a DEF RemapFails, IInv, LockInv, MemoryMapAssumption, Idle, Regions
  <2>2. drv # None
    BY <2>1, <1>a DEF MapInv, PendInv, MemoryMapAssumption
  <2> QED
    BY <1>15, <2>2 DEF RemapFails, module, UseInv
<1>16. ASSUME NEW t \in Threads, ShowPut(t) PROVE UseInv'
  <2>1. \A r \in Regions : vma'[r] = vma[r] \/ vma'[r] = NoVma
    BY <1>16, <1>m DEF ShowPut, mmput, MmTypes
  <2> QED
    BY <1>16, <1>b, <1>i, <2>1 DEF ShowPut, UseInv, Unused, Mapped, module
<1>17. CASE UNCHANGED vars
  BY <1>17, <1>0 DEF vars, module, lock, show
<1> QED
  BY <1>1, <1>2, <1>3, <1>4, <1>5, <1>6, <1>7, <1>8, <1>9, <1>10, <1>11, <1>12, <1>13,
     <1>14, <1>15, <1>16, <1>17 DEF Next, Process

\* What is mapped is the area, from its first page on.
LEMMA VmaStep ==
  ASSUME ~RemoveInUse, IInv, MapInv, [Next]_vars
  PROVE  VmaInv'
<1>m. MmTypes
  BY DEF IInv
<1>a. MemoryMapAssumption
  BY MemoryMapAssumption
<1>b. VmaInv
  BY DEF MapInv
<1>i. NoVma.file = None /\ Image.file = None
  BY DEF NoVma, Image
<1>0. UNCHANGED <<area, vma>> => VmaInv'
  BY DEF IInv, VmaInv, FirstPages, MapInv
<1>1. ASSUME NEW t \in Threads,
              Clone(t) \/ RemapFails(t) \/ memory_seq_show(t) \/ ShowLock(t)
              \/ ShowVma(t) \/ ShowUnlock(t)
      PROVE  VmaInv'
  BY <1>1, <1>0 DEF Clone, RemapFails, memory_seq_show, ShowLock, ShowVma, ShowUnlock,
     vars, MapFails, module, lock, show
<1>2. ASSUME NEW t \in Threads, NEW f \in Files,
              memory_open(t, f) \/ memory_release(t, f)
      PROVE  VmaInv'
  BY <1>2, <1>0 DEF memory_open, memory_release, vars, MapFails, module, lock, show
<1>3. ASSUME NEW t \in Threads, NEW f \in Files, NEW r \in Regions, NEW pages \in 1..MaxPages,
              MapStart(t, f, r, pages)
      PROVE  VmaInv'
  BY <1>3, <1>0 DEF MapStart, vars, MapFails, module, lock, show
<1>4. ASSUME NEW t \in Kthreads,
              ShowNoMm(t)
      PROVE  VmaInv'
  BY <1>4, <1>0 DEF ShowNoMm, vars, MapFails, module, lock, show
<1>5. CASE mydriver_init
  <2>1. \A r \in Regions : vma[r].file = None
    BY <1>5, <1>b DEF mydriver_init, FreeArea, MapInv, UseInv, Unused, Mapped
  <2>2. \A r \in Regions : vma[r] \in {NoVma, Image}
    BY <2>1, <1>b, <1>a DEF VmaInv, FirstPages, MemoryMapAssumption
  <2> QED
    BY <1>5, <2>2 DEF mydriver_init, VmaInv
<1>6. CASE driver_initt
  <2>1. \A r \in Regions : vma[r].file = None
    BY <1>6, <1>b DEF driver_initt, FreeArea, MapInv, UseInv, Unused, Mapped
  <2>2. \A r \in Regions : vma[r] \in {NoVma, Image}
    BY <2>1, <1>b, <1>a DEF VmaInv, FirstPages, MemoryMapAssumption
  <2> QED
    BY <1>6, <2>2 DEF driver_initt, VmaInv
<1>7. CASE mydriver_exit
  <2>1. \A r \in Regions : vma[r].file = None
    BY <1>7, <1>b DEF mydriver_exit, FreeArea, MapInv, UseInv, Unused, Mapped
  <2>2. \A r \in Regions : vma[r] \in {NoVma, Image}
    BY <2>1, <1>b, <1>a DEF VmaInv, FirstPages, MemoryMapAssumption
  <2> QED
    BY <1>7, <2>2 DEF mydriver_exit, VmaInv
<1>8. CASE driver_exit
  <2>1. \A r \in Regions : vma[r].file = None
    BY <1>8, <1>b DEF driver_exit, FreeArea, MapInv, UseInv, Unused, Mapped
  <2>2. \A r \in Regions : vma[r] \in {NoVma, Image}
    BY <2>1, <1>b, <1>a DEF VmaInv, FirstPages, MemoryMapAssumption
  <2> QED
    BY <1>8, <2>2 DEF driver_exit, VmaInv
<1>9. ASSUME NEW t \in Threads, Exec(t) PROVE VmaInv'
  <2>1. \A s \in Regions : vma'[s] = vma[s] \/ vma'[s] \in {NoVma, Image}
    BY <1>9, <1>m DEF Exec, mmput, MmTypes
  <2>2. area' = area
    BY <1>9 DEF Exec, module
  <2> QED
    BY <1>b, <2>1, <2>2 DEF VmaInv, FirstPages
<1>10. ASSUME NEW t \in Threads, Exit(t) PROVE VmaInv'
  <2>1. \A s \in Regions : vma'[s] = vma[s] \/ vma'[s] \in {NoVma, Image}
    BY <1>10, <1>m DEF Exit, mmput, MmTypes
  <2>2. area' = area
    BY <1>10 DEF Exit, module
  <2> QED
    BY <1>b, <2>1, <2>2 DEF VmaInv, FirstPages
<1>11. ASSUME NEW t \in Threads, NEW r \in Regions, Munmap(t, r) PROVE VmaInv'
  <2>1. \A s \in Regions : vma'[s] = vma[s] \/ vma'[s] \in {NoVma, Image}
    BY <1>11, <1>m DEF Munmap, mmput, MmTypes
  <2>2. area' = area
    BY <1>11 DEF Munmap, module
  <2> QED
    BY <1>b, <2>1, <2>2 DEF VmaInv, FirstPages
<1>12. ASSUME NEW t \in Threads, NEW f \in Files, NEW r \in Regions, NEW pages \in 1..MaxPages, memory_mmap(t, f, r, pages) PROVE VmaInv'
  <2> DEFINE entries == [i \in 1..pages |-> area[1] + i - 1]
             new == [file |-> f, pages |-> pages, ptes |-> entries]
  <2>1. pages \in Nat /\ pages <= NPAGES /\ \A i \in 1..NPAGES : area[i] = area[1] + i - 1
    BY <1>12, <1>a DEF memory_mmap, Fits, IInv, AreaInv, MemoryMapAssumption
  <2>2. \A i \in 1..pages : entries[i] = area[i]
    BY <2>1, <1>a DEF MemoryMapAssumption
  <2>3. Len(entries) = pages
    BY <2>1
  <2>4. vma' = [vma EXCEPT ![r] = new] /\ area' = area
    BY <1>12 DEF memory_mmap, module
  <2>5. new.file = f /\ new.pages = pages /\ new.ptes = entries
    OBVIOUS
  <2> HIDE DEF entries, new
  <2>6. FirstPages(new, new.pages)
    BY <2>1, <2>2, <2>3, <2>5 DEF FirstPages
  <2>7. \A s \in Regions : vma'[s] = vma[s] \/ vma'[s] = new
    BY <1>m, <2>4 DEF MmTypes
  <2> QED
    BY <1>b, <2>4, <2>6, <2>7 DEF VmaInv, FirstPages
<1>13. ASSUME NEW t \in Threads, RemapPage(t) PROVE VmaInv'
  <2>1. area' = area
    BY <1>13 DEF RemapPage, module
  <2>2. CASE UNCHANGED vma
    BY <2>1, <2>2, <1>b DEF VmaInv, FirstPages
  <2>3. CASE Len(pend.vma.ptes) + 1 >= pend.vma.pages /\ MapEnds(pend.region, Filled)
    <3>1. FirstPages(Filled, Filled.pages)
      BY <1>13, <2>3, RemapShows
    <3>2. \A s \in Regions : vma'[s] = vma[s] \/ vma'[s] = Filled
      BY <1>m, <2>3 DEF MmTypes, MapEnds
    <3> QED
      BY <1>b, <2>1, <3>1, <3>2 DEF VmaInv, FirstPages
  <2> QED
    BY <1>13, <2>2, <2>3, RemapStep
<1>14. ASSUME NEW t \in Threads, ShowPut(t) PROVE VmaInv'
  <2>1. \A s \in Regions : vma'[s] = vma[s] \/ vma'[s] \in {NoVma, Image}
    BY <1>14, <1>m DEF ShowPut, mmput, MmTypes
  <2>2. area' = area
    BY <1>14 DEF ShowPut, module
  <2> QED
    BY <1>b, <2>1, <2>2 DEF VmaInv, FirstPages
<1>15. CASE UNCHANGED vars
  BY <1>15, <1>0 DEF vars, module, lock, show
<1> QED
  BY <1>1, <1>2, <1>3, <1>4, <1>5, <1>6, <1>7, <1>8, <1>9, <1>10, <1>11, <1>12, <1>13,
     <1>14, <1>15 DEF Next, Process

\* driver_mmap stops at the length that it has checked.
LEMMA PendStep ==
  ASSUME ~RemoveInUse, IInv, MapInv, [Next]_vars
  PROVE  PendInv'
<1>m. MmTypes
  BY DEF IInv
<1>a. MemoryMapAssumption
  BY MemoryMapAssumption
<1>b. PendInv
  BY DEF MapInv
<1>0. UNCHANGED <<drv, area, pend>> => PendInv'
  BY DEF IInv, PendInv, FirstPages, MapInv
<1>1. ASSUME NEW t \in Threads,
              Exec(t) \/ Clone(t) \/ Exit(t) \/ memory_seq_show(t) \/ ShowLock(t)
              \/ ShowVma(t) \/ ShowUnlock(t) \/ ShowPut(t)
      PROVE  PendInv'
  BY <1>1, <1>0 DEF Exec, Clone, Exit, memory_seq_show, ShowLock, ShowVma, ShowUnlock,
     ShowPut, vars, module, lock, show
<1>2. ASSUME NEW t \in Threads, NEW r \in Regions,
              Munmap(t, r)
      PROVE  PendInv'
  BY <1>2, <1>0 DEF Munmap, vars, module, lock, show
<1>3. ASSUME NEW t \in Threads, NEW f \in Files,
              memory_open(t, f) \/ memory_release(t, f)
      PROVE  PendInv'
  BY <1>3, <1>0 DEF memory_open, memory_release, vars, module, lock, show
<1>4. ASSUME NEW t \in Threads, NEW f \in Files, NEW r \in Regions, NEW pages \in 1..MaxPages,
              memory_mmap(t, f, r, pages)
      PROVE  PendInv'
  BY <1>4, <1>0 DEF memory_mmap, vars, module, lock, show
<1>5. ASSUME NEW t \in Kthreads,
              ShowNoMm(t)
      PROVE  PendInv'
  BY <1>5, <1>0 DEF ShowNoMm, vars, module, lock, show
<1>6. CASE mydriver_init
  <2>1. pend = Idle
    BY <1>6, <1>b, <1>a DEF mydriver_init, FreeArea, MapInv, UseInv, Unused, PendInv, MemoryMapAssumption
  <2> QED
    BY <1>6, <2>1 DEF mydriver_init, PendInv
<1>7. CASE driver_initt
  <2>1. pend = Idle
    BY <1>7, <1>b, <1>a DEF driver_initt, FreeArea, MapInv, UseInv, Unused, PendInv, MemoryMapAssumption
  <2> QED
    BY <1>7, <2>1 DEF driver_initt, PendInv
<1>8. CASE mydriver_exit
  <2>1. pend = Idle
    BY <1>8, <1>b, <1>a DEF mydriver_exit, FreeArea, MapInv, UseInv, Unused, PendInv, MemoryMapAssumption
  <2> QED
    BY <1>8, <2>1 DEF mydriver_exit, PendInv
<1>9. CASE driver_exit
  <2>1. pend = Idle
    BY <1>9, <1>b, <1>a DEF driver_exit, FreeArea, MapInv, UseInv, Unused, PendInv, MemoryMapAssumption
  <2> QED
    BY <1>9, <2>1 DEF driver_exit, PendInv
<1>10. ASSUME NEW t \in Threads, NEW f \in Files, NEW r \in Regions, NEW pages \in 1..MaxPages, MapStart(t, f, r, pages) PROVE PendInv'
  <2> DEFINE new == [file |-> f, pages |-> pages, ptes |-> <<>>]
  <2>1. pend' = [region |-> r, vma |-> new] /\ drv' = "nonmem" /\ area' = area
    BY <1>10 DEF MapStart, module
  <2>2. new.file = f /\ new.pages = pages /\ new.ptes = <<>> /\ Len(<<>>) = 0
    OBVIOUS
  <2>3. pages \in Nat /\ pages > 0 /\ pages <= NPAGES
    BY <1>10, <1>a DEF MapStart, Fits, MemoryMapAssumption
  <2> HIDE DEF new
  <2>4. pend'.region = r /\ pend'.vma = new
    BY <2>1
  <2> QED
    BY <2>1, <2>2, <2>3, <2>4 DEF PendInv, FirstPages
<1>11. ASSUME NEW t \in Threads, RemapPage(t) PROVE PendInv'
  <2>1. area' = area /\ drv' = drv
    BY <1>11 DEF RemapPage, module
  <2>2. CASE pend' = Idle
    BY <2>2 DEF PendInv
  <2>3. CASE Len(pend.vma.ptes) + 1 < pend.vma.pages /\ pend' = [pend EXCEPT !.vma = Filled]
    <3>1. pend'.region = pend.region /\ pend'.vma = Filled
      BY <1>m, <2>3 DEF MmTypes
    <3>2. drv = "nonmem" /\ pend.region \in Regions
      BY <1>11, RemapShows
    <3>3. FirstPages(Filled, Len(Filled.ptes)) /\ Len(Filled.ptes) = Len(pend.vma.ptes) + 1
      BY <1>11, RemapShows
    <3>4. Filled.pages = pend.vma.pages
      BY <1>11, RemapStep
    <3> QED
      BY <2>1, <2>3, <3>1, <3>2, <3>3, <3>4 DEF PendInv, FirstPages
  <2> QED
    BY <1>11, <2>2, <2>3, RemapStep DEF MapEnds
<1>12. ASSUME NEW t \in Threads, RemapFails(t) PROVE PendInv'
  BY <1>12 DEF RemapFails, MapFails, PendInv
<1>13. CASE UNCHANGED vars
  BY <1>13, <1>0 DEF vars, module, lock, show
<1> QED
  BY <1>1, <1>2, <1>3, <1>4, <1>5, <1>6, <1>7, <1>8, <1>9, <1>10, <1>11, <1>12, <1>13
     DEF Next, Process

-----------------------------------------------------------------------------
(* Sums over finite sets: MapThenSumSet *)

\* A collection of subsets of a finite set has a smallest member: what stands
\* for induction over finite sets here.
LEMMA SmallestSet ==
  ASSUME NEW S, IsFiniteSet(S), NEW C, C \subseteq SUBSET S, C # {}
  PROVE  \E c \in C : \A d \in C : d \subseteq c => d = c
<1>1. IsWellFoundedOn(StrictSubsetOrdering(S), SUBSET S)
  BY FS_StrictSubsetOrderingWellFounded, FS_FiniteSubsetsOfFinite
<1>2. PICK c \in C : \A d \in C : ~(<<d, c>> \in StrictSubsetOrdering(S))
  BY <1>1, WFMin
<1>3. ASSUME NEW d \in C, d \subseteq c PROVE d = c
  BY <1>2, <1>3 DEF StrictSubsetOrdering
<1> QED
  BY <1>3

\* f is the function by which MapThenSumSet adds up the pages of the VMAs S.
Adds(f, v, S) ==
  f = [s \in SUBSET S |-> IF s = {} THEN 0
                          ELSE LET x == CHOOSE x \in s : TRUE
                               IN  v[x].pages + f[s \ {x}]]

Sum(v, S) == MapThenSumSet(LAMBDA r : v[r].pages, S)

\* What MapThenSumSet stands for.
LEMMA SumUnfolds ==
  ASSUME NEW v, NEW S
  PROVE  Sum(v, S) = (CHOOSE f : Adds(f, v, S))[S]
BY DEF Sum, MapThenSumSet, MapThenFoldSet, Adds

First(s) == CHOOSE x \in s : TRUE

\* Its equation.
LEMMA AddsStep ==
  ASSUME NEW v, NEW S, NEW f, Adds(f, v, S), NEW s \in SUBSET S
  PROVE  /\ s = {} => f[s] = 0
         /\ s # {} => First(s) \in s /\ f[s] = v[First(s)].pages + f[s \ {First(s)}]
BY DEF Adds, First

\* Two such functions agree where both are defined.
LEMMA AddsAgree ==
  ASSUME NEW v, NEW S, NEW T, NEW f, NEW g, Adds(f, v, S), Adds(g, v, T),
         NEW u, u \subseteq S, u \subseteq T, IsFiniteSet(u)
  PROVE  f[u] = g[u]
<1> DEFINE C == {c \in SUBSET u : f[c] # g[c]}
<1> SUFFICES ASSUME C # {} PROVE FALSE
  OBVIOUS
<1>0. C \subseteq SUBSET u
  OBVIOUS
<1>1. PICK c \in C : \A d \in C : d \subseteq c => d = c
  <2> HIDE DEF C
  <2> QED
    BY <1>0, SmallestSet
<1>2. c \in SUBSET S /\ c \in SUBSET T /\ f[c] # g[c]
  BY <1>1
<1>3. c # {} /\ First(c) \in c
  BY <1>2, AddsStep
<1>4. c \ {First(c)} \notin C
  BY <1>1, <1>3
<1>5. f[c \ {First(c)}] = g[c \ {First(c)}]
  BY <1>4
<1> QED
  BY <1>2, <1>3, <1>5, AddsStep

\* There is one: of the smallest set without one, the sums over its proper
\* subsets make one.
LEMMA AddsExists ==
  ASSUME NEW v, NEW S, IsFiniteSet(S)
  PROVE  \E f : Adds(f, v, S)
<1> DEFINE C == {c \in SUBSET S : ~ \E f : Adds(f, v, c)}
<1> SUFFICES ASSUME C # {} PROVE FALSE
  OBVIOUS
<1>0. C \subseteq SUBSET S
  OBVIOUS
<1>1. PICK c \in C : \A d \in C : d \subseteq c => d = c
  <2> HIDE DEF C
  <2> QED
    BY <1>0, SmallestSet
<1> DEFINE G(t) == CHOOSE f : Adds(f, v, t)
           F == [t \in SUBSET c |-> IF t = {} THEN 0
                                    ELSE v[First(t)].pages + G(t \ {First(t)})[t \ {First(t)}]]
<1>2. ASSUME NEW t \in SUBSET c, t # c PROVE Adds(G(t), v, t)
  <2>1. t \notin C /\ t \in SUBSET S
    BY <1>1, <1>2
  <2> QED
    BY <2>1
<1>3. ASSUME NEW t \in SUBSET c, t # c PROVE F[t] = G(t)[t]
  <2>1. CASE t = {}
    BY <1>2, <1>3, <2>1, AddsStep
  <2>2. CASE t # {}
    <3> DEFINE u == t \ {First(t)}
    <3>1. First(t) \in t
      BY <2>2 DEF First
    <3>2. u \in SUBSET c /\ u # c /\ u \subseteq t /\ IsFiniteSet(u)
      BY <1>3, <3>1, FS_Subset
    <3>3. Adds(G(t), v, t) /\ Adds(G(u), v, u)
      BY <1>2, <1>3, <3>2
    <3>4. F[t] = v[First(t)].pages + G(u)[u]
      BY <2>2
    <3>a. t \in SUBSET t
      OBVIOUS
    <3> HIDE DEF G, F
    <3>5. G(t)[t] = v[First(t)].pages + G(t)[u]
      BY <2>2, <3>3, <3>a, AddsStep
    <3>6. G(t)[u] = G(u)[u]
      BY <3>2, <3>3, AddsAgree
    <3> QED
      BY <3>4, <3>5, <3>6
  <2> QED
    BY <2>1, <2>2
<1>4. Adds(F, v, c)
  <2>1. ASSUME NEW t \in SUBSET c, t # {}
        PROVE  F[t] = v[First(t)].pages + F[t \ {First(t)}]
    <3>1. First(t) \in t
      BY <2>1 DEF First
    <3>2. t \ {First(t)} \in SUBSET c /\ t \ {First(t)} # c
      BY <3>1
    <3>3. F[t \ {First(t)}] = G(t \ {First(t)})[t \ {First(t)}]
      BY <3>2, <1>3
    <3>4. F[t] = v[First(t)].pages + G(t \ {First(t)})[t \ {First(t)}]
      BY <2>1
    <3> QED
      BY <3>3, <3>4
  <2>2. F[{}] = 0
    OBVIOUS
  <2>3. F = [t \in SUBSET c |-> F[t]]
    OBVIOUS
  <2> HIDE DEF F
  <2>4. F = [t \in SUBSET c |-> IF t = {} THEN 0 ELSE v[First(t)].pages + F[t \ {First(t)}]]
    BY <2>1, <2>2, <2>3
  <2> QED
    BY <2>4 DEF Adds, First
<1> QED
  BY <1>1, <1>4

\* The empty sum.
LEMMA SumEmpty ==
  ASSUME NEW v
  PROVE  Sum(v, {}) = 0
<1>1. \E f : Adds(f, v, {})
  BY AddsExists, FS_EmptySet
<1>2. Adds(CHOOSE f : Adds(f, v, {}), v, {})
  BY <1>1
<1> QED
  BY <1>2, SumUnfolds, AddsStep

\* The sum takes out one element, which CHOOSE determines.
LEMMA SumFirst ==
  ASSUME NEW v, NEW S, IsFiniteSet(S), S # {}
  PROVE  First(S) \in S /\ Sum(v, S) = v[First(S)].pages + Sum(v, S \ {First(S)})
<1> DEFINE G(t) == CHOOSE f : Adds(f, v, t)
           u == S \ {First(S)}
<1>1. First(S) \in S /\ u \subseteq S /\ u \subseteq u /\ S \in SUBSET S
  BY DEF First
<1>2. IsFiniteSet(u)
  BY FS_Subset
<1>3. Adds(G(S), v, S) /\ Adds(G(u), v, u)
  <2>1. \E f : Adds(f, v, S)
    BY AddsExists
  <2>2. \E f : Adds(f, v, u)
    BY <1>2, AddsExists
  <2> QED
    BY <2>1, <2>2
<1>4. Sum(v, S) = G(S)[S] /\ Sum(v, u) = G(u)[u]
  BY SumUnfolds
<1> HIDE DEF G
<1>5. G(S)[S] = v[First(S)].pages + G(S)[u]
  BY <1>1, <1>3, AddsStep
<1>6. G(S)[u] = G(u)[u]
  <2> HIDE DEF u
  <2> QED
    BY <1>1, <1>2, <1>3, AddsAgree
<1> QED
  BY <1>1, <1>4, <1>5, <1>6

\* A sum of numbers of pages is a number of pages.
LEMMA SumType ==
  ASSUME NEW v, NEW S, IsFiniteSet(S), \A r \in S : v[r].pages \in Nat
  PROVE  Sum(v, S) \in Nat
<1> DEFINE C == {c \in SUBSET S : Sum(v, c) \notin Nat}
<1> SUFFICES ASSUME C # {} PROVE FALSE
  OBVIOUS
<1>0. C \subseteq SUBSET S
  OBVIOUS
<1>1. PICK c \in C : \A d \in C : d \subseteq c => d = c
  <2> HIDE DEF C
  <2> QED
    BY <1>0, SmallestSet
<1>2. c \subseteq S /\ IsFiniteSet(c) /\ c # {}
  <2>0. Sum(v, {}) \in Nat
    BY SumEmpty
  <2>1. c # {}
    BY <1>1, <2>0
  <2> QED
    BY <1>1, <2>1, FS_Subset
<1>3. First(c) \in c /\ Sum(v, c) = v[First(c)].pages + Sum(v, c \ {First(c)})
  BY <1>2, SumFirst
<1>4. Sum(v, c \ {First(c)}) \in Nat
  BY <1>1, <1>3
<1> QED
  BY <1>1, <1>2, <1>3, <1>4

\* Any element may be taken out of the sum: the order does not matter.
LEMMA SumTakeOut ==
  ASSUME NEW v, NEW S, IsFiniteSet(S), \A r \in S : v[r].pages \in Nat, NEW y \in S
  PROVE  Sum(v, S) = v[y].pages + Sum(v, S \ {y})
<1> DEFINE C == {c \in SUBSET S : \E z \in c : Sum(v, c) # v[z].pages + Sum(v, c \ {z})}
<1> SUFFICES ASSUME C # {} PROVE FALSE
  OBVIOUS
<1>0. C \subseteq SUBSET S
  OBVIOUS
<1>1. PICK c \in C : \A d \in C : d \subseteq c => d = c
  <2> HIDE DEF C
  <2> QED
    BY <1>0, SmallestSet
<1>2. PICK z \in c : Sum(v, c) # v[z].pages + Sum(v, c \ {z})
  BY <1>1
<1> DEFINE x == First(c)
<1>3. c \subseteq S /\ IsFiniteSet(c) /\ c # {}
  BY <1>1, <1>2, FS_Subset
<1>4. x \in c /\ Sum(v, c) = v[x].pages + Sum(v, c \ {x})
  BY <1>3, SumFirst
<1>5. x # z
  BY <1>2, <1>4
<1> HIDE DEF x
<1>6. c \ {x} \in SUBSET S /\ c \ {x} \notin C /\ z \in c \ {x}
  BY <1>1, <1>3, <1>4, <1>5
<1>7. c \ {z} \in SUBSET S /\ c \ {z} \notin C /\ x \in c \ {z}
  BY <1>1, <1>3, <1>4, <1>5
<1>8. (c \ {z}) \ {x} = (c \ {x}) \ {z} 
  OBVIOUS
<1>9. /\ Sum(v, c \ {x}) = v[z].pages + Sum(v, (c \ {x}) \ {z})
      /\ Sum(v, c \ {z}) = v[x].pages + Sum(v, (c \ {z}) \ {x})
  BY <1>6, <1>7
<1>10. /\ v[x].pages \in Nat /\ v[z].pages \in Nat
       /\ Sum(v, (c \ {x}) \ {z}) \in Nat
  BY <1>3, <1>4, FS_Subset, SumType
<1> DEFINE rest == Sum(v, (c \ {x}) \ {z})
           px   == v[x].pages
           pz   == v[z].pages
<1>11. /\ Sum(v, c) = px + (pz + rest)
       /\ Sum(v, c \ {z}) = px + rest
       /\ Sum(v, c) # pz + Sum(v, c \ {z})
  BY <1>2, <1>4, <1>8, <1>9
<1>12. px \in Nat /\ pz \in Nat /\ rest \in Nat
  BY <1>10
<1> HIDE DEF rest, px, pz
<1>13. px + (pz + rest) = pz + (px + rest)
  BY <1>12
<1> QED
  BY <1>11, <1>13

\* Places without pages add nothing.
LEMMA SumSupport ==
  ASSUME NEW v, NEW S, IsFiniteSet(S), \A r \in S : v[r].pages \in Nat,
         NEW T, T \subseteq S, \A r \in S \ T : v[r].pages = 0
  PROVE  Sum(v, S) = Sum(v, T)
<1> DEFINE C == {c \in SUBSET S : T \subseteq c /\ Sum(v, c) # Sum(v, T)}
<1> SUFFICES ASSUME C # {} PROVE FALSE
  OBVIOUS
<1>0. C \subseteq SUBSET S
  OBVIOUS
<1>1. PICK c \in C : \A d \in C : d \subseteq c => d = c
  <2> HIDE DEF C
  <2> QED
    BY <1>0, SmallestSet
<1>2. c \subseteq S /\ IsFiniteSet(c) /\ T \subseteq c /\ Sum(v, c) # Sum(v, T)
  BY <1>1, FS_Subset
<1>3. PICK y \in c : y \notin T
  BY <1>2
<1>4. Sum(v, c) = 0 + Sum(v, c \ {y})
  BY <1>2, <1>3, SumTakeOut
<1>5. Sum(v, c \ {y}) \in Nat
  BY <1>2, FS_Subset, SumType
<1>6. c \ {y} \notin C /\ c \ {y} \in SUBSET S /\ T \subseteq c \ {y}
  BY <1>1, <1>2, <1>3
<1> QED
  BY <1>2, <1>4, <1>5, <1>6

\* Min of FiniteSetsExt is the minimum.
LEMMA MinOfSet ==
  ASSUME NEW S, S \subseteq Nat, S # {}
  PROVE  Min(S) \in S /\ \A y \in S : Min(S) <= y
<1> DEFINE R == {ss \in Nat \X Nat : ss[1] < ss[2]}
<1>0. IsWellFoundedOn(R, Nat)
  BY NatLessThanWellFounded DEF OpToRel
<1>1. PICK x \in S : \A y \in S : ~(<<y, x>> \in R)
  <2> HIDE DEF R
  <2> QED
    BY <1>0, WFMin
<1>2. ASSUME NEW y \in S PROVE x <= y
  <2>1. x \in Nat /\ y \in Nat /\ <<y, x>> \in Nat \X Nat
    OBVIOUS
  <2>2. ~(y < x)
    BY <1>1, <2>1
  <2> QED
    BY <2>1, <2>2
<1> QED
  BY <1>2 DEF Min

-----------------------------------------------------------------------------
(* The walk of memory_seq_show *)

ShowTypes == chunk \in [Threads -> 0..NumRegions] /\ size \in [Threads -> Nat]

\* What is summed up and what is still ahead make the whole address space; a
\* walk starts from the first VMA and from zero.
Counted(t) ==
  /\ pc[t] # "ShowWalk" => chunk[t] = 0
  /\ pc[t] \notin {"ShowWalk", "ShowPut"} => size[t] = 0
  /\ pc[t] = "ShowWalk" => size[t] + Sum(vma, Ahead(t)) = Sum(vma, Regions)

ShowInv == ShowTypes /\ \A t \in Threads : Counted(t)

StableWalk == (\E t \in Threads : pc[t] = "ShowWalk") => UNCHANGED vma

\* The lock, and the second user of the mm, keep the VMAs as they are.
LEMMA WalkStable ==
  ASSUME IInv, [Next]_vars
  PROVE  StableWalk
<1> SUFFICES ASSUME NEW w \in Threads, pc[w] = "ShowWalk"
             PROVE  UNCHANGED vma
  BY DEF StableWalk
<1>1. w \in alive /\ w \in readers /\ writer = None
  BY DEF IInv, AliveInv, LockInv
<1>2. mm_users # 1
  BY <1>1, TwoUsers DEF Showing
<1>3. \A t \in Threads : pc[t] # "RemapPage"
  BY <1>1, MemoryMapAssumption DEF IInv, LockInv
<1>4. ASSUME NEW t \in Threads, Process(t) PROVE UNCHANGED vma
  BY <1>1, <1>2, <1>3, <1>4
     DEF Process, Exec, Clone, Exit, mmput, Munmap, memory_open, memory_release, memory_mmap,
         CanMap, MapStart, RemapPage, RemapFails, memory_seq_show, ShowLock, ShowVma, ShowUnlock,
         ShowPut
<1>5. CASE mydriver_init \/ driver_initt \/ mydriver_exit \/ driver_exit
  BY <1>5 DEF mydriver_init, driver_initt, mydriver_exit, driver_exit
<1>6. CASE \E t \in Kthreads : ShowNoMm(t)
  BY <1>6 DEF ShowNoMm, vars
<1>7. CASE UNCHANGED vars
  BY <1>7 DEF vars
<1> QED
  BY <1>4, <1>5, <1>6, <1>7 DEF Next

\* Every set of places is finite, and a VMA has a number of pages.
LEMMA PagesType ==
  ASSUME MmTypes
  PROVE  IsFiniteSet(Regions) /\ \A r \in Regions : vma[r].pages \in Nat
<1>1. IsFiniteSet(Regions)
  BY FS_Interval, MemoryMapAssumption DEF Regions
<1>2. \A r \in Regions : vma[r].pages \in Nat
  BY DEF MmTypes, Vmas
<1> QED
  BY <1>1, <1>2

\* At the first step of a walk everything is ahead.
LEMMA AllAhead ==
  ASSUME IInv, NEW t \in Threads, chunk[t] = 0
  PROVE  Sum(vma, Regions) = Sum(vma, Ahead(t)) /\ Sum(vma, Ahead(t)) \in Nat
<1>0. IsFiniteSet(Regions) /\ \A r \in Regions : vma[r].pages \in Nat
  BY PagesType DEF IInv
<1>1. Ahead(t) \subseteq Regions
  BY DEF Ahead
<1>2. ASSUME NEW r \in Regions \ Ahead(t) PROVE vma[r].pages = 0
  <2>1. r > 0
    BY MemoryMapAssumption DEF Regions
  <2>2. vma[r] = NoVma
    BY <2>1 DEF Ahead
  <2> QED
    BY <2>2 DEF NoVma
<1>3. IsFiniteSet(Ahead(t)) /\ \A r \in Ahead(t) : vma[r].pages \in Nat
  BY <1>0, <1>1, FS_Subset
<1>4. Sum(vma, Regions) = Sum(vma, Ahead(t))
  BY <1>0, <1>1, <1>2, SumSupport
<1>5. Sum(vma, Ahead(t)) \in Nat
  BY <1>3, SumType
<1> QED
  BY <1>4, <1>5

\* One VMA moves from what is ahead to what is summed up.
LEMMA CountOne ==
  ASSUME IInv, ShowTypes, NEW t \in Threads, ShowVma(t), Counted(t)
  PROVE  ShowTypes' /\ Counted(t)'
<1> DEFINE A == Ahead(t)
           r == Min(A)
           B == A \ {r}
<1>0. IsFiniteSet(Regions) /\ \A q \in Regions : vma[q].pages \in Nat
  BY PagesType DEF IInv
<1>1. A \subseteq Regions /\ A # {} /\ Regions \subseteq Nat /\ Regions \subseteq 0..NumRegions
  BY MemoryMapAssumption DEF ShowVma, Ahead, Regions
<1>2. r \in A /\ \A q \in A : r <= q
  <2> HIDE DEF A
  <2> QED
    BY <1>1, MinOfSet
<1>3. /\ chunk' = [chunk EXCEPT ![t] = r] /\ size' = [size EXCEPT ![t] = @ + vma[r].pages]
      /\ vma' = vma /\ pc' = pc /\ pc[t] = "ShowWalk"
  BY DEF ShowVma
<1>4. r \in Regions /\ r > chunk[t] /\ vma[r].pages \in Nat
  BY <1>0, <1>2 DEF Ahead
<1>5. Ahead(t)' = B
  <2>1. chunk'[t] = r /\ chunk[t] \in Nat
    BY <1>3, MemoryMapAssumption DEF ShowTypes
  <2>2. Ahead(t)' = {q \in Regions : q > r /\ vma[q] # NoVma}
    BY <1>3, <2>1 DEF Ahead
  <2>3. /\ ~(r > r)
        /\ \A q \in Regions : q > r => q > chunk[t]
        /\ \A q \in A : q # r => q > r
    <3>1. r \in Nat /\ r > chunk[t] /\ chunk[t] \in Nat /\ Regions \subseteq Nat
      BY <1>1, <1>4, <2>1
    <3> HIDE DEF A, r
    <3>2. A \subseteq Nat
      BY <1>1, <3>1
    <3>3. ASSUME NEW q \in Nat, q > r PROVE q > chunk[t]
      BY <3>1, <3>3
    <3>4. ASSUME NEW q \in Nat, r <= q, q # r PROVE q > r
      BY <3>1, <3>4
    <3> QED
      BY <1>2, <3>1, <3>2, <3>3, <3>4
  <2> QED
    BY <1>1, <2>2, <2>3 DEF Ahead
<1>6. IsFiniteSet(A) /\ IsFiniteSet(B) /\ \A q \in A : vma[q].pages \in Nat
  BY <1>0, <1>1, FS_Subset
<1> HIDE DEF A, r
<1>7. Sum(vma, A) = vma[r].pages + Sum(vma, B)
  BY <1>2, <1>6, SumTakeOut
<1>8. Sum(vma, B) \in Nat
  BY <1>6, SumType
<1>9. size[t] + Sum(vma, A) = Sum(vma, Regions)
  BY <1>3 DEF Counted, A
<1>10. ShowTypes'
  BY <1>1, <1>3, <1>4 DEF ShowTypes
<1>11. size[t] \in Nat /\ size'[t] = size[t] + vma[r].pages
  BY <1>3 DEF ShowTypes
<1> DEFINE sb == Sum(vma, B)
           pr == vma[r].pages
<1>12. size'[t] + sb = size[t] + (pr + sb)
  <2>1. size'[t] = size[t] + pr /\ size[t] \in Nat /\ pr \in Nat /\ sb \in Nat
    BY <1>4, <1>8, <1>11
  <2> HIDE DEF sb, pr
  <2> QED
    BY <2>1
<1>13. size'[t] + Sum(vma', Ahead(t)') = Sum(vma', Regions)
  BY <1>3, <1>5, <1>7, <1>9, <1>12
<1> QED
  BY <1>3, <1>10, <1>13 DEF Counted

\* Every step keeps the count of every walk.
LEMMA ShowStep ==
  ASSUME IInv, ShowInv, [Next]_vars
  PROVE  ShowInv'
<1>m. MmTypes /\ MmTypes'
  BY TypeStep DEF IInv
<1>v. StableWalk
  BY WalkStable
<1>0. ASSUME UNCHANGED show,
             \A t \in Threads : \/ pc'[t] = pc[t]
                                \/ /\ pc[t] \notin {"ShowWalk", "ShowPut"}
                                   /\ pc'[t] \notin {"ShowWalk", "ShowPut"}
      PROVE  ShowInv'
  <2>1. chunk' = chunk /\ size' = size
    BY <1>0 DEF show
  <2>2. ASSUME NEW t \in Threads PROVE Counted(t)'
    <3>1. CASE pc'[t] = "ShowWalk"
      <4>1. pc[t] = "ShowWalk" /\ vma' = vma
        BY <1>0, <1>v, <3>1 DEF StableWalk
      <4>2. Ahead(t)' = Ahead(t)
        BY <2>1, <4>1 DEF Ahead
      <4>3. size[t] + Sum(vma, Ahead(t)) = Sum(vma, Regions)
        BY <4>1 DEF ShowInv, Counted
      <4>4. size'[t] + Sum(vma', Ahead(t)') = Sum(vma', Regions)
        BY <2>1, <4>1, <4>2, <4>3
      <4> QED
        BY <3>1, <4>4 DEF Counted
    <3>2. CASE pc'[t] # "ShowWalk"
      BY <1>0, <2>1, <3>2 DEF ShowInv, Counted
    <3> QED
      BY <3>1, <3>2
  <2> QED
    BY <2>1, <2>2 DEF ShowInv, ShowTypes
<1>1. ASSUME NEW u \in Threads,
             Exec(u) \/ Clone(u) \/ Exit(u) \/ RemapPage(u) \/ RemapFails(u) \/ memory_seq_show(u)
      PROVE  ShowInv'
  BY <1>0, <1>1, <1>m DEF Exec, Clone, Exit, RemapPage, RemapFails, memory_seq_show, Goto, MmTypes
<1>2. ASSUME NEW u \in Threads, NEW r \in Regions, Munmap(u, r) PROVE ShowInv'
  BY <1>0, <1>2 DEF Munmap
<1>3. ASSUME NEW u \in Threads, NEW f \in Files, memory_open(u, f) \/ memory_release(u, f)
      PROVE  ShowInv'
  BY <1>0, <1>3 DEF memory_open, memory_release
<1>4. ASSUME NEW u \in Threads, NEW f \in Files, NEW r \in Regions, NEW pages \in 1..MaxPages,
             memory_mmap(u, f, r, pages) \/ MapStart(u, f, r, pages)
      PROVE  ShowInv'
  BY <1>0, <1>4, <1>m DEF memory_mmap, MapStart, CanMap, Goto, MmTypes
<1>5. ASSUME mydriver_init \/ driver_initt \/ mydriver_exit \/ driver_exit PROVE ShowInv'
  BY <1>0, <1>5 DEF mydriver_init, driver_initt, mydriver_exit, driver_exit
<1>6. ASSUME (\E u \in Kthreads : ShowNoMm(u)) \/ UNCHANGED vars PROVE ShowInv'
  BY <1>0, <1>6 DEF ShowNoMm, vars
<1>7. ASSUME NEW u \in Threads, ShowLock(u) \/ ShowVma(u) \/ ShowUnlock(u) \/ ShowPut(u)
      PROVE  ShowInv'
  <2>1. ASSUME NEW t \in Threads, t # u PROVE Counted(t)'
    <3>1. pc'[t] = pc[t] /\ chunk'[t] = chunk[t] /\ size'[t] = size[t]
      BY <1>7, <1>m, <2>1 DEF ShowLock, ShowVma, ShowUnlock, ShowPut, Goto, MmTypes, ShowInv,
         ShowTypes, show
    <3>2. CASE pc[t] = "ShowWalk"
      <4>1. vma' = vma
        BY <1>v, <3>2 DEF StableWalk
      <4>2. Ahead(t)' = Ahead(t)
        BY <3>1, <4>1 DEF Ahead
      <4>3. size[t] + Sum(vma, Ahead(t)) = Sum(vma, Regions)
        BY <3>2 DEF ShowInv, Counted
      <4>4. size'[t] + Sum(vma', Ahead(t)') = Sum(vma', Regions)
        BY <3>1, <4>1, <4>2, <4>3
      <4> QED
        BY <3>1, <3>2, <4>4 DEF Counted
    <3>3. CASE pc[t] # "ShowWalk"
      BY <3>1, <3>3 DEF ShowInv, Counted
    <3> QED
      BY <3>2, <3>3
  <2>2. ShowTypes' /\ Counted(u)'
    <3>1. CASE ShowLock(u)
      <4>1. /\ chunk' = chunk /\ size' = size /\ vma' = vma
            /\ chunk[u] = 0 /\ size[u] = 0 /\ pc'[u] = "ShowWalk"
        BY <1>m, <3>1 DEF ShowLock, Goto, MmTypes, ShowInv, Counted, show
      <4>2. Ahead(u)' = Ahead(u)
        BY <4>1 DEF Ahead
      <4>3. Sum(vma, Regions) = Sum(vma, Ahead(u)) /\ Sum(vma, Ahead(u)) \in Nat
        BY <4>1, AllAhead
      <4>4. size'[u] + Sum(vma', Ahead(u)') = Sum(vma', Regions)
        BY <4>1, <4>2, <4>3
      <4> QED
        BY <4>1, <4>4 DEF Counted, ShowInv, ShowTypes
    <3>2. CASE ShowVma(u)
      BY <3>2, CountOne DEF ShowInv
    <3>3. CASE ShowUnlock(u)
      BY <3>3, <1>m, MemoryMapAssumption DEF ShowUnlock, Goto, MmTypes, ShowInv, ShowTypes, Counted
    <3>4. CASE ShowPut(u)
      BY <3>4, <1>m DEF ShowPut, Goto, MmTypes, ShowInv, ShowTypes, Counted
    <3> QED
      BY <1>7, <3>1, <3>2, <3>3, <3>4
  <2> QED
    BY <2>1, <2>2 DEF ShowInv
<1> QED
  BY <1>1, <1>2, <1>3, <1>4, <1>5, <1>6, <1>7 DEF Next, Process

-----------------------------------------------------------------------------
(* Theorems *)

\* No process, no driver.
LEMMA InitInv == Init => IInv /\ MapInv
<1> SUFFICES ASSUME Init PROVE IInv /\ MapInv
  OBVIOUS
<1> USE MemoryMapAssumption DEF Init
<1>1. MmTypes
  BY DEF MmTypes, NoVma, Idle, Vmas
<1>2. AreaInv /\ LockInv /\ AliveInv
  BY DEF AreaInv, LockInv, AliveInv
<1>3. Shows = {}
  BY DEF Shows, Showing
<1>4. UserInv
  BY <1>3, FS_EmptySet DEF UserInv
<1>5. UseInv
  BY DEF UseInv, Unused, Mapped, NoVma
<1>6. VmaInv /\ PendInv
  BY DEF VmaInv, PendInv
<1> QED
  BY <1>1, <1>2, <1>4, <1>5, <1>6 DEF IInv, MapInv

\* The invariant of the mm, whatever the module does.
THEOREM MmInvariance == Spec => []IInv
<1>1. Init => IInv
  BY InitInv
<1>2. IInv /\ [Next]_vars => IInv'
  BY TypeStep, AreaStep, LockStep, AliveStep, UserStep DEF IInv
<1> QED
  BY <1>1, <1>2, PTL DEF Spec

\* The invariant of the mappings, while the module stays as long as it is used.
THEOREM MapInvariance ==
  ASSUME ~RemoveInUse
  PROVE  Spec => [](IInv /\ MapInv)
<1>1. Init => IInv /\ MapInv
  BY InitInv
<1>2. IInv /\ MapInv /\ [Next]_vars => (IInv /\ MapInv)'
  BY TypeStep, AreaStep, LockStep, AliveStep, UserStep, UseStep, VmaStep, PendStep
     DEF IInv, MapInv
<1> QED
  BY <1>1, <1>2, PTL DEF Spec

\* With the last thread go its reference to the mm, every mapping and every
\* file: memory_seq_show has given back each reference that it took.
THEOREM MmReleased == Spec => []NoLeakedMm
<1>1. IInv => NoLeakedMm
  <2> SUFFICES ASSUME IInv, alive = {} PROVE mm_users = 0 /\ Mapped = {} /\ fds = {}
    BY DEF NoLeakedMm
  <2>1. fds = {} /\ vma = [r \in Regions |-> NoVma]
    BY DEF IInv, AliveInv
  <2>2. Mapped = {}
    BY <2>1 DEF Mapped, NoVma
  <2>3. Shows = {}
    BY DEF IInv, AliveInv, Shows, Showing
  <2>4. mm_users = 0
    BY <2>3, FS_EmptySet DEF IInv, UserInv
  <2> QED
    BY <2>1, <2>2, <2>4
<1> QED
  BY <1>1, MmInvariance, PTL

\* Both drivers map the pages of their area, in order, and none behind it.
THEOREM MapsOnlyTheArea ==
  ASSUME ~RemoveInUse
  PROVE  Spec => []MapsTheArea
<1>1. IInv /\ MapInv => MapsTheArea
  <2> SUFFICES ASSUME IInv, MapInv, NEW r \in Mapped
               PROVE  /\ DOMAIN vma[r].ptes = 1..vma[r].pages
                      /\ \A p \in 1..vma[r].pages :
                           p \in DOMAIN area /\ vma[r].ptes[p] = area[p] /\ area[p] \in reserved
    BY DEF MapsTheArea
  <2>1. r \in Regions /\ vma[r].file # None
    BY DEF Mapped
  <2>2. drv # None
    BY DEF MapInv, UseInv, Unused
  <2>3. area \in [1..NPAGES -> Frames] /\ reserved = {area[p] : p \in 1..NPAGES}
    BY <2>2 DEF IInv, AreaInv
  <2>4. vma[r] \in Vmas
    BY <2>1 DEF IInv, MmTypes
  <2>5. vma[r].ptes \in Seq(0..NumFrames) /\ vma[r].pages \in Nat
    BY <2>4 DEF Vmas
  <2>6. vma[r] \notin {NoVma, Image}
    BY <2>1 DEF NoVma, Image
  <2>7. /\ vma[r].pages <= NPAGES /\ Len(vma[r].ptes) = vma[r].pages
        /\ \A p \in 1..vma[r].pages : vma[r].ptes[p] = area[p]
    BY <2>1, <2>6 DEF MapInv, VmaInv, FirstPages
  <2> QED
    BY <2>3, <2>5, <2>7, MemoryMapAssumption
<1> QED
  BY <1>1, MapInvariance, PTL

\* No step of any thread changes the address space under a walk of
\* memory_seq_show, so that what it adds up belongs to one moment.
THEOREM WalkSeesOneMoment == Spec => [][StableWalk]_vars
<1>1. IInv /\ [Next]_vars => [StableWalk]_vars
  BY WalkStable
<1> QED
  BY <1>1, MmInvariance, PTL DEF Spec

\* When the walk of memory_seq_show ends, its sum is the size of the address
\* space, for any number of regions, threads and readers at once.
THEOREM WalkSumsUp == Spec => []SumExact
<1>1. Init => ShowInv
  <2> SUFFICES ASSUME Init PROVE ShowInv
    OBVIOUS
  <2>1. ShowTypes
    BY MemoryMapAssumption DEF Init, ShowTypes
  <2>2. \A t \in Threads : pc[t] = "idle" /\ chunk[t] = 0 /\ size[t] = 0
    BY DEF Init
  <2> QED
    BY <2>1, <2>2 DEF ShowInv, Counted
<1>2. IInv /\ ShowInv /\ [Next]_vars => ShowInv'
  BY ShowStep
<1>3. IInv /\ ShowInv => SumExact
  <2> SUFFICES ASSUME IInv, ShowInv, NEW t \in Threads, pc[t] = "ShowWalk", Ahead(t) = {}
               PROVE  size[t] = MapThenSumSet(LAMBDA r : vma[r].pages, Regions)
    BY DEF SumExact
  <2>1. size[t] + Sum(vma, {}) = Sum(vma, Regions) /\ size[t] \in Nat
    BY DEF ShowInv, ShowTypes, Counted
  <2>2. size[t] = Sum(vma, Regions)
    BY <2>1, SumEmpty
  <2> QED
    BY <2>2 DEF Sum
<1> QED
  BY <1>1, <1>2, <1>3, MmInvariance, PTL DEF Spec
=============================================================================
