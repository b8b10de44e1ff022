------------------------------- MODULE MCKernel -------------------------------
(***************************************************************************)
(* Instances of the kernel for TLC.  Requests and headers have their real  *)
(* sizes; the heap is small enough for memtest to run out of it.           *)
(***************************************************************************)
EXTENDS Kernel

AllPrograms == {"kfs2_mandatory", "kfs2_bonus", "kfs3_mandatory", "kfs3_bonus"}
SizesOfMemtest == <<64, 128, 256, 512, 1024>>
TypedSizes == {0, 900}
FramesAtHeap == {0, 1}
\* The last mapped bytes, a page table beyond, and 0, which is refused.
TypedAddresses == {0, 256, 4096 - 64, 20000}
TypedDumpSizes == {0, 80, 300}

=============================================================================
