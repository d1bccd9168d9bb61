-------------------------------- MODULE MCVm --------------------------------
(* Model-checking instances of Vm. *)
EXTENDS Vm

Seg(vaddr, filesz, memsz) == [vaddr |-> vaddr, filesz |-> filesz, memsz |-> memsz]

(* One segment of a page and a half with bss; two, the first above a gap,  *)
(* the second inside what the first has mapped.                            *)
MCPrograms == {<<Seg(0, 1, 3)>>, <<Seg(2, 2, 2), Seg(0, 1, 1)>>}
MCDeltas == {3, -1, -3}
=============================================================================
