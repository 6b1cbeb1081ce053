-------------------------- MODULE CompiledResolver --------------------------
(***************************************************************************)
(* The incremental resolver of the building with its compiled checker: the *)
(* constants of ResolverIncremental stand for the operators of FastPath,   *)
(* Admissible for ShaclConforms, FastEligible for Eligible, FullCheck for  *)
(* FastConformsAll, FocusedCheck for FastConformsZone and Preserves for    *)
(* PreservedByWrite.                                                       *)
(***************************************************************************)
EXTENDS ResolverIncremental, FastPath

ASSUME BuildingConstants ==
    Slots = FastSlots /\ Values \subseteq Int /\ IsFiniteSet(Values)

-----------------------------------------------------------------------------
(* Properties. *)

(* On the fragment it supports, the compiled checker gives the verdict of   *)
(* the reference validator on every graph, conforming or not.               *)
KernelAgrees == Eligible(work) => (FastConformsAll(work) <=> ShaclConforms(work))

(* From a conforming graph of the fragment, a preserving write stays in the *)
(* fragment, and checking the written zone alone tells whether the whole    *)
(* graph still conforms (the docstring of check_admissibility_incremental). *)
FocusSuffices ==
    writing /\ Eligible(Restored) /\ ShaclConforms(Restored) /\ PreservedByWrite(work, Action) =>
        /\ Eligible(work)
        /\ FastConformsZone(work, Action) <=> ShaclConforms(work)
=============================================================================
