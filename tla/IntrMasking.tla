------------------------------- MODULE IntrMasking ------------------------------
(***************************************************************************)
(* Sections without interrupts (sync/src/up.rs).  exclusive_access of a    *)
(* UPIntrFreeCell clears sstatus.SIE before it borrows the cell; the drop  *)
(* of the last reference puts SIE back as the outermost section found it.  *)
(***************************************************************************)
EXTENDS Integers, FiniteSets

CONSTANT Cells      \* the cells of the kernel

VARIABLES sie,      \* sstatus.SIE
          info,     \* INTR_MASKING_INFO
          open,     \* the cells with a reference alive
          found     \* history: SIE when the outermost section began

maskingVars == <<sie, info, open, found>>

MaskingInit ==
  /\ sie = FALSE
  /\ info = [nested_level |-> 0, sie_before_masking |-> FALSE]
  /\ open = {}
  /\ found = FALSE

\* IntrMaskingInfo::enter: the first level keeps what it found.
Entered(i, on) ==
  [nested_level |-> i.nested_level + 1,
   sie_before_masking |-> IF i.nested_level = 0 THEN on ELSE i.sie_before_masking]

\* IntrMaskingInfo::exit: the last level sets SIE again, or leaves it clear.
Left(i) == [i EXCEPT !.nested_level = @ - 1]
\* Mistaken: without a look at what was found.
SetsSieAlways(i) == i.nested_level = 1
SetsSie(i) == i.nested_level = 1 /\ i.sie_before_masking

\* A cell that is borrowed already panics (RefCell): callers do not do that.
ExclusiveAccess(c) ==
  /\ c \notin open
  /\ info' = Entered(info, sie)
  /\ sie' = FALSE
  /\ open' = open \cup {c}
  /\ found' = IF open = {} THEN sie ELSE found

\* Drop of UPIntrRefMut: the borrow ends first, then the section; references
\* may be dropped in any order.
DropRef(c) ==
  /\ c \in open
  /\ open' = open \ {c}
  /\ info' = Left(info)
  /\ sie' = (sie \/ SetsSie(info))
  /\ UNCHANGED found

\* Code outside all sections, and traps, which cannot come inside one.
Outside ==
  /\ open = {}
  /\ sie' \in BOOLEAN
  /\ UNCHANGED <<info, open, found>>

MaskingNext ==
  \/ \E c \in Cells : ExclusiveAccess(c) \/ DropRef(c)
  \/ Outside

MaskingSpec == MaskingInit /\ [][MaskingNext]_maskingVars

----------------------------------------------------------------------------
\* No interrupt comes while a cell is borrowed, so no handler can find it so.
Masked == open # {} => ~sie

\* The section that ends last, and no other, puts SIE back as the first one
\* found it.
Restored == [][open # {} => sie' = (open' = {} /\ found)]_maskingVars

\* The inductive invariant: the level counts the references alive.
MaskingInv ==
  /\ sie \in BOOLEAN /\ found \in BOOLEAN
  /\ IsFiniteSet(open)
  /\ info.nested_level = Cardinality(open)
  /\ info = [nested_level |-> info.nested_level, sie_before_masking |-> info.sie_before_masking]
  /\ open # {} => ~sie /\ info.sie_before_masking = found
=============================================================================
