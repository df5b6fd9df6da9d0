---------------------------- MODULE LoadContract ----------------------------
(***************************************************************************)
(* What LibraryLoader::load promises dlopen, whatever library it is given: *)
(* it takes at most one block of memory and leaves it in the handle, so    *)
(* that the destructor can return it; it succeeds only with a block, fills *)
(* in the exports only when it succeeds, and once it returned nothing of   *)
(* the handle changes any more.                                            *)
(***************************************************************************)
CONSTANTS Blocks, NULL

VARIABLES library, exported, outcome

vars == <<library, exported, outcome>>

Init ==
    /\ library \in Blocks \cup {NULL}
    /\ exported = FALSE
    /\ outcome = "running"

Allocate ==
    /\ outcome = "running" /\ library = NULL
    /\ library' \in Blocks
    /\ UNCHANGED <<exported, outcome>>

Resolve ==
    /\ outcome = "running" /\ library # NULL
    /\ exported' = TRUE
    /\ UNCHANGED <<library, outcome>>

Fail ==
    /\ outcome = "running" /\ ~ exported
    /\ outcome' = "failed"
    /\ UNCHANGED <<library, exported>>

Succeed ==
    /\ outcome = "running" /\ exported
    /\ outcome' = "loaded"
    /\ UNCHANGED <<library, exported>>

Next == Allocate \/ Resolve \/ Fail \/ Succeed

Spec == Init /\ [][Next]_vars
=============================================================================
