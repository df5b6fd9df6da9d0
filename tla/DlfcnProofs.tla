---------------------------- MODULE DlfcnProofs ----------------------------
(***************************************************************************)
(* Theorems about Dlfcn, for every number of handles, blocks and names,    *)
(* and whatever new handles find in their heap memory.                     *)
(***************************************************************************)
EXTENDS Dlfcn, TLAPS

(* dlopen works on a handle while it runs, and only then. *)
(* A waiting message is one of the messages.              *)
Working == /\ IF pc = "idle" THEN current = NULL ELSE current \in live
           /\ hasError => lastError \in Api!Messages

TypeInv == TypeOK /\ Working

LEMMA ReplyTyped ==
  ASSUME NEW op \in {"none", "dlopen", "dlsym", "dlerror", "dlclose"},
         NEW v \in Handles \cup Addresses \cup Api!Messages \cup {NULL}
  PROVE  [op |-> op, value |-> v] \in Api!Replies
  BY DEF Api!Replies

LEMMA TypeInit == Init => TypeInv
<1> SUFFICES ASSUME Init PROVE TypeInv
  OBVIOUS
<1>1. /\ library \in [Handles -> Pointers]
      /\ entrypoint \in [Handles -> HeapFill \cup {NULL}]
  BY DEF Init, Pointers
<1>2. exports \in [Handles -> Resolved]
  BY DEF Init, NoExports, Resolved
<1>3. reply \in Api!Replies
  BY ReplyTyped DEF Init
<1> QED
  BY <1>1, <1>2, <1>3 DEF Init, TypeInv, TypeOK, Working

LEMMA DeleteTyped ==
  ASSUME TypeInv, NEW h \in live, DeleteHandle(h)
  PROVE  /\ live' \subseteq Handles
         /\ library' \in [Handles -> Pointers]
         /\ entrypoint' \in [Handles -> HeapFill \cup {NULL}]
         /\ exports' \in [Handles -> Resolved]
         /\ owner' \in [Blocks -> Handles \cup {NULL}]
         /\ wild' \in BOOLEAN
<1> USE DEF TypeInv, TypeOK, DeleteHandle, Destroy
<1>1. NoExports \in Resolved
  BY DEF NoExports, Resolved
<1>2. exports' \in [Handles -> Resolved]
  BY <1>1
<1>3. library' \in [Handles -> Pointers]
  BY DEF Pointers
<1> QED
  BY <1>2, <1>3

LEMMA FailsTyped ==
  ASSUME TypeInv, current \in live, NEW m \in Api!OpenErrors, DlopenFails(m)
  PROVE  TypeInv'
<1>1. reply' \in Api!Replies
  BY ReplyTyped DEF DlopenFails, Returns
<1>2. lastError' \in Api!Messages /\ hasError' \in BOOLEAN
  BY DEF DlopenFails, SetError, Api!Messages
<1> QED
  BY <1>1, <1>2, DeleteTyped DEF DlopenFails, TypeInv, TypeOK, Working

LEMMA TypeStep == TypeInv /\ [Next]_vars => TypeInv'
<1> SUFFICES ASSUME TypeInv, [Next]_vars PROVE TypeInv'
  OBVIOUS
<1> USE DEF TypeInv, TypeOK, Working
<1>1. ASSUME NEW h \in Handles, DlopenNew(h) PROVE TypeInv'
  <2>1. NoExports \in Resolved
    BY DEF NoExports, Resolved
  <2>2. exports' \in [Handles -> Resolved]
    BY <1>1, <2>1 DEF DlopenNew
  <2>3. library' \in [Handles -> Pointers]
    BY <1>1 DEF DlopenNew, Pointers
  <2>4. entrypoint' \in [Handles -> HeapFill \cup {NULL}]
    BY <1>1 DEF DlopenNew
  <2> QED
    BY <1>1, <2>2, <2>3, <2>4 DEF DlopenNew, message
<1>2. ASSUME DlopenRead PROVE TypeInv'
  BY <1>2 DEF DlopenRead, memory, message
<1>3. ASSUME DlopenRejected PROVE TypeInv'
  BY <1>3, FailsTyped DEF DlopenRejected, Api!OpenErrors
<1>4. ASSUME NEW b \in Blocks, LoadAllocated(b) PROVE TypeInv'
  BY <1>4 DEF LoadAllocated, Pointers, message
<1>5. ASSUME LoadRefused PROVE TypeInv'
  BY <1>5, FailsTyped DEF LoadRefused, Api!OpenErrors
<1>6. ASSUME LoadFailed PROVE TypeInv'
  BY <1>6, FailsTyped DEF LoadFailed, Api!OpenErrors
<1>7. ASSUME NEW addresses \in Resolved, LoadSucceeded(addresses) PROVE TypeInv'
  <2>1. exports' \in [Handles -> Resolved]
    BY <1>7 DEF LoadSucceeded
  <2>2. reply' \in Api!Replies
    BY <1>7, ReplyTyped DEF LoadSucceeded, Returns
  <2> QED
    BY <1>7, <2>1, <2>2 DEF LoadSucceeded, message
<1>8. ASSUME NEW h \in live \cup {NULL}, NEW n \in Arguments, Dlsym(h, n) PROVE TypeInv'
  <2>1. CASE \E m \in Api!SymbolErrors : DlsymFails(m)
    <3>1. reply' \in Api!Replies
      BY <2>1, ReplyTyped DEF DlsymFails, Returns
    <3> QED
      BY <2>1, <3>1 DEF DlsymFails, SetError, memory, Api!Messages
  <2>2. CASE h # NULL /\ n \in Names /\ Returns("dlsym", exports[h][n])
             /\ UNCHANGED <<memory, pc, current, message>>
    <3>1. exports[h][n] \in Addresses \cup {NULL}
      BY <2>2 DEF Resolved
    <3>2. reply' \in Api!Replies
      BY <2>2, <3>1, ReplyTyped DEF Returns
    <3> QED
      BY <2>2, <3>2 DEF memory, message
  <2> QED
    BY <1>8, <2>1, <2>2 DEF Dlsym, Arguments, Api!SymbolErrors
<1>9. ASSUME Dlerror PROVE TypeInv'
  <2>1. lastError \in Api!Messages \/ ~hasError
    BY DEF Working
  <2>2. reply' \in Api!Replies
    BY <1>9, <2>1, ReplyTyped DEF Dlerror, Returns
  <2> QED
    BY <1>9, <2>2 DEF Dlerror, memory
<1>10. ASSUME NEW h \in live \cup {NULL}, Dlclose(h) PROVE TypeInv'
  <2>1. CASE h # NULL /\ DeleteHandle(h)
    <3>1. h \in live
      BY <2>1
    <3>2. reply' \in Api!Replies
      BY <1>10, ReplyTyped DEF Dlclose, Returns
    <3>3. current' = NULL /\ pc' = "idle"
      BY <1>10 DEF Dlclose
    <3> QED
      BY <1>10, <2>1, <3>1, <3>2, <3>3, DeleteTyped DEF Dlclose, message
  <2>2. CASE UNCHANGED memory
    <3>1. reply' \in Api!Replies
      BY <1>10, ReplyTyped DEF Dlclose, Returns
    <3> QED
      BY <2>2, <1>10, <3>1 DEF Dlclose, memory, message
  <2> QED
    BY <1>10, <2>1, <2>2 DEF Dlclose
<1>11. ASSUME UNCHANGED vars PROVE TypeInv'
  BY <1>11 DEF vars
<1> QED
  BY <1>1, <1>2, <1>3, <1>4, <1>5, <1>6, <1>7, <1>8, <1>9, <1>10, <1>11
     DEF Next, DlopenStep

(* The variables keep their types.  dlsym answers with an address an export *)
(* was resolved to, or with null (resolve_exports, Loader.cpp:299-304).     *)
THEOREM TypeCorrect == Spec => []TypeOK
<1>1. Spec => []TypeInv
  BY TypeInit, TypeStep, PTL DEF Spec
<1>2. TypeInv => TypeOK
  BY DEF TypeInv
<1> QED
  BY <1>1, <1>2, PTL

-----------------------------------------------------------------------------
(* Memory: the invariant is MemoryAccounted itself.  It says nothing of a   *)
(* program that has freed or called a stale value; there is no step then.   *)

(* Deleting a handle returns its block, if it has one, and no other. *)
LEMMA DeleteAccounted ==
  ASSUME TypeInv, MemoryAccounted, ~wild, NEW h \in live, DeleteHandle(h),
         current' = NULL, current \in {h, NULL}
  PROVE  MemoryAccounted'
<1> SUFFICES ASSUME ~wild' PROVE MemoryAccounted'
  BY DEF MemoryAccounted
<1> USE DEF TypeInv, TypeOK
<1>1. /\ live' = live \ {h}
      /\ \A b \in Blocks : owner'[b] = IF b = library[h] THEN NULL ELSE owner[b]
      /\ \A g \in Handles \ {h} : library'[g] = library[g]
  BY DEF DeleteHandle, Destroy
<1>2. /\ h \in Handles /\ h # NULL /\ NULL \notin live
      /\ library[h] # NULL => \E b \in Blocks : b = library[h] /\ owner[b] = h
  BY NullAssumption DEF DeleteHandle, Destroy
<1>3. \A g \in Handles : Loaded(g)' <=> g \in live /\ g # h
  BY <1>1, <1>2 DEF Loaded
<1>4. \A g \in Handles : Loaded(g)' => Loaded(g) /\ library'[g] = library[g]
  BY <1>1, <1>2, <1>3 DEF Loaded
<1>5. ASSUME NEW b \in Blocks, owner'[b] # NULL
      PROVE  (Loaded(owner[b]) /\ library[owner[b]] = b)'
  <2>1. owner'[b] = owner[b] /\ b # library[h]
    BY <1>1, <1>5
  <2>2. Loaded(owner[b]) /\ library[owner[b]] = b
    BY <1>5, <2>1 DEF MemoryAccounted
  <2>3. owner[b] \in Handles /\ owner[b] # h /\ owner[b] \in live
    BY <2>1, <2>2, <1>5 DEF Loaded
  <2> QED
    BY <1>1, <1>2, <2>1, <2>2, <2>3 DEF Loaded
<1>6. ASSUME NEW g \in Handles, Loaded(g)'
      PROVE  \E b \in Blocks : library'[g] = b /\ owner'[b] = g
  <2>1. PICK b \in Blocks : library[g] = b /\ owner[b] = g
    BY <1>4, <1>6 DEF MemoryAccounted
  <2>2. library[h] # b
    BY <1>2, <1>3, <1>6, <2>1, NullAssumption
  <2> QED
    BY <1>1, <1>4, <1>6, <2>1, <2>2
<1> QED
  BY <1>5, <1>6 DEF MemoryAccounted, Loaded

(* What MemoryAccounted is about is the same before and after. *)
LEMMA SameAccounts ==
  ASSUME MemoryAccounted, UNCHANGED <<library, owner, wild>>,
         \A h : Loaded(h)' <=> Loaded(h)
  PROVE  MemoryAccounted'
BY DEF MemoryAccounted

LEMMA MemoryStep ==
  ASSUME TypeInv, TypeInv', MemoryAccounted, [Next]_vars
  PROVE  MemoryAccounted'
<1> USE DEF TypeInv, TypeOK, Working
<1>1. ASSUME ~wild, NEW h \in Handles, DlopenNew(h) PROVE MemoryAccounted'
  <2>1. /\ \A g \in Handles \ {h} : library'[g] = library[g]
        /\ h \notin live /\ live' = live \cup {h} /\ owner' = owner
        /\ current = NULL /\ current' = h /\ pc' = "read"
    BY <1>1 DEF DlopenNew
  <2>2. NULL \notin live
    BY NullAssumption
  <2>3. \A g : Loaded(g)' <=> Loaded(g)
    BY <2>1, <2>2 DEF Loaded
  <2>4. \A g \in Handles : Loaded(g) => library'[g] = library[g]
    BY <2>1 DEF Loaded
  <2>5. \A b \in Blocks : owner[b] # NULL => owner[b] \in Handles
    OBVIOUS
  <2> QED
    BY <1>1, <2>1, <2>3, <2>4, <2>5 DEF MemoryAccounted
<1>2. ASSUME DlopenRead PROVE MemoryAccounted'
  BY <1>2, SameAccounts DEF DlopenRead, memory, Loaded
<1>3. ASSUME ~wild, DlopenRejected \/ LoadRefused \/ LoadFailed PROVE MemoryAccounted'
  BY <1>3, DeleteAccounted DEF DlopenRejected, LoadRefused, LoadFailed, DlopenFails
<1>4. ASSUME ~wild, NEW b \in Blocks, LoadAllocated(b) PROVE MemoryAccounted'
  <2> DEFINE h == current
  <2>1. /\ h \in live /\ h \in Handles /\ h # NULL /\ ~Loaded(h)
        /\ owner[b] = NULL /\ live' = live /\ current' = h /\ pc' = "link"
    BY <1>4, NullAssumption DEF LoadAllocated, Loaded
  <2>2. /\ library'[h] = b /\ \A g \in Handles \ {h} : library'[g] = library[g]
        /\ owner'[b] = h /\ \A c \in Blocks \ {b} : owner'[c] = owner[c]
    BY <1>4, <2>1 DEF LoadAllocated
  <2>3. \A g : Loaded(g)' <=> g \in live
    BY <2>1 DEF Loaded
  <2> HIDE DEF h
  <2>4. ASSUME NEW c \in Blocks, owner'[c] # NULL
        PROVE  (Loaded(owner[c]) /\ library[owner[c]] = c)'
    <3>1. CASE c = b
      BY <2>1, <2>2, <3>1 DEF Loaded
    <3>2. CASE c # b
      <4>1. Loaded(owner[c]) /\ library[owner[c]] = c /\ owner'[c] = owner[c]
        BY <1>4, <2>2, <2>4, <3>2 DEF MemoryAccounted
      <4>2. owner[c] \in live /\ owner[c] # h /\ owner[c] \in Handles
        BY <2>1, <4>1 DEF Loaded
      <4> QED
        BY <2>1, <2>2, <4>1, <4>2 DEF Loaded
    <3> QED
      BY <3>1, <3>2
  <2>5. ASSUME NEW g \in Handles, Loaded(g)'
        PROVE  \E c \in Blocks : library'[g] = c /\ owner'[c] = g
    <3>1. CASE g = h
      BY <2>2, <3>1
    <3>2. CASE g # h
      <4>1. Loaded(g)
        BY <2>3, <2>5, <3>2 DEF Loaded, h
      <4>2. PICK c \in Blocks : library[g] = c /\ owner[c] = g
        BY <1>4, <4>1 DEF MemoryAccounted
      <4>3. c # b
        BY <2>1, <4>2, NullAssumption
      <4> QED
        BY <2>2, <3>2, <4>2, <4>3
    <3> QED
      BY <3>1, <3>2
  <2> QED
    BY <2>4, <2>5 DEF MemoryAccounted, Loaded
<1>5. ASSUME NEW addresses \in Resolved, LoadSucceeded(addresses) PROVE MemoryAccounted'
  <2>1. NULL \notin live
    BY NullAssumption
  <2> QED
    BY <1>5, <2>1, SameAccounts DEF LoadSucceeded, Loaded
<1>6. ASSUME NEW h \in live \cup {NULL}, NEW n \in Arguments, Dlsym(h, n) PROVE MemoryAccounted'
  BY <1>6, SameAccounts DEF Dlsym, DlsymFails, memory, Loaded
<1>7. ASSUME Dlerror PROVE MemoryAccounted'
  BY <1>7, SameAccounts DEF Dlerror, memory, Loaded
<1>8. ASSUME ~wild, NEW h \in live \cup {NULL}, Dlclose(h) PROVE MemoryAccounted'
  <2>1. CASE h # NULL /\ DeleteHandle(h)
    BY <1>8, <2>1, DeleteAccounted DEF Dlclose
  <2>2. CASE UNCHANGED memory
    BY <1>8, <2>2, SameAccounts DEF Dlclose, memory, Loaded
  <2> QED
    BY <1>8, <2>1, <2>2 DEF Dlclose
<1>9. CASE UNCHANGED vars
  BY <1>9, SameAccounts DEF vars, Loaded
<1> QED
  BY <1>1, <1>2, <1>3, <1>4, <1>5, <1>6, <1>7, <1>8, <1>9 DEF Next, DlopenStep

Ownership == TypeInv /\ MemoryAccounted

LEMMA OwnershipInvariant == Spec => []Ownership
<1>1. Init => MemoryAccounted
  BY DEF Init, MemoryAccounted, Loaded
<1>2. Ownership /\ [Next]_vars => Ownership'
  BY TypeStep, MemoryStep DEF Ownership
<1> QED
  BY TypeInit, <1>1, <1>2, PTL DEF Spec, Ownership

(* dlopen and dlclose neither leak a block nor take one from a library that *)
(* is loaded, however calls and failures follow each other and whatever     *)
(* dl_handle_t() leaves in its fields; until a stale value is freed.        *)
THEOREM MemoryIsAccounted == Spec => []MemoryAccounted
BY OwnershipInvariant, PTL DEF Ownership

WildStep == wild' => \E h \in live \ live' :
                        entrypoint[h] # NULL \/ (~Loaded(h) /\ library[h] # NULL)

(* A destructor that goes wild does so through a field nobody assigned. *)
LEMMA DeleteWild ==
  ASSUME Ownership, ~wild, NEW h \in live, DeleteHandle(h)
  PROVE  WildStep
<1>1. live' = live \ {h} /\ h \in Handles
  BY DEF DeleteHandle, Destroy, Ownership, TypeInv, TypeOK
<1>2. Loaded(h) => \E b \in Blocks : b = library[h] /\ owner[b] = h
  BY <1>1 DEF Ownership, MemoryAccounted
<1> QED
  BY <1>1, <1>2 DEF DeleteHandle, Destroy, WildStep

LEMMA WildSteps == Ownership /\ [Next]_vars => [WildStep]_vars
<1> SUFFICES ASSUME Ownership, Next PROVE WildStep
  OBVIOUS
<1>0. ~wild
  BY DEF Next
<1>1. CASE wild' = wild
  BY <1>0, <1>1 DEF WildStep
<1>2. ASSUME DlopenStep PROVE WildStep
  <2>1. wild' = wild \/ (pc # "idle" /\ DeleteHandle(current))
    BY <1>2 DEF DlopenStep, DlopenRead, DlopenRejected, LoadAllocated, LoadRefused,
                LoadFailed, LoadSucceeded, DlopenFails, memory
  <2> QED
    BY <1>0, <1>1, <2>1, DeleteWild DEF Ownership, TypeInv, Working
<1>3. ASSUME NEW h \in live \cup {NULL}, Dlclose(h) PROVE WildStep
  <2>1. wild' = wild \/ (h # NULL /\ DeleteHandle(h))
    BY <1>3 DEF Dlclose, memory
  <2> QED
    BY <1>0, <1>1, <2>1, DeleteWild
<1>4. ASSUME NEW h \in Handles, DlopenNew(h) PROVE WildStep
  BY <1>1, <1>4 DEF DlopenNew
<1>5. ASSUME NEW h \in live \cup {NULL}, NEW n \in Arguments, Dlsym(h, n) PROVE WildStep
  BY <1>1, <1>5 DEF Dlsym, DlsymFails, memory
<1>6. ASSUME Dlerror PROVE WildStep
  BY <1>1, <1>6 DEF Dlerror, memory
<1> QED
  BY <1>2, <1>3, <1>4, <1>5, <1>6 DEF Next

(* The destructor (Loader.h:23-31) frees its handle's own block and nothing *)
(* else, and calls nothing, but for a field that was never assigned.        *)
THEOREM WildIsStale == Spec => WildOnlyByStale
<1>1. Spec => [][WildStep]_vars
  BY OwnershipInvariant, WildSteps, PTL DEF Spec
<1> QED
  BY <1>1 DEF WildOnlyByStale, WildStep

-----------------------------------------------------------------------------
(* Messages.  They do not depend on the heap.                               *)
MessageStep ==
    /\ hasError /\ ~hasError' => reply' = [op |-> "dlerror", value |-> lastError]
    /\ lastError' # lastError => hasError' /\ reply'.value = NULL

LEMMA FailsTells ==
  ASSUME NEW m, NEW op, SetError(m), Returns(op, NULL)
  PROVE  MessageStep
BY DEF SetError, Returns, MessageStep

LEMMA MessageSteps == [Next]_vars => [MessageStep]_vars
<1> SUFFICES ASSUME Next PROVE MessageStep
  OBVIOUS
<1>1. CASE UNCHANGED message
  BY <1>1 DEF message, MessageStep
<1>2. ASSUME NEW m, DlopenFails(m) PROVE MessageStep
  BY <1>2, FailsTells DEF DlopenFails
<1>3. ASSUME NEW m, DlsymFails(m) PROVE MessageStep
  BY <1>3, FailsTells DEF DlsymFails
<1>4. ASSUME NEW h \in Handles, DlopenNew(h) PROVE MessageStep
  BY <1>1, <1>4 DEF DlopenNew
<1>5. ASSUME DlopenStep PROVE MessageStep
  <2>1. \/ UNCHANGED message
        \/ \E m : DlopenFails(m)
    BY <1>5 DEF DlopenStep, DlopenRead, DlopenRejected, LoadAllocated, LoadRefused,
               LoadFailed, LoadSucceeded
  <2> QED
    BY <1>1, <1>2, <2>1
<1>6. ASSUME NEW h, NEW n, Dlsym(h, n) PROVE MessageStep
  BY <1>1, <1>3, <1>6 DEF Dlsym
<1>7. ASSUME Dlerror PROVE MessageStep
  BY <1>7 DEF Dlerror, Returns, MessageStep
<1>8. ASSUME NEW h, Dlclose(h) PROVE MessageStep
  BY <1>1, <1>8 DEF Dlclose
<1> QED
  BY <1>4, <1>5, <1>6, <1>7, <1>8 DEF Next

(* Whatever new handles find in their memory, a waiting message is lost     *)
(* only to the dlerror call that returns it, and the text of the last one   *)
(* is overwritten only by a call that fails (set_error, dlfcn.cpp:77-80).   *)
THEOREM MessagesStay == Spec => MessageStable
<1>1. Spec => [][MessageStep]_vars
  BY MessageSteps, PTL DEF Spec
<1> QED
  BY <1>1 DEF MessageStable, MessageStep

-----------------------------------------------------------------------------
(* Dlfcn implements DlfcnApi.  The handle dlopen works on is not the        *)
(* client's yet: it is left out of the mapping, and so are the steps on it. *)
Opened   == live \ {current}
Home     == [h \in Handles |-> IF h \in Opened THEN library[h] ELSE NULL]
Exported == [h \in Handles |-> IF h \in Opened THEN exports[h] ELSE NoExports]
Quiet    == UNCHANGED <<Opened, Home, Exported>>

(* Outside of dlopen every handle is the client's. *)
LEMMA IdleOpens ==
  ASSUME TypeInv, pc = "idle"
  PROVE  current = NULL /\ Opened = live /\ NULL \notin live
BY NullAssumption DEF TypeInv, TypeOK, Working, Opened

(* What the client's handles have is what the interface shows. *)
LEMMA QuietStep ==
  ASSUME Opened' = Opened,
         \A h \in Opened : library'[h] = library[h] /\ exports'[h] = exports[h]
  PROVE  Quiet
<1>1. \A h \in Handles :
        /\ (IF h \in Opened' THEN library'[h] ELSE NULL) = IF h \in Opened THEN library[h] ELSE NULL
        /\ (IF h \in Opened' THEN exports'[h] ELSE NoExports)
             = IF h \in Opened THEN exports[h] ELSE NoExports
  OBVIOUS
<1>2. Home' = Home
  <2> HIDE DEF Opened
  <2> QED BY <1>1 DEF Home
<1>3. Exported' = Exported
  <2> HIDE DEF Opened
  <2> QED BY <1>1 DEF Exported
<1> QED
  BY <1>2, <1>3 DEF Quiet

LEMMA ApiInit == Init => Api!Init
<1> SUFFICES ASSUME Init PROVE Api!Init
  OBVIOUS
<1>1. live \ {current} = {}
  BY DEF Init
<1> QED
  BY <1>1 DEF Init, Api!Init, NoExports, Api!NoExports

LEMMA ApiStutters ==
  ASSUME Quiet, UNCHANGED <<message, reply>>
  PROVE  UNCHANGED Api!vars
BY DEF Quiet, Api!vars, Opened, Home, Exported, message

(* dlopen takes a new handle, and works on it. *)
LEMMA NewIsQuiet ==
  ASSUME TypeInv, NEW h \in Handles, DlopenNew(h)
  PROVE  Quiet
<1>1. Opened = live /\ h \notin live /\ live' = live \cup {h} /\ current' = h
  BY IdleOpens DEF DlopenNew
<1>2. Opened' = Opened
  BY <1>1 DEF Opened
<1>3. \A g \in Opened : library'[g] = library[g] /\ exports'[g] = exports[g]
  BY <1>1 DEF DlopenNew, TypeInv, TypeOK
<1> QED
  BY <1>2, <1>3, QuietStep

LEMMA AllocationIsQuiet ==
  ASSUME TypeInv, NEW b \in Blocks, LoadAllocated(b)
  PROVE  Quiet
<1>1. Opened' = Opened
  BY DEF LoadAllocated, Opened
<1>2. \A g \in Opened : library'[g] = library[g] /\ exports'[g] = exports[g]
  BY DEF LoadAllocated, Opened, TypeInv, TypeOK
<1> QED
  BY <1>1, <1>2, QuietStep

(* dlopen gives up: the handle goes, which the client never had. *)
LEMMA FailureIsRefusal ==
  ASSUME TypeInv, current \in live, NEW m \in Api!OpenErrors, DlopenFails(m)
  PROVE  Api!Next
<1>1. live' = live \ {current} /\ current' = NULL /\ NULL \notin live
  BY NullAssumption DEF DlopenFails, DeleteHandle, Destroy, TypeInv, TypeOK
<1>2. Opened' = Opened
  BY <1>1 DEF Opened
<1>3. \A g \in Opened : library'[g] = library[g] /\ exports'[g] = exports[g]
  BY DEF DlopenFails, DeleteHandle, Destroy, Opened, TypeInv, TypeOK
<1>4. Quiet
  BY <1>2, <1>3, QuietStep
<1>5. Api!OpenFails
  BY <1>4 DEF DlopenFails, SetError, Returns, Api!OpenFails, Api!Fails, Api!Returns,
              Quiet, Opened, Home, Exported
<1> QED
  BY <1>5 DEF Api!Next

(* The handle becomes the client's, with a block no other handle has. *)
LEMMA SuccessIsOpen ==
  ASSUME Ownership, ~wild, NEW addresses \in Resolved, LoadSucceeded(addresses)
  PROVE  Api!Next
<1> DEFINE h == current
<1>1. /\ h \in live /\ h \in Handles /\ Loaded(h)
      /\ h # NULL /\ NULL \notin live /\ live \subseteq Handles
  BY NullAssumption DEF LoadSucceeded, Ownership, TypeInv, TypeOK, Working, Loaded
<1>2. h \notin Opened /\ Opened' = Opened \cup {h} /\ Opened \subseteq Handles
  BY <1>1 DEF LoadSucceeded, Opened
<1>3. PICK b \in Blocks : library[h] = b /\ owner[b] = h
  BY <1>1 DEF Ownership, MemoryAccounted
<1>4. \A g \in Opened : Home[g] # b
  <2>1. \A g \in Opened : Loaded(g) /\ g \in Handles /\ g # h /\ Home[g] = library[g]
    BY <1>1, <1>2 DEF Opened, Home, Loaded
  <2> HIDE DEF h
  <2> QED BY <1>3, <2>1 DEF Ownership, MemoryAccounted
<1>5. Home' = [Home EXCEPT ![h] = b]
  <2>1. \A g \in Handles : (IF g \in Opened' THEN library'[g] ELSE NULL)
                            = IF g = h THEN b ELSE IF g \in Opened THEN library[g] ELSE NULL
    BY <1>2, <1>3 DEF LoadSucceeded
  <2> HIDE DEF h
  <2>2. Home' = [g \in Handles |-> IF g = h THEN b ELSE IF g \in Opened THEN library[g] ELSE NULL]
    BY <2>1 DEF Home
  <2> QED
    BY <1>1, <2>2 DEF Home
<1>6. Exported' = [Exported EXCEPT ![h] = addresses]
  <2>1. exports'[h] = addresses /\ \A g \in Opened : exports'[g] = exports[g]
    BY <1>1, <1>2 DEF LoadSucceeded, Opened, Ownership, TypeInv, TypeOK
  <2>2. \A g \in Handles : (IF g \in Opened' THEN exports'[g] ELSE NoExports)
           = IF g = h THEN addresses ELSE IF g \in Opened THEN exports[g] ELSE NoExports
    BY <1>2, <2>1
  <2> HIDE DEF h
  <2>3. Exported' = [g \in Handles |->
             IF g = h THEN addresses ELSE IF g \in Opened THEN exports[g] ELSE NoExports]
    BY <2>2 DEF Exported
  <2> QED
    BY <1>1, <2>3 DEF Exported
<1>7. UNCHANGED <<hasError, lastError>> /\ Returns("dlopen", h)
  BY DEF LoadSucceeded, message
<1>8. PICK g \in Handles : g = h
  BY <1>1
<1>9. Api!Open(g, b, addresses)
  <2> HIDE DEF h
  <2> QED
    BY <1>2, <1>4, <1>5, <1>6, <1>7, <1>8
       DEF Api!Open, Api!Returns, Returns, Opened, Home, Exported
<1>10. addresses \in Api!Resolved
  BY DEF Resolved, Api!Resolved
<1> QED
  <2> HIDE DEF h
  <2> QED BY <1>9, <1>10 DEF Api!Next

LEMMA LookupIsLookup ==
  ASSUME TypeInv, NEW h \in live \cup {NULL}, NEW n \in Arguments, Dlsym(h, n)
  PROVE  Api!Next
<1>1. pc = "idle"
  BY DEF Dlsym
<1>2. current = NULL /\ Opened = live /\ NULL \notin live
  BY <1>1, IdleOpens
<1>3. UNCHANGED <<memory, pc, current>>
  BY DEF Dlsym, DlsymFails
<1>4. Quiet
  BY <1>3, QuietStep DEF memory, Opened
<1>5. CASE \E m \in Api!SymbolErrors : DlsymFails(m)
  <2>1. Api!LookupFails
    BY <1>4, <1>5 DEF DlsymFails, SetError, Returns, Api!LookupFails, Api!Fails, Api!Returns,
                      Quiet, Opened, Home, Exported
  <2> QED
    BY <2>1 DEF Api!Next
<1>6. CASE h # NULL /\ n \in Names /\ exports[h][n] # NULL
           /\ Returns("dlsym", exports[h][n]) /\ UNCHANGED message
  <2>1. h \in Opened /\ h \in Handles
    BY <1>2, <1>6 DEF TypeInv, TypeOK
  <2>2. Exported[h] = exports[h]
    BY <2>1 DEF Exported
  <2>3. Api!Lookup(h, n)
    BY <1>4, <1>6, <2>1, <2>2 DEF Returns, Api!Lookup, Api!Returns, message,
                                   Quiet, Opened, Home, Exported
  <2> QED
    BY <1>6, <2>1, <2>3 DEF Api!Next
<1> QED
  BY <1>5, <1>6 DEF Dlsym, Arguments, Api!SymbolErrors

LEMMA CloseIsClose ==
  ASSUME TypeInv, NEW h \in live \cup {NULL}, Dlclose(h)
  PROVE  Api!Next
<1>1. current = NULL /\ Opened = live /\ NULL \notin live /\ current' = current
  BY IdleOpens DEF Dlclose
<1>2. UNCHANGED <<hasError, lastError>> /\ Returns("dlclose", NULL)
  BY DEF Dlclose, message
<1>3. CASE UNCHANGED memory
  <2>1. Quiet
    BY <1>1, <1>3, QuietStep DEF memory, Opened
  <2>2. Api!CloseNull
    BY <1>2, <2>1 DEF Api!CloseNull, Api!Returns, Returns, Quiet, Opened, Home, Exported
  <2> QED
    BY <2>2 DEF Api!Next
<1>4. CASE h # NULL /\ DeleteHandle(h)
  <2>1. h \in live /\ h \in Handles /\ live' = live \ {h} /\ Opened' = Opened \ {h}
    BY <1>1, <1>4 DEF DeleteHandle, Destroy, Opened, TypeInv, TypeOK
  <2>2. \A g \in Opened' : library'[g] = library[g] /\ exports'[g] = exports[g]
    BY <1>1, <1>4, <2>1 DEF DeleteHandle, Destroy, TypeInv, TypeOK
  <2>3. \A g \in Handles :
          /\ (IF g \in Opened' THEN library'[g] ELSE NULL)
               = IF g = h THEN NULL ELSE IF g \in Opened THEN library[g] ELSE NULL
          /\ (IF g \in Opened' THEN exports'[g] ELSE NoExports)
               = IF g = h THEN NoExports ELSE IF g \in Opened THEN exports[g] ELSE NoExports
    BY <2>1, <2>2
  <2>4. Home' = [g \in Handles |-> IF g = h THEN NULL ELSE IF g \in Opened THEN library[g] ELSE NULL]
    BY <2>3 DEF Home
  <2>5. Exported' = [g \in Handles |->
             IF g = h THEN NoExports ELSE IF g \in Opened THEN exports[g] ELSE NoExports]
    BY <2>3 DEF Exported
  <2>6. Home' = [Home EXCEPT ![h] = NULL] /\ Exported' = [Exported EXCEPT ![h] = NoExports]
    BY <2>1, <2>4, <2>5 DEF Home, Exported
  <2>7. Api!Close(h)
    BY <1>2, <2>1, <2>6 DEF Api!Close, NoExports, Api!NoExports, Api!Returns, Returns, Opened, Home, Exported
  <2> QED
    BY <1>1, <2>1, <2>7 DEF Api!Next, Opened
<1> QED
  BY <1>3, <1>4 DEF Dlclose

(* Every step is a call of the interface, or the client sees none. *)
LEMMA ApiStep ==
  ASSUME Ownership, [Next]_vars
  PROVE  [Api!Next]_(Api!vars)
<1>t. TypeInv /\ Working
  BY DEF Ownership, TypeInv
<1>1. ASSUME NEW h \in Handles, DlopenNew(h) PROVE UNCHANGED Api!vars
  BY <1>1, <1>t, NewIsQuiet, ApiStutters DEF DlopenNew
<1>2. ASSUME DlopenRead PROVE UNCHANGED Api!vars
  <2>1. Quiet
    BY <1>2, QuietStep DEF DlopenRead, memory, Opened
  <2> QED
    BY <1>2, <2>1, ApiStutters DEF DlopenRead
<1>3. ASSUME DlopenRejected \/ LoadRefused \/ LoadFailed PROVE Api!Next
  BY <1>3, <1>t, FailureIsRefusal DEF DlopenRejected, LoadRefused, LoadFailed, Working,
                                      Api!OpenErrors
<1>4. ASSUME NEW b \in Blocks, LoadAllocated(b) PROVE UNCHANGED Api!vars
  BY <1>4, <1>t, AllocationIsQuiet, ApiStutters DEF LoadAllocated
<1>5. ASSUME ~wild, NEW addresses \in Resolved, LoadSucceeded(addresses) PROVE Api!Next
  BY <1>5, SuccessIsOpen
<1>6. ASSUME NEW h \in live \cup {NULL}, NEW n \in Arguments, Dlsym(h, n) PROVE Api!Next
  BY <1>6, <1>t, LookupIsLookup
<1>7. ASSUME Dlerror PROVE Api!Next
  <2>1. Quiet
    BY <1>7, QuietStep DEF Dlerror, memory, Opened
  <2>2. Api!TakeError
    BY <1>7, <2>1 DEF Dlerror, Returns, Api!TakeError, Api!Returns, Quiet, Opened, Home, Exported
  <2> QED
    BY <2>2 DEF Api!Next
<1>8. ASSUME NEW h \in live \cup {NULL}, Dlclose(h) PROVE Api!Next
  BY <1>8, <1>t, CloseIsClose
<1>9. CASE UNCHANGED vars
  <2>1. Quiet
    BY <1>9, QuietStep DEF vars, Opened
  <2> QED
    BY <1>9, <2>1, ApiStutters DEF vars, message
<1> QED
  BY <1>1, <1>2, <1>3, <1>4, <1>5, <1>6, <1>7, <1>8, <1>9 DEF Next, DlopenStep

(* Seen by its client the interface is what dlfcn.h promises, each call one *)
(* atomic step, whatever dlopen does meanwhile, wherever it gives up, and   *)
(* whatever a new handle holds (dlfcn.cpp:12-75, Loader.h:16-34).           *)
THEOREM CallsAreAtomic == Spec => ImplementsApi
<1>1. Ownership /\ [Next]_vars => [Api!Next]_(Api!vars)
  BY ApiStep
<1> QED
  BY OwnershipInvariant, ApiInit, <1>1, PTL DEF Spec, ImplementsApi, Api!Spec
=============================================================================
