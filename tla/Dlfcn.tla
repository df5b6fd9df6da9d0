------------------------------- MODULE Dlfcn -------------------------------
(***************************************************************************)
(* source/dlfcn.cpp over dl_handle (library/Loader.h): dlopen, dlsym,      *)
(* dlerror and dlclose, with the handles they allocate and delete.         *)
(*                                                                         *)
(* dlopen takes several steps: the handle is allocated before the file is  *)
(* read, and the library's memory while the loader runs; each step may     *)
(* fail and then has to undo the earlier ones.  What the loader does with  *)
(* the memory is module Loader; here it succeeds or fails, after or before *)
(* it allocated (module LoadContract states those outcomes).               *)
(*                                                                         *)
(* The constructor dl_handle_t() initialises neither library nor           *)
(* entrypoint, so a new handle holds in these fields whatever its piece of *)
(* the heap held: a nondeterministic choice from HeapFill.  Once such a    *)
(* value has been freed or called, nothing is known of the program any     *)
(* more, and the specification ends.                                       *)
(***************************************************************************)
EXTENDS Naturals, FiniteSets

CONSTANTS Handles, Blocks, Names, NULL,
          Addresses, \* what an export may resolve to, in a block or elsewhere
          HeapFill   \* the values a new handle may find in its heap memory

ASSUME NullAssumption == NULL \notin Handles \cup Blocks \cup Addresses

VARIABLES
    live,       \* the dl_handle objects that exist
    library,    \* handle->library
    entrypoint, \* handle->entrypoint
    exports,    \* handle->exports: the address of each name, or NULL
    owner,      \* the handle MEMAllocFromMappedMemoryEx gave each block for
    pc,         \* what dlopen does next; "idle" outside of dlopen
    current,    \* the handle dlopen works on
    hasError, lastError,    \* the static variables behind dlerror
    reply,      \* the last call that returned, and its value
    wild        \* has the destructor freed or called what is not its handle's?

vars == <<live, library, entrypoint, exports, owner, pc, current,
          hasError, lastError, reply, wild>>

memory  == <<live, library, entrypoint, exports, owner, wild>>
message == <<hasError, lastError>>

Pointers  == Blocks \cup HeapFill \cup {NULL}
NoExports == [n \in Names |-> NULL]
Resolved  == [Names -> Addresses \cup {NULL}]

Api == INSTANCE DlfcnApi WITH
    opened   <- live \ {current},
    home     <- [h \in Handles |-> IF h \in live \ {current} THEN library[h] ELSE NULL],
    exported <- [h \in Handles |-> IF h \in live \ {current}
                                   THEN exports[h] ELSE NoExports]

(* The names a client can pass: an exported or a missing one, "" or nullptr *)
(* (both of these are the one argument "empty").                            *)
Empty     == "empty"
Arguments == Names \cup {Empty}

Init ==
    /\ live = {}
    /\ library = [h \in Handles |-> NULL]
    /\ entrypoint = [h \in Handles |-> NULL]
    /\ exports = [h \in Handles |-> NoExports]
    /\ owner = [b \in Blocks |-> NULL]
    /\ pc = "idle"
    /\ current = NULL
    /\ hasError = FALSE
    /\ lastError = Api!NoMessage
    /\ reply = [op |-> "none", value |-> NULL]
    /\ wild = FALSE

Returns(op, value) == reply' = [op |-> op, value |-> value]

(* Operators named Bug... are mutated forms of the definition that follows  *)
(* them, each a slip the code could have; no action uses one.               *)
SetError(m) ==
    /\ hasError' = TRUE
    /\ lastError' = m

(* delete h: the destructor calls the entry point and frees the library,    *)
(* each when its field is not null, whoever wrote it; owners is what was    *)
(* handed out when it runs.  No code assigns an entry point, and of the     *)
(* blocks only those allocated for h are its own.                           *)
Destroy(h, owners) ==
    /\ live' = live \ {h}
    /\ owner' = [b \in Blocks |-> IF b = library[h] THEN NULL ELSE owners[b]]
    /\ wild' = /\ library[h] # NULL
               /\ \/ entrypoint[h] # NULL
                  \/ ~ \E b \in Blocks : b = library[h] /\ owners[b] = h
    /\ library' = [library EXCEPT ![h] = NULL]
    /\ entrypoint' = [entrypoint EXCEPT ![h] = NULL]
    /\ exports' = [exports EXCEPT ![h] = NoExports]

BugDeleteTwice(h) ==
    Destroy(h, [b \in Blocks |-> IF b = library[h] THEN NULL ELSE owner[b]])

DeleteHandle(h) == Destroy(h, owner)

(* dlopen: new dl_handle() *)
DlopenNew(h) ==
    /\ pc = "idle"
    /\ h \notin live
    /\ live' = live \cup {h}
    /\ \E fill \in HeapFill : library' = [library EXCEPT ![h] = fill]
    /\ \E fill \in HeapFill : entrypoint' = [entrypoint EXCEPT ![h] = fill]
    /\ exports' = [exports EXCEPT ![h] = NoExports]
    /\ current' = h
    /\ pc' = "read"
    /\ UNCHANGED <<owner, message, reply, wild>>

(* dlopen: reader.load(library) succeeds *)
DlopenRead ==
    /\ pc = "read"
    /\ pc' = "allocate"
    /\ UNCHANGED <<memory, current, message, reply>>

BugKeepsHandle(m) ==
    SetError(m) /\ Returns("dlopen", NULL) /\ current' = NULL /\ pc' = "idle"
    /\ UNCHANGED memory

BugKeepsCurrent(m) ==
    SetError(m) /\ Returns("dlopen", NULL) /\ DeleteHandle(current)
    /\ pc' = "idle" /\ UNCHANGED current

(* dlopen gives up: the message, delete handle, return nullptr *)
DlopenFails(m) ==
    /\ SetError(m)
    /\ DeleteHandle(current)
    /\ Returns("dlopen", NULL)
    /\ current' = NULL
    /\ pc' = "idle"

(* dlopen: reader.load(library) fails *)
DlopenRejected ==
    /\ pc = "read"
    /\ DlopenFails("bad rpl")

(* LibraryLoader::allocate_memory gets its block *)
LoadAllocated(b) ==
    /\ pc = "allocate"
    /\ library[current] = NULL
    /\ owner[b] = NULL
    /\ owner' = [owner EXCEPT ![b] = current]
    /\ library' = [library EXCEPT ![current] = b]
    /\ pc' = "link"
    /\ UNCHANGED <<live, entrypoint, exports, current, message, reply, wild>>

BugIgnoresLoadResult ==
    pc = "allocate" /\ Returns("dlopen", current) /\ current' = NULL /\ pc' = "idle"
    /\ UNCHANGED <<memory, message>>

(* ... finds the handle allocated already, or gets no memory *)
LoadRefused ==
    /\ pc = "allocate"
    /\ IF library[current] # NULL THEN DlopenFails("already allocated")
                                  ELSE DlopenFails("out of memory")

BugLeaksBlock ==
    /\ pc = "link"
    /\ SetError("not linked") /\ Returns("dlopen", NULL)
    /\ live' = live \ {current} /\ current' = NULL /\ pc' = "idle"
    /\ UNCHANGED <<library, entrypoint, exports, owner, wild>>

(* LibraryLoader::load fails with the memory in its hands *)
LoadFailed ==
    /\ pc = "link"
    /\ DlopenFails("not linked")

(* ... or resolves the exports, to text_offset + offset (Loader.cpp:302),   *)
(* wherever that is, and dlopen returns the handle                          *)
LoadSucceeded(addresses) ==
    /\ pc = "link"
    /\ exports' = [exports EXCEPT ![current] = addresses]
    /\ Returns("dlopen", current)
    /\ current' = NULL
    /\ pc' = "idle"
    /\ UNCHANGED <<live, library, entrypoint, owner, message, wild>>

DlsymFails(m) ==
    /\ SetError(m)
    /\ Returns("dlsym", NULL)
    /\ UNCHANGED <<memory, pc, current>>

(* dlsym, through SymbolResolver::resolve.  The client passes NULL or a *)
(* handle it has not closed.                                            *)
Dlsym(h, n) ==
    /\ pc = "idle"
    /\ \/ /\ h = NULL
          /\ DlsymFails("bad handle")
       \/ /\ h # NULL /\ n = Empty
          /\ DlsymFails("bad symbol")
       \/ /\ h # NULL /\ n # Empty /\ exports[h][n] = NULL
          /\ DlsymFails("not found")
       \/ /\ h # NULL /\ n # Empty /\ exports[h][n] # NULL
          /\ Returns("dlsym", exports[h][n])
          /\ UNCHANGED <<memory, pc, current, message>>

BugErasesMessage ==
    /\ pc = "idle"
    /\ Returns("dlerror", IF hasError THEN lastError ELSE NULL)
    /\ hasError' = FALSE /\ lastError' = Api!NoMessage
    /\ UNCHANGED <<memory, pc, current>>

Dlerror ==
    /\ pc = "idle"
    /\ Returns("dlerror", IF hasError THEN lastError ELSE NULL)
    /\ hasError' = FALSE
    /\ UNCHANGED <<memory, pc, current, lastError>>

Dlclose(h) ==
    /\ pc = "idle"
    /\ \/ h # NULL /\ DeleteHandle(h)
       \/ h = NULL /\ UNCHANGED memory
    /\ Returns("dlclose", NULL)
    /\ UNCHANGED <<pc, current, message>>

(* The steps dlopen takes by itself once it is called *)
DlopenStep ==
    \/ DlopenRead
    \/ DlopenRejected
    \/ \E b \in Blocks : LoadAllocated(b)
    \/ LoadRefused
    \/ LoadFailed
    \/ \E addresses \in Resolved : LoadSucceeded(addresses)

Next ==
    /\ ~wild
    /\ \/ \E h \in Handles : DlopenNew(h)
       \/ DlopenStep
       \/ \E h \in live \cup {NULL}, n \in Arguments : Dlsym(h, n)
       \/ Dlerror
       \/ \E h \in live \cup {NULL} : Dlclose(h)

Spec == Init /\ [][Next]_vars

-----------------------------------------------------------------------------
TypeOK ==
    /\ live \subseteq Handles
    /\ library \in [Handles -> Pointers]
    /\ entrypoint \in [Handles -> HeapFill \cup {NULL}]
    /\ exports \in [Handles -> Resolved]
    /\ owner \in [Blocks -> Handles \cup {NULL}]
    /\ pc \in {"idle", "read", "allocate", "link"}
    /\ current \in live \cup {NULL}
    /\ hasError \in BOOLEAN
    /\ lastError \in Api!Messages \cup {Api!NoMessage}
    /\ reply \in Api!Replies
    /\ wild \in BOOLEAN

(* The loader has allocated memory for h: so it is with every handle the    *)
(* client holds, and with the one dlopen works on from then on.             *)
Loaded(h) == h \in live /\ (h = current => pc = "link")

(* Every block handed out is the library of the handle it was handed out    *)
(* for, and every loaded handle has its block: no failure of dlopen and no  *)
(* dlclose leaks a block or takes it from a library that runs in it, be     *)
(* the fields of new handles what they may (destructor, Loader.h:23-31).    *)
MemoryAccounted == ~wild =>
    /\ \A b \in Blocks : owner[b] # NULL => Loaded(owner[b]) /\ library[owner[b]] = b
    /\ \A h \in Handles : Loaded(h) => \E b \in Blocks : library[h] = b /\ owner[b] = h

(* The destructor frees or calls what is not its handle's only because a    *)
(* field was never assigned: the entry point, or the library of a handle    *)
(* whose dlopen fails before there is memory.  No order of calls and        *)
(* failures frees a block twice or another handle's (Loader.h:22-31).       *)
WildOnlyByStale ==
    [][wild' => \E h \in live \ live' :
          entrypoint[h] # NULL \/ (~Loaded(h) /\ library[h] # NULL)]_vars

(* A waiting message is lost only to the dlerror call that returns it, and  *)
(* the text a client got from dlerror is overwritten only by a later call   *)
(* that fails (set_error, dlfcn.cpp:77-80).                                 *)
MessageStable ==
    [][/\ hasError /\ ~hasError' => reply' = [op |-> "dlerror", value |-> lastError]
       /\ lastError' # lastError => hasError' /\ reply'.value = NULL]_vars

(* What a new handle is for: allocate_memory() takes "already allocated"    *)
(* for a sign of a handle in a bad state (Loader.cpp:51-52), which a handle *)
(* dlopen has just made must not be.                                        *)
FreshHandleNotAllocated == pc = "allocate" => library[current] = NULL

(* The interface implements its atomic specification *)
ImplementsApi == Api!Spec
=============================================================================
