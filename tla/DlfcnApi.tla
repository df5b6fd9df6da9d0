------------------------------ MODULE DlfcnApi ------------------------------
(***************************************************************************)
(* What the dlfcn interface (source/dlfcn.h) promises a client: every call *)
(* is one atomic step.  An opened library has a block of memory of its own *)
(* (its home) until it is closed, dlsym answers with the address the name  *)
(* was resolved to when the library was opened, every refusal leaves a     *)
(* message for dlerror, and dlerror hands a message out once.  Where an    *)
(* address lies is the loader's affair (ExportsMeetSections of Loader).    *)
(***************************************************************************)
CONSTANTS
    Handles,    \* what dlopen may return
    Blocks,     \* the blocks of memory a library may be loaded into
    Names,      \* the symbol names a client may ask for
    Addresses,  \* what a symbol may resolve to
    NULL        \* the null pointer

VARIABLES
    opened,     \* the handles the client holds
    home,       \* the block of each opened library, NULL for the others
    exported,   \* per opened library and name, the address or NULL
    hasError,   \* a message waits for dlerror
    lastError,  \* the last message written
    reply       \* the last call that returned, and its value

vars == <<opened, home, exported, hasError, lastError, reply>>

(* The messages: of dlopen (a file that is no library, or what the loader *)
(* reports) and of dlsym.                                                 *)
OpenErrors   == {"bad rpl", "already allocated", "out of memory", "not linked"}
SymbolErrors == {"bad handle", "bad symbol", "not found"}
NoMessage    == ""
Messages     == OpenErrors \cup SymbolErrors

Replies == [op : {"none", "dlopen", "dlsym", "dlerror", "dlclose"},
            value : Handles \cup Addresses \cup Messages \cup {NULL}]

NoExports == [n \in Names |-> NULL]
Resolved  == [Names -> Addresses \cup {NULL}]

Returns(op, value) == reply' = [op |-> op, value |-> value]

Init ==
    /\ opened = {}
    /\ home = [h \in Handles |-> NULL]
    /\ exported = [h \in Handles |-> NoExports]
    /\ hasError = FALSE
    /\ lastError = NoMessage
    /\ reply = [op |-> "none", value |-> NULL]

Fails(op, message) ==
    /\ hasError' = TRUE
    /\ lastError' = message
    /\ Returns(op, NULL)

Open(h, b, addresses) ==
    /\ h \notin opened
    /\ \A g \in opened : home[g] # b
    /\ opened' = opened \cup {h}
    /\ home' = [home EXCEPT ![h] = b]
    /\ exported' = [exported EXCEPT ![h] = addresses]
    /\ Returns("dlopen", h)
    /\ UNCHANGED <<hasError, lastError>>

OpenFails == \E m \in OpenErrors :
    Fails("dlopen", m) /\ UNCHANGED <<opened, home, exported>>

Lookup(h, n) ==
    /\ h \in opened
    /\ exported[h][n] # NULL
    /\ Returns("dlsym", exported[h][n])
    /\ UNCHANGED <<opened, home, exported, hasError, lastError>>

LookupFails == \E m \in SymbolErrors :
    Fails("dlsym", m) /\ UNCHANGED <<opened, home, exported>>

TakeError ==
    /\ Returns("dlerror", IF hasError THEN lastError ELSE NULL)
    /\ hasError' = FALSE
    /\ UNCHANGED <<opened, home, exported, lastError>>

Close(h) ==
    /\ opened' = opened \ {h}
    /\ home' = [home EXCEPT ![h] = NULL]
    /\ exported' = [exported EXCEPT ![h] = NoExports]
    /\ Returns("dlclose", NULL)
    /\ UNCHANGED <<hasError, lastError>>

CloseNull ==
    /\ Returns("dlclose", NULL)
    /\ UNCHANGED <<opened, home, exported, hasError, lastError>>

Next ==
    \/ \E h \in Handles, b \in Blocks, addresses \in Resolved : Open(h, b, addresses)
    \/ OpenFails
    \/ \E h \in Handles, n \in Names : Lookup(h, n)
    \/ LookupFails
    \/ TakeError
    \/ \E h \in opened : Close(h)
    \/ CloseNull

Spec == Init /\ [][Next]_vars
=============================================================================
