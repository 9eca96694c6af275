------------------------------ MODULE EventLoop ------------------------------
(***************************************************************************)
(* The asyncio event loops of the server processes. The webhook and the    *)
(* reply endpoint are coroutines that call the database synchronously: one *)
(* keeps the loop of its process from one await to the next, whatever it   *)
(* does in between. The README starts a single uvicorn process; several    *)
(* (the comments on "concurrent webhooks" expect them) have a loop each.   *)
(***************************************************************************)
CONSTANTS
    Processes,    \* server processes
    Coroutines,   \* the requests they serve
    ProcessOf,    \* the process that serves a request
    Idle          \* no coroutine

ASSUME EventLoopAssumption ==
    /\ ProcessOf \in [Coroutines -> Processes]
    /\ Idle \notin Coroutines

VARIABLE loop     \* the coroutine that is running on each process

LoopTypeOK == loop \in [Processes -> Coroutines \cup {Idle}]

LoopInit == loop = [p \in Processes |-> Idle]

Holds(c) == loop[ProcessOf[c]] = c

(* c may run: it already is running, or nobody is. *)
CanRun(c) == loop[ProcessOf[c]] \in {Idle, c}

(* The step ends inside a synchronous section: c goes on running. *)
Hold(c) == loop' = [loop EXCEPT ![ProcessOf[c]] = c]

(* The step ends at an await, or at the end of the request. *)
Yield(c) == loop' = [loop EXCEPT ![ProcessOf[c]] = Idle]

=============================================================================
