------------------------------ MODULE Lifecycle ------------------------------
(***************************************************************************)
(* The life of one process: the transports of cmd/mcp-pipedrive/main.go,   *)
(* the cache file that pipedrive/context.go opens once, and how a signal   *)
(* ends it all.  What a call does while it is served is left to the module *)
(* that extends this one.                                                  *)
(***************************************************************************)
EXTENDS Integers, Sequences, FiniteSets

CONSTANT Calls \* the tool calls that may come in

ASSUME LifecycleAssumption == IsFiniteSet(Calls)

VARIABLES
    env,       \* how the process was started, and by whom it is used
    signalled, \* SIGINT or SIGTERM has arrived
    phase,     \* how far run() is
    outcome,   \* what run() returns
    cache,     \* sharedCache and its sync.Once
    inside,    \* per call, whether it is being served
    cut        \* history: the calls that had not ended at the deferred Close

lifeVars == <<env, signalled, phase, outcome, cache, inside, cut>>

(* stream: a client keeps its GET stream to the endpoint open.  locked:    *)
(* another process has the cache file and keeps it.                        *)
Environments ==
    {e \in [transport : {"stdio", "sse", "streamable-http"}, stream : BOOLEAN,
            locked : BOOLEAN] : e.stream => e.transport = "streamable-http"}

(* PIPEDRIVE_CACHE_ENABLED decides whether the cache is opened at all. *)
LifeInit ==
    /\ env \in Environments
    /\ signalled = FALSE
    /\ phase = "serving"
    /\ outcome = "none"
    /\ cache \in IF env.locked THEN {"unopened"} ELSE {"unopened", "absent"}
    /\ inside = [c \in Calls |-> "new"]
    /\ cut = {}

InService == {c \in Calls : inside[c] \in {"connecting", "in"}}

----------------------------------------------------------------------------
(* Requests and the shared cache. *)

Arrive(c) ==
    /\ phase = "serving"
    /\ inside[c] = "new"
    /\ inside' = [inside EXCEPT ![c] = "connecting"]
    /\ UNCHANGED <<env, signalled, phase, outcome, cache, cut>>

(* The first context function opens the cache: of the first request, and   *)
(* over stdio of Listen, before any call is read.                          *)
BeginOpen ==
    /\ phase # "exited"
    /\ cache = "unopened"
    /\ env.transport = "stdio" \/ InService # {}
    /\ cache' = "opening"
    /\ UNCHANGED <<env, signalled, phase, outcome, inside, cut>>

EndOpen ==
    /\ phase # "exited"
    /\ cache = "opening"
    /\ ~env.locked
    /\ cache' = "open"
    /\ UNCHANGED <<env, signalled, phase, outcome, inside, cut>>

(* Mutated OpenTimesOut: bbolt.Open without Timeout waits for the lock. *)
OpenWaits ==
    /\ FALSE
    /\ UNCHANGED lifeVars

(* No lock within five seconds: the process goes on without a cache. *)
OpenTimesOut ==
    /\ phase # "exited"
    /\ cache = "opening"
    /\ env.locked
    /\ cache' = "absent"
    /\ UNCHANGED <<env, signalled, phase, outcome, inside, cut>>

(* Mutated Enter: a request that finds the cache being opened goes on. *)
EnterAnyway(c) ==
    /\ phase # "exited"
    /\ inside[c] = "connecting"
    /\ cache # "unopened"
    /\ inside' = [inside EXCEPT ![c] = "in"]
    /\ UNCHANGED <<env, signalled, phase, outcome, cache, cut>>

(* The other requests wait in Once.Do until the first is through. *)
Enter(c) ==
    /\ phase # "exited"
    /\ inside[c] = "connecting"
    /\ cache \notin {"unopened", "opening"}
    /\ inside' = [inside EXCEPT ![c] = "in"]
    /\ UNCHANGED <<env, signalled, phase, outcome, cache, cut>>

Leave(c) ==
    /\ phase # "exited"
    /\ inside[c] = "in"
    /\ inside' = [inside EXCEPT ![c] = "left"]
    /\ UNCHANGED <<env, signalled, phase, outcome, cache, cut>>

----------------------------------------------------------------------------
(* The end. *)

Signal ==
    /\ phase \in {"serving", "draining"}
    /\ ~signalled
    /\ signalled' = TRUE
    /\ UNCHANGED <<env, phase, outcome, cache, inside, cut>>

(* run() returns result: its deferred calls are next. *)
Ends(result) ==
    /\ phase' = "closing"
    /\ outcome' = result
    /\ UNCHANGED <<env, signalled, cache, inside, cut>>

(* Listen returns when its context is done, and context.Canceled is no     *)
(* error, or at the end of stdin.                                          *)
ListenReturns ==
    /\ env.transport = "stdio"
    /\ phase = "serving"
    /\ Ends("ok")

(* Listen ends with another error, as of a read of the stdin that the      *)
(* signal handler has closed: run() returns it, and main panics.           *)
ListenFails ==
    /\ env.transport = "stdio"
    /\ phase = "serving"
    /\ Ends("error")

(* Start fails, or the listener breaks. *)
StartFails ==
    /\ env.transport # "stdio"
    /\ phase = "serving"
    /\ Ends("error")

(* Mutated BeginShutdown: the server is not shut down. *)
ReturnAtOnce ==
    /\ env.transport # "stdio"
    /\ phase = "serving"
    /\ signalled
    /\ Ends("ok")

BeginShutdown ==
    /\ env.transport # "stdio"
    /\ phase = "serving"
    /\ signalled
    /\ phase' = "draining"
    /\ UNCHANGED <<env, signalled, outcome, cache, inside, cut>>

(* http.Server.Shutdown waits until no connection is in use.  The calls of *)
(* the SSE transport run on after their request was accepted.              *)
ShutdownReturns ==
    /\ phase = "draining"
    /\ env.transport = "streamable-http" => InService = {} /\ ~env.stream
    /\ Ends("ok")

(* Mutated ShutdownTimesOut: Shutdown has a context without a deadline. *)
ShutdownWaits ==
    /\ FALSE
    /\ UNCHANGED lifeVars

(* Not within five seconds. *)
ShutdownTimesOut ==
    /\ phase = "draining"
    /\ Ends("error")

(* The deferred Close.  A cache that is being opened is not seen. *)
CloseCache ==
    /\ phase = "closing"
    /\ phase' = "closed"
    /\ cache' = IF cache = "open" THEN "closed" ELSE cache
    /\ cut' = InService
    /\ UNCHANGED <<env, signalled, outcome, inside>>

(* main returns, or panics with the error: what is in progress is lost. *)
Exit ==
    /\ phase = "closed"
    /\ phase' = "exited"
    /\ inside' = [c \in Calls |-> IF c \in InService THEN "killed" ELSE inside[c]]
    /\ UNCHANGED <<env, signalled, outcome, cache, cut>>

(* What the process does by itself. *)
LifeStep ==
    \/ BeginOpen \/ EndOpen \/ OpenTimesOut
    \/ signalled /\ ListenReturns
    \/ BeginShutdown \/ ShutdownReturns \/ ShutdownTimesOut
    \/ CloseCache \/ Exit

(* What is done to it, besides the calls. *)
LifeEvent ==
    \/ Signal
    \/ StartFails
    \/ ListenFails
    \/ ~signalled /\ ListenReturns

----------------------------------------------------------------------------
(* The types; and no call runs before it is settled which cache it has.    *)
LifeTypeOK ==
    /\ env \in Environments
    /\ signalled \in BOOLEAN
    /\ phase \in {"serving", "draining", "closing", "closed", "exited"}
    /\ outcome \in {"none", "ok", "error"}
    /\ cache \in {"unopened", "opening", "open", "absent", "closed"}
    /\ inside \in [Calls -> {"new", "connecting", "in", "left", "killed"}]
    /\ cut \subseteq Calls
    /\ \A c \in Calls : inside[c] \in {"in", "left"} => cache \notin {"unopened", "opening"}

(* A streamable-http server that reports no error has let every call end   *)
(* before it closed the cache: a stop that cuts a call off panics.         *)
QuietStopCutsNobody ==
    phase \in {"closed", "exited"} /\ env.transport = "streamable-http" /\ outcome = "ok"
        => cut = {}

(* A signal ends the process, also while a client holds a stream, a call   *)
(* waits for the upstream, or the cache file is locked by somebody else.   *)
SignalStops == signalled ~> phase = "exited"
=============================================================================
