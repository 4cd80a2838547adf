----------------------------- MODULE Lifecycle ------------------------------
(***************************************************************************)
(* The runtime of the plugin over edits of its configuration: every edit   *)
(* is a stop() followed by a start(), and a stop() again if the start      *)
(* fails (CSRegScanner.on_external_config_update).                         *)
(*                                                                         *)
(* A start() builds one generation of resources and keeps each in an       *)
(* attribute of the plugin; a stop() closes what the attributes hold when  *)
(* it gets there.  What is open and in no attribute can never be closed    *)
(* again while the process runs.                                           *)
(***************************************************************************)
EXTENDS Naturals, FiniteSets

CONSTANTS
    Reloaders,  \* calls of on_external_config_update that may be under way at once
    MaxEdits    \* bound on the edits of the configuration

ASSUME LifecycleAssumption == Reloaders # {} /\ MaxEdits \in Nat

VARIABLES
    config,      \* the configuration as it was last edited
    edits,       \* how often it was edited
    generation,  \* how often start() was called
    held,        \* what each attribute refers to, by generation
    open,        \* what is open, by generation
    place,       \* where each call of on_external_config_update is
    half,        \* whether its stop() makes way for a start() or follows one
    cancelled,   \* the loops that stop() waits for
    gen,         \* the generation its start() builds
    up,          \* the last start() that ended was successful
    raised,      \* some stop() has raised
    dropped,     \* some start() dropped a postgres source that had connected
    overlapped   \* some reload began while another was under way

lifecycleVars ==
    <<config, edits, generation, held, open, place, half, cancelled, gen,
      up, raised, dropped, overlapped>>

reloadVars == <<half, cancelled, gen>>

(* The state handlers, the loops with their scans, the two HTTP sessions,    *)
(* the pool of the postgres source and the listener of the metrics.          *)
Kinds == {"handlers", "loops", "session", "probe", "pool", "listener"}

(* What is wrong with a configuration.  start() raises for a blacklist that  *)
(* does not parse, a scan budget or a write rate that is no number, a text   *)
(* file that is no mapping, an interval of the policy list or a port of the  *)
(* metrics that is no number, a port that another process listens on; it     *)
(* goes on without the postgres source if the interval of that is none.      *)
Faults  == {"none", "networks", "scanner", "policy", "textfiles", "interval",
            "listInterval", "portNumber", "port"}
Configs == [fault : Faults, metrics : BOOLEAN]

Loadable(c) == \/ c.fault \in {"none", "interval"}
               \/ c.fault \in {"portNumber", "port"} /\ ~c.metrics

Places == {"idle", "gather", "pool", "listener", "probe", "session",
           "start", "list", "reads", "connect", "bind", "teardown"}

(* start() has nothing to wait for between these and the next pause, so no   *)
(* other coroutine runs.                                                     *)
Urgent == {"start", "teardown"}

LifecycleInit ==
    /\ config = [fault |-> "none", metrics |-> TRUE]
    /\ edits = 0
    /\ generation = 1
    /\ held = [k \in Kinds |-> {1}]
    /\ open = [k \in Kinds |-> {1}]
    /\ place = [r \in Reloaders |-> "idle"]
    /\ half = [r \in Reloaders |-> "stop"]
    /\ cancelled = [r \in Reloaders |-> {}]
    /\ gen = [r \in Reloaders |-> 0]
    /\ up = TRUE
    /\ raised = FALSE
    /\ dropped = FALSE
    /\ overlapped = FALSE

At(r, p) ==
    /\ place[r] = p
    /\ \A s \in Reloaders \ {r} : place[s] \notin Urgent

GoTo(r, p) == place' = [place EXCEPT ![r] = p]

Close(k, gens) == open' = [open EXCEPT ![k] = @ \ gens]

-----------------------------------------------------------------------------
(* MUTANT: the handlers of the generation before stay registered.            *)
BeginStopRegistered(r, which) ==
    /\ held' = [held EXCEPT !["handlers"] = {}]
    /\ GoTo(r, "gather")
    /\ half' = [half EXCEPT ![r] = which]
    /\ cancelled' = [cancelled EXCEPT ![r] = held["loops"]]
    /\ UNCHANGED open

(* stop() up to its first pause: the handlers that start() recorded are      *)
(* removed, the tasks cancelled.                                             *)
BeginStop(r, which) ==
    /\ Close("handlers", held["handlers"])
    /\ held' = [held EXCEPT !["handlers"] = {}]
    /\ GoTo(r, "gather")
    /\ half' = [half EXCEPT ![r] = which]
    /\ cancelled' = [cancelled EXCEPT ![r] = held["loops"]]

(* An edit of the configuration; the reload runs up to the first pause.      *)
Edit(r, c) ==
    /\ At(r, "idle")
    /\ edits < MaxEdits
    /\ edits' = edits + 1
    /\ config' = c
    /\ BeginStop(r, "stop")
    /\ overlapped' = (overlapped \/ \E s \in Reloaders \ {r} : place[s] # "idle")
    /\ UNCHANGED <<gen, generation, up, raised, dropped>>

(* The cancelled tasks have ended.                                           *)
Gathered(r) ==
    /\ At(r, "gather")
    /\ Close("loops", cancelled[r])
    /\ GoTo(r, "pool")
    /\ UNCHANGED <<reloadVars, config, edits, generation, held, up, raised, dropped, overlapped>>

(* What follows a stop(): the start of a reload, or nothing after the        *)
(* teardown of a failed one.                                                 *)
AfterStop(r) == IF half[r] = "stop" THEN "start" ELSE "idle"

(* The pool of the postgres source.  A close that raises has terminated the  *)
(* pool, but what stop() had still to close stays open.                      *)
ClosePool(r, raises) ==
    /\ At(r, "pool")
    /\ Close("pool", held["pool"])
    /\ raises => held["pool"] \cap open["pool"] # {}
    /\ GoTo(r, IF raises THEN AfterStop(r) ELSE "listener")
    /\ raised' = (raised \/ raises)
    /\ UNCHANGED <<reloadVars, config, edits, generation, held, up, dropped, overlapped>>

(* The listener of the metrics.                                              *)
StopListener(r) ==
    /\ At(r, "listener")
    /\ Close("listener", held["listener"])
    /\ GoTo(r, "probe")
    /\ UNCHANGED <<reloadVars, config, edits, generation, held, up, raised, dropped, overlapped>>

(* Its cleanup raises; the socket may be closed by then or not.              *)
StopListenerRaises(r) ==
    /\ At(r, "listener")
    /\ held["listener"] \cap open["listener"] # {}
    /\ \E gens \in {{}, held["listener"]} : Close("listener", gens)
    /\ GoTo(r, AfterStop(r))
    /\ raised' = TRUE
    /\ UNCHANGED <<reloadVars, config, edits, generation, held, up, dropped, overlapped>>

(* MUTANT: stop() leaves the session of the scanner's probe to itself.       *)
CloseProbeForgotten(r) ==
    /\ At(r, "probe")
    /\ GoTo(r, "session")
    /\ UNCHANGED <<reloadVars, config, edits, generation, held, open, up, raised, dropped, overlapped>>

(* The session of the version probe, which the scanner owns.                 *)
CloseProbe(r) ==
    /\ At(r, "probe")
    /\ Close("probe", held["probe"])
    /\ GoTo(r, "session")
    /\ UNCHANGED <<reloadVars, config, edits, generation, held, up, raised, dropped, overlapped>>

(* The shared session, last: the scans that borrowed it are gone.            *)
CloseSession(r) ==
    /\ At(r, "session")
    /\ Close("session", held["session"])
    /\ GoTo(r, AfterStop(r))
    /\ UNCHANGED <<reloadVars, config, edits, generation, held, up, raised, dropped, overlapped>>

-----------------------------------------------------------------------------
(* The kinds a start() has built when it first pauses, by the configuration. *)
BuiltFirst(fault) ==
    IF fault = "networks" THEN {}
    ELSE IF fault = "scanner" THEN {"session"} ELSE {"session", "probe"}

Keep(g, kinds) == [k \in Kinds |-> IF k = "loops" THEN {}
                                   ELSE IF k \in kinds THEN {g} ELSE held[k]]

(* start() up to the read of the cached suffix list.                         *)
BeginStart(r) ==
    LET g     == generation + 1
        built == BuiltFirst(config.fault)
    IN  /\ At(r, "start")
        /\ generation' = g
        /\ held' = Keep(g, built)
        /\ open' = [k \in Kinds |-> IF k \in built THEN open[k] \cup {g} ELSE open[k]]
        /\ gen' = [gen EXCEPT ![r] = g]
        /\ GoTo(r, IF config.fault \in {"networks", "scanner"} THEN "teardown" ELSE "list")
        /\ UNCHANGED <<half, cancelled, config, edits, up, raised, dropped, overlapped>>

(* The policy manager is constructed, the governance is about to be read.    *)
Construct(r) ==
    /\ At(r, "list")
    /\ GoTo(r, IF config.fault = "policy" THEN "teardown" ELSE "reads")
    /\ UNCHANGED <<reloadVars, config, edits, generation, held, open, up, raised, dropped, overlapped>>

(* The handlers are recorded and registered; if the text files can be read   *)
(* from the configuration, the postgres source replaces the one before and   *)
(* connects.                                                                 *)
Register(r) ==
    LET g     == gen[r]
        fails == config.fault = "textfiles"
    IN  /\ At(r, "reads")
        /\ held' = [held EXCEPT !["handlers"] = {g}, !["pool"] = IF fails THEN @ ELSE {g}]
        /\ open' = [open EXCEPT !["handlers"] = @ \cup {g}]
        /\ GoTo(r, IF fails THEN "teardown" ELSE "connect")
        /\ UNCHANGED <<reloadVars, config, edits, generation, up, raised, dropped, overlapped>>

(* A source that cannot connect is dropped, and so is one whose interval is  *)
(* then found to be no number, with its pool; start() goes on to forget the  *)
(* listener of the generation before and to make one.                        *)
Connect(r, connects) ==
    LET g      == gen[r]
        keeps  == connects /\ config.fault # "interval"
        raises == \/ config.fault = "listInterval"
                  \/ config.fault = "portNumber" /\ config.metrics
    IN  /\ At(r, "connect")
        /\ dropped' = (dropped \/ (connects /\ ~keeps))
        /\ open' = [open EXCEPT !["pool"] = IF connects THEN @ \cup {g} ELSE @]
        /\ held' = [held EXCEPT !["pool"] = IF keeps THEN @ ELSE {},
                                !["listener"] =
                                    IF config.fault = "listInterval" THEN @
                                    ELSE IF config.metrics /\ ~raises THEN {g} ELSE {}]
        /\ GoTo(r, IF raises THEN "teardown" ELSE "bind")
        /\ UNCHANGED <<reloadVars, config, edits, generation, up, raised, overlapped>>

(* One listener has the port: a second cannot bind it.                       *)
PortFree == config.fault # "port" /\ open["listener"] = {}

(* The listener is bound and the loops run: the plugin is up.                *)
Launch(r) ==
    LET g       == gen[r]
        listens == g \in held["listener"]
    IN  /\ At(r, "bind")
        /\ listens => PortFree
        /\ open' = [open EXCEPT !["listener"] = IF listens THEN @ \cup {g} ELSE @,
                                !["loops"] = @ \cup {g}]
        /\ held' = [held EXCEPT !["loops"] = @ \cup {g}]
        /\ up' = TRUE
        /\ GoTo(r, "idle")
        /\ UNCHANGED <<reloadVars, config, edits, generation, raised, dropped, overlapped>>

(* The port is taken: start() fails.                                         *)
BindFails(r) ==
    /\ At(r, "bind")
    /\ gen[r] \in held["listener"]
    /\ ~PortFree
    /\ GoTo(r, "teardown")
    /\ UNCHANGED <<reloadVars, config, edits, generation, held, open, up, raised, dropped, overlapped>>

(* MUTANT: what a failed start() has built is left as it is.                 *)
TearDownNot(r) ==
    /\ At(r, "teardown")
    /\ GoTo(r, "idle")
    /\ up' = FALSE
    /\ UNCHANGED <<reloadVars, config, edits, generation, held, open, raised, dropped, overlapped>>

(* The stop() after a failed start().                                        *)
TearDown(r) ==
    /\ At(r, "teardown")
    /\ BeginStop(r, "cleanup")
    /\ up' = FALSE
    /\ UNCHANGED <<gen, config, edits, generation, raised, dropped, overlapped>>

LifecycleNext ==
    \E r \in Reloaders :
        \/ \E c \in Configs : Edit(r, c)
        \/ Gathered(r)
        \/ \E raises \in BOOLEAN : ClosePool(r, raises)
        \/ StopListener(r)
        \/ StopListenerRaises(r)
        \/ CloseProbe(r)
        \/ CloseSession(r)
        \/ BeginStart(r)
        \/ Construct(r)
        \/ Register(r)
        \/ \E connects \in BOOLEAN : Connect(r, connects)
        \/ Launch(r)
        \/ BindFails(r)
        \/ TearDown(r)

LifecycleSpec == LifecycleInit /\ [][LifecycleNext]_lifecycleVars

-----------------------------------------------------------------------------
LifecycleTypeOK ==
    /\ config \in Configs
    /\ edits \in 0 .. MaxEdits
    /\ generation \in Nat \ {0}
    /\ held \in [Kinds -> SUBSET Nat]
    /\ open \in [Kinds -> SUBSET Nat]
    /\ place \in [Reloaders -> Places]
    /\ half \in [Reloaders -> {"stop", "cleanup"}]
    /\ cancelled \in [Reloaders -> SUBSET Nat]
    /\ gen \in [Reloaders -> Nat]
    /\ up \in BOOLEAN /\ raised \in BOOLEAN /\ dropped \in BOOLEAN /\ overlapped \in BOOLEAN

AllIdle == \A r \in Reloaders : place[r] = "idle"

(* What is open and in no attribute: nothing can close it.                   *)
Orphans(k) == open[k] \ held[k]

(* PROPERTY: as long as no reload overtakes another, there is never more     *)
(* than one generation of loops and scans, nor of state handlers, whatever   *)
(* the configuration, wherever start() failed and whatever stop() raised:    *)
(* no target is scanned and no state event handled by two runtimes at once.  *)
OneRuntime ==
    ~overlapped => /\ \A g, h \in open["loops"] : g = h
                   /\ \A g, h \in open["handlers"] : g = h

(* PROPERTY: reloads one after the other lose nothing they have opened, but  *)
(* for two errors: a stop() that raised loses what stop() closes after the   *)
(* place where it raised, never a loop, a handler or a pool; and a source    *)
(* that was dropped after it had connected loses its pool.                   *)
OrphansOnlyByError ==
    ~overlapped =>
        \A k \in Kinds :
            Orphans(k) # {} => \/ raised  /\ k \in {"listener", "probe", "session"}
                               \/ dropped /\ k = "pool"

(* PROPERTY: when no reload is under way, none has overtaken another and     *)
(* neither of these errors has happened, the plugin is up exactly if its     *)
(* configuration can be started, and down it holds nothing open: no          *)
(* half-built runtime is left behind, and a good configuration repairs a bad *)
(* one.                                                                      *)
ReloadsAreClean ==
    AllIdle /\ ~overlapped /\ ~raised /\ ~dropped =>
        /\ up = Loadable(config)
        /\ up  => \A k \in Kinds : open[k] \subseteq {generation}
        /\ ~up => \A k \in Kinds : open[k] = {}

(* CLAIM of the comment on on_external_config_update: "an exception in       *)
(* stop() must not block the rebuild".  It does: the listener that stop()    *)
(* did not reach keeps the port, start() forgets it, and no later start()    *)
(* can bind.                                                                 *)
RebuildsAfterStopError ==
    AllIdle /\ ~overlapped /\ Loadable(config) => up

=============================================================================
