-------------------------- MODULE LifecycleProofs ---------------------------
(***************************************************************************)
(* Proofs about Lifecycle, for every number of edits and of reloads under  *)
(* way: the types, and what reloads that do not overtake each other keep.  *)
(***************************************************************************)
EXTENDS Lifecycle, TLAPS

(* One reload at a time.                                                     *)
Alone == \A r, s \in Reloaders : place[r] # "idle" /\ place[s] # "idle" => r = s

(* What is open is held: handlers and loops always, pools as long as none    *)
(* was dropped, the rest as long as no stop() has raised.                    *)
HeldInv ==
    /\ open["handlers"] \subseteq held["handlers"]
    /\ open["loops"] \subseteq held["loops"]
    /\ ~dropped => open["pool"] \subseteq held["pool"]
    /\ ~raised => /\ open["listener"] \subseteq held["listener"]
                  /\ open["probe"] \subseteq held["probe"]
                  /\ open["session"] \subseteq held["session"]

(* From its closing by stop() to its opening by start() a kind has nothing   *)
(* open.                                                                     *)
StopInv ==
    \A r \in Reloaders :
        /\ place[r] \in {"gather", "pool", "listener", "probe", "session", "start",
                         "list", "reads"} => open["handlers"] = {}
        /\ place[r] \notin {"idle", "gather"} => open["loops"] = {}
        /\ ~dropped =>
              (place[r] \in {"listener", "probe", "session", "start", "list", "reads",
                             "connect"} => open["pool"] = {})
        /\ ~raised =>
              /\ place[r] \in {"probe", "session", "start", "list", "reads", "connect",
                               "bind"} => open["listener"] = {}
              /\ place[r] \in {"session", "start"} => open["probe"] = {}
              /\ place[r] = "start" => open["session"] = {}

(* The loops that are being cancelled are those that are held, the pool that *)
(* connects too; one generation of loops and handlers is open at most.       *)
Cancels == \A r \in Reloaders :
               /\ place[r] = "gather"  => cancelled[r] = held["loops"]
               /\ place[r] = "connect" => gen[r] \in held["pool"]
Single  == /\ \A g, h \in open["loops"] : g = h
           /\ \A g, h \in open["handlers"] : g = h

RuntimeInv == ~overlapped => Alone /\ HeldInv /\ StopInv /\ Cancels /\ Single

-----------------------------------------------------------------------------
(* Type correctness.                                                         *)
LEMMA LifecycleInitTyped == LifecycleInit => LifecycleTypeOK
<1>. SUFFICES ASSUME LifecycleInit PROVE LifecycleTypeOK
  OBVIOUS
<1>1. config \in Configs
  BY DEF LifecycleInit, Configs, Faults
<1>2. edits \in 0 .. MaxEdits
  BY LifecycleAssumption DEF LifecycleInit
<1>3. held \in [Kinds -> SUBSET Nat] /\ open \in [Kinds -> SUBSET Nat]
  BY DEF LifecycleInit
<1>4. cancelled \in [Reloaders -> SUBSET Nat] /\ gen \in [Reloaders -> Nat]
  BY DEF LifecycleInit
<1>5. place \in [Reloaders -> Places] /\ half \in [Reloaders -> {"stop", "cleanup"}]
  BY DEF LifecycleInit, Places
<1>6. generation \in Nat \ {0}
  BY DEF LifecycleInit
<1>7. /\ up \in BOOLEAN /\ raised \in BOOLEAN
      /\ dropped \in BOOLEAN /\ overlapped \in BOOLEAN
  BY Zenon DEF LifecycleInit
<1>. QED
  BY <1>1, <1>2, <1>3, <1>4, <1>5, <1>6, <1>7 DEF LifecycleTypeOK

LEMMA LifecycleStepTyped ==
    ASSUME LifecycleTypeOK, [LifecycleNext]_lifecycleVars PROVE LifecycleTypeOK'
<1>. USE DEF LifecycleTypeOK
<1>1. ASSUME NEW r \in Reloaders, NEW c \in Configs, Edit(r, c) PROVE LifecycleTypeOK'
  BY <1>1, LifecycleAssumption DEF Edit, At, GoTo, BeginStop, Close, Kinds, Places
<1>2. ASSUME NEW r \in Reloaders, Gathered(r) PROVE LifecycleTypeOK'
  BY <1>2 DEF reloadVars, Gathered, At, GoTo, Close, Kinds, Places
<1>3. ASSUME NEW r \in Reloaders, NEW raises \in BOOLEAN, ClosePool(r, raises)
      PROVE  LifecycleTypeOK'
  BY <1>3 DEF reloadVars, ClosePool, At, GoTo, Close, AfterStop, Kinds, Places
<1>4. ASSUME NEW r \in Reloaders, StopListener(r) PROVE LifecycleTypeOK'
  BY <1>4 DEF reloadVars, StopListener, At, GoTo, Close, Kinds, Places
<1>5. ASSUME NEW r \in Reloaders, StopListenerRaises(r) PROVE LifecycleTypeOK'
  BY <1>5 DEF reloadVars, StopListenerRaises, At, GoTo, Close, AfterStop, Kinds, Places
<1>6. ASSUME NEW r \in Reloaders, CloseProbe(r) PROVE LifecycleTypeOK'
  BY <1>6 DEF reloadVars, CloseProbe, At, GoTo, Close, Kinds, Places
<1>7. ASSUME NEW r \in Reloaders, CloseSession(r) PROVE LifecycleTypeOK'
  BY <1>7 DEF reloadVars, CloseSession, At, GoTo, Close, AfterStop, Kinds, Places
<1>8. ASSUME NEW r \in Reloaders, BeginStart(r) PROVE LifecycleTypeOK'
  BY <1>8 DEF reloadVars, BeginStart, At, GoTo, BuiltFirst, Keep, Kinds, Places
<1>9. ASSUME NEW r \in Reloaders, Construct(r) PROVE LifecycleTypeOK'
  BY <1>9 DEF reloadVars, Construct, At, GoTo, Places
<1>10. ASSUME NEW r \in Reloaders, Register(r) PROVE LifecycleTypeOK'
  BY <1>10 DEF reloadVars, Register, At, GoTo, Kinds, Places
<1>11. ASSUME NEW r \in Reloaders, NEW connects \in BOOLEAN, Connect(r, connects)
       PROVE  LifecycleTypeOK'
  BY <1>11 DEF reloadVars, Connect, At, GoTo, Kinds, Places
<1>12. ASSUME NEW r \in Reloaders, Launch(r) PROVE LifecycleTypeOK'
  BY <1>12 DEF reloadVars, Launch, At, GoTo, Kinds, Places
<1>13. ASSUME NEW r \in Reloaders, BindFails(r) PROVE LifecycleTypeOK'
  BY <1>13 DEF reloadVars, BindFails, At, GoTo, Places
<1>14. ASSUME NEW r \in Reloaders, TearDown(r) PROVE LifecycleTypeOK'
  BY <1>14 DEF TearDown, At, GoTo, BeginStop, Close, Kinds, Places
<1>15. CASE UNCHANGED lifecycleVars
  BY <1>15 DEF lifecycleVars, reloadVars
<1>. QED
  BY <1>1, <1>2, <1>3, <1>4, <1>5, <1>6, <1>7, <1>8, <1>9, <1>10, <1>11, <1>12,
     <1>13, <1>14, <1>15 DEF LifecycleNext

(* THEOREM: the state of the runtime stays in its types.                     *)
THEOREM LifecycleTyped == LifecycleSpec => []LifecycleTypeOK
<1>. QED
  BY LifecycleInitTyped, LifecycleStepTyped, PTL DEF LifecycleSpec

-----------------------------------------------------------------------------
(* Reloads one after the other.                                              *)
LEMMA RuntimeInit == LifecycleInit => RuntimeInv
BY DEF LifecycleInit, RuntimeInv, Alone, HeldInv, StopInv, Cancels, Single, Kinds

LEMMA RuntimeStep ==
    ASSUME LifecycleTypeOK, RuntimeInv, [LifecycleNext]_lifecycleVars PROVE RuntimeInv'
<1>. SUFFICES ASSUME ~overlapped' PROVE (Alone /\ HeldInv /\ StopInv /\ Cancels /\ Single)'
  BY DEF RuntimeInv
<1>. USE DEF LifecycleTypeOK, Alone, HeldInv, StopInv, Cancels, Single
<1>1. ASSUME NEW r \in Reloaders, NEW c \in Configs, Edit(r, c)
      PROVE  (Alone /\ HeldInv /\ StopInv /\ Cancels /\ Single)'
  <2>1. ~overlapped /\ \A s \in Reloaders : place[s] = "idle"
    BY <1>1 DEF Edit, At
  <2>2. Alone /\ HeldInv /\ StopInv /\ Cancels /\ Single
    BY <2>1 DEF RuntimeInv
  <2>3. /\ place' = [place EXCEPT ![r] = "gather"]
        /\ cancelled' = [cancelled EXCEPT ![r] = held["loops"]]
        /\ UNCHANGED <<gen, raised, dropped>>
    BY <1>1 DEF Edit, BeginStop, GoTo
  <2>4. open'["handlers"] = {} /\ held'["loops"] = held["loops"]
    BY <1>1, <2>2 DEF Edit, BeginStop, Close, Kinds
  <2>5. \A k \in Kinds \ {"handlers"} : open'[k] = open[k] /\ held'[k] = held[k]
    BY <1>1 DEF Edit, BeginStop, Close
  <2>6. Alone' /\ StopInv' /\ Cancels'
    BY <2>1, <2>3, <2>4
  <2>7. HeldInv' /\ Single'
    BY <2>2, <2>3, <2>4, <2>5 DEF Kinds
  <2>. QED
    BY <2>6, <2>7
<1>2. ASSUME NEW r \in Reloaders, Gathered(r)
      PROVE  (Alone /\ HeldInv /\ StopInv /\ Cancels /\ Single)'
  BY <1>2 DEF RuntimeInv, reloadVars, Gathered, At, GoTo, Close, Kinds, Places
<1>3. ASSUME NEW r \in Reloaders, NEW raises \in BOOLEAN, ClosePool(r, raises)
      PROVE  (Alone /\ HeldInv /\ StopInv /\ Cancels /\ Single)'
  BY <1>3 DEF RuntimeInv, reloadVars, ClosePool, At, GoTo, Close, AfterStop, Kinds, Places
<1>4. ASSUME NEW r \in Reloaders, StopListener(r)
      PROVE  (Alone /\ HeldInv /\ StopInv /\ Cancels /\ Single)'
  BY <1>4 DEF RuntimeInv, reloadVars, StopListener, At, GoTo, Close, Kinds, Places
<1>5. ASSUME NEW r \in Reloaders, StopListenerRaises(r)
      PROVE  (Alone /\ HeldInv /\ StopInv /\ Cancels /\ Single)'
  BY <1>5 DEF RuntimeInv, reloadVars, StopListenerRaises, At, GoTo, Close, AfterStop, Kinds, Places
<1>6. ASSUME NEW r \in Reloaders, CloseProbe(r)
      PROVE  (Alone /\ HeldInv /\ StopInv /\ Cancels /\ Single)'
  BY <1>6 DEF RuntimeInv, reloadVars, CloseProbe, At, GoTo, Close, Kinds, Places
<1>7. ASSUME NEW r \in Reloaders, CloseSession(r)
      PROVE  (Alone /\ HeldInv /\ StopInv /\ Cancels /\ Single)'
  BY <1>7 DEF RuntimeInv, reloadVars, CloseSession, At, GoTo, Close, AfterStop, Kinds, Places
<1>8. ASSUME NEW r \in Reloaders, BeginStart(r)
      PROVE  (Alone /\ HeldInv /\ StopInv /\ Cancels /\ Single)'
  BY <1>8 DEF RuntimeInv, reloadVars, BeginStart, At, GoTo, BuiltFirst, Keep, Kinds, Places
<1>9. ASSUME NEW r \in Reloaders, Construct(r)
      PROVE  (Alone /\ HeldInv /\ StopInv /\ Cancels /\ Single)'
  BY <1>9 DEF RuntimeInv, reloadVars, Construct, At, GoTo, Kinds, Places
<1>10. ASSUME NEW r \in Reloaders, Register(r)
      PROVE  (Alone /\ HeldInv /\ StopInv /\ Cancels /\ Single)'
  BY <1>10 DEF RuntimeInv, reloadVars, Register, At, GoTo, Kinds, Places
<1>11. ASSUME NEW r \in Reloaders, NEW connects \in BOOLEAN, Connect(r, connects)
      PROVE  (Alone /\ HeldInv /\ StopInv /\ Cancels /\ Single)'
  <2>1. /\ \E p \in {"bind", "teardown"} : place' = [place EXCEPT ![r] = p]
        /\ place[r] = "connect"
        /\ UNCHANGED <<cancelled, gen, raised, overlapped>> /\ (~dropped' => ~dropped)
    BY <1>11 DEF Connect, At, GoTo, reloadVars
  <2>2. /\ ~dropped' => open'["pool"] \subseteq held'["pool"]
        /\ open["listener"] = {} => open'["listener"] \subseteq held'["listener"]
    <3>1. (~dropped' => open["pool"] = {}) /\ gen[r] \in held["pool"]
      BY <1>11, <2>1 DEF RuntimeInv
    <3>2. CASE connects
      BY <1>11, <3>1, <3>2 DEF Connect, Kinds
    <3>3. CASE ~connects
      BY <1>11, <3>1, <3>3 DEF Connect, Kinds
    <3>. QED
      BY <3>2, <3>3
  <2>3. \A k \in Kinds \ {"pool"} : open'[k] = open[k]
    BY <1>11 DEF Connect
  <2>4. \A k \in Kinds \ {"pool", "listener"} : held'[k] = held[k]
    BY <1>11 DEF Connect
  <2>. QED
    BY <2>1, <2>2, <2>3, <2>4 DEF RuntimeInv, Kinds, Places
<1>12. ASSUME NEW r \in Reloaders, Launch(r)
      PROVE  (Alone /\ HeldInv /\ StopInv /\ Cancels /\ Single)'
  BY <1>12 DEF RuntimeInv, reloadVars, Launch, At, GoTo, Kinds, Places
<1>13. ASSUME NEW r \in Reloaders, BindFails(r)
      PROVE  (Alone /\ HeldInv /\ StopInv /\ Cancels /\ Single)'
  BY <1>13 DEF RuntimeInv, reloadVars, BindFails, At, GoTo, Kinds, Places
<1>14. ASSUME NEW r \in Reloaders, TearDown(r)
      PROVE  (Alone /\ HeldInv /\ StopInv /\ Cancels /\ Single)'
  BY <1>14 DEF RuntimeInv, reloadVars, TearDown, At, GoTo, BeginStop, Close, Kinds, Places
<1>15. CASE UNCHANGED lifecycleVars
  BY <1>15 DEF RuntimeInv, lifecycleVars, reloadVars
<1>. QED
  BY <1>1, <1>2, <1>3, <1>4, <1>5, <1>6, <1>7, <1>8, <1>9, <1>10, <1>11, <1>12,
     <1>13, <1>14, <1>15 DEF LifecycleNext

(* THEOREM: while no reload overtakes another, what the attributes hold and  *)
(* what is open fit the place the reload is at, and a call that is idle has  *)
(* nothing half built: the invariant the next two rest on.                   *)
THEOREM RuntimeKept == LifecycleSpec => []RuntimeInv
<1>. QED
  BY RuntimeInit, RuntimeStep, LifecycleTyped, PTL DEF LifecycleSpec

(* THEOREM: reloads that do not overtake each other never have two           *)
(* generations of loops or handlers at once, whatever raises.                *)
THEOREM RuntimeIsOne == LifecycleSpec => []OneRuntime
<1>1. RuntimeInv => OneRuntime
  BY DEF RuntimeInv, Single, OneRuntime
<1>. QED
  BY <1>1, RuntimeKept, PTL

(* THEOREM: such reloads lose what they have opened only by a stop() that    *)
(* raises or a source that is dropped, and never a loop or a handler.        *)
THEOREM OrphansNeedAnError == LifecycleSpec => []OrphansOnlyByError
<1>1. RuntimeInv => OrphansOnlyByError
  <2>. SUFFICES ASSUME RuntimeInv, ~overlapped, NEW k \in Kinds, Orphans(k) # {}
                PROVE  \/ raised  /\ k \in {"listener", "probe", "session"}
                       \/ dropped /\ k = "pool"
    BY DEF OrphansOnlyByError
  <2>. QED
    BY DEF RuntimeInv, HeldInv, Orphans, Kinds
<1>. QED
  BY <1>1, RuntimeKept, PTL

-----------------------------------------------------------------------------
(* Reloads one after the other of which no stop() raises and no start()      *)
(* drops a source that has connected.                                        *)

(* A start() that has come to a place has met none of the faults it checks   *)
(* before.                                                                   *)
Passed(p, c) == /\ p \in {"list", "reads", "connect", "bind"} =>
                       c.fault \notin {"networks", "scanner"}
                /\ p \in {"reads", "connect", "bind"} => c.fault # "policy"
                /\ p \in {"connect", "bind"} => c.fault # "textfiles"
                /\ p = "bind" => /\ c.fault # "listInterval"
                                 /\ c.fault = "portNumber" => ~c.metrics

(* What it builds is one generation, the newest.                             *)
BuildsOne ==
    \A r \in Reloaders :
        place[r] \in {"list", "reads", "connect", "bind"} =>
            gen[r] = generation /\ \A k \in Kinds : open[k] \subseteq {generation}

(* A start() fails, and is followed by a stop(), for a configuration that    *)
(* cannot be started only.                                                   *)
FailsForCause ==
    \A r \in Reloaders : place[r] # "idle" =>
        /\ Passed(place[r], config)
        /\ place[r] = "bind" => (gen[r] \in held["listener"]) = config.metrics
        /\ half[r] = "cleanup" \/ place[r] = "teardown" => ~Loadable(config)
        /\ half[r] = "cleanup" =>
              ~up /\ place[r] \in {"gather", "pool", "listener", "probe", "session"}

Settled ==
    AllIdle => /\ up = Loadable(config)
               /\ up  => \A k \in Kinds : open[k] \subseteq {generation}
               /\ ~up => \A k \in Kinds : open[k] = {}

CleanInv == ~overlapped /\ ~raised /\ ~dropped => BuildsOne /\ FailsForCause /\ Settled

LEMMA CleanInit == LifecycleInit => CleanInv
<1>. SUFFICES ASSUME LifecycleInit PROVE BuildsOne /\ FailsForCause /\ Settled
  BY DEF CleanInv
<1>1. \A r \in Reloaders : place[r] = "idle"
  BY DEF LifecycleInit
<1>2. BuildsOne /\ FailsForCause
  BY <1>1 DEF BuildsOne, FailsForCause
<1>3. Loadable(config) /\ \A k \in Kinds : open[k] = {1}
  BY DEF LifecycleInit, Loadable
<1>4. up /\ generation = 1
  BY DEF LifecycleInit
<1>5. up = Loadable(config)
  BY <1>3, <1>4, Zenon DEF LifecycleInit
<1>. QED
  BY <1>2, <1>3, <1>4, <1>5 DEF Settled

LEMMA CleanStep ==
    ASSUME LifecycleTypeOK, RuntimeInv, CleanInv, [LifecycleNext]_lifecycleVars
    PROVE  CleanInv'
<1>. SUFFICES ASSUME ~overlapped', ~raised', ~dropped' PROVE (BuildsOne /\ FailsForCause /\ Settled)'
  BY DEF CleanInv
<1>. USE DEF LifecycleTypeOK, BuildsOne, FailsForCause, Settled, AllIdle, Passed
<1>l. /\ config.fault \in {"networks", "scanner", "policy", "textfiles", "listInterval"}
            => ~Loadable(config)
      /\ config.fault \in {"portNumber", "port"} /\ config.metrics => ~Loadable(config)
  BY DEF Loadable
<1>1. ASSUME NEW r \in Reloaders, NEW c \in Configs, Edit(r, c)
      PROVE  (BuildsOne /\ FailsForCause /\ Settled)'
  BY <1>1 DEF RuntimeInv, Alone, HeldInv, StopInv, CleanInv, Loadable, Configs, reloadVars,
         Edit, At, GoTo, BeginStop, Close, Kinds, Places
<1>2. ASSUME NEW r \in Reloaders, Gathered(r)
      PROVE  (BuildsOne /\ FailsForCause /\ Settled)'
  BY <1>2 DEF RuntimeInv, Alone, HeldInv, StopInv, CleanInv, Loadable, Configs, reloadVars,
         Gathered, At, GoTo, Close, Kinds, Places
<1>3. ASSUME NEW r \in Reloaders, NEW raises \in BOOLEAN, ClosePool(r, raises)
      PROVE  (BuildsOne /\ FailsForCause /\ Settled)'
  BY <1>3 DEF RuntimeInv, Alone, HeldInv, StopInv, CleanInv, Loadable, Configs, reloadVars,
         ClosePool, At, GoTo, Close, AfterStop, Kinds, Places
<1>4. ASSUME NEW r \in Reloaders, StopListener(r)
      PROVE  (BuildsOne /\ FailsForCause /\ Settled)'
  BY <1>4 DEF RuntimeInv, Alone, HeldInv, StopInv, CleanInv, Loadable, Configs, reloadVars,
         StopListener, At, GoTo, Close, Kinds, Places
<1>5. ASSUME NEW r \in Reloaders, StopListenerRaises(r)
      PROVE  (BuildsOne /\ FailsForCause /\ Settled)'
  BY <1>5 DEF RuntimeInv, Alone, HeldInv, StopInv, CleanInv, Loadable, Configs, reloadVars,
         StopListenerRaises, At, GoTo, Close, AfterStop, Kinds, Places
<1>6. ASSUME NEW r \in Reloaders, CloseProbe(r)
      PROVE  (BuildsOne /\ FailsForCause /\ Settled)'
  BY <1>6 DEF RuntimeInv, Alone, HeldInv, StopInv, CleanInv, Loadable, Configs, reloadVars,
         CloseProbe, At, GoTo, Close, Kinds, Places
<1>7. ASSUME NEW r \in Reloaders, CloseSession(r)
      PROVE  (BuildsOne /\ FailsForCause /\ Settled)'
  <2>1. CASE half[r] = "stop"
    BY <1>7, <2>1 DEF RuntimeInv, Alone, HeldInv, StopInv, CleanInv, reloadVars,
       CloseSession, At, GoTo, Close, AfterStop, Kinds, Places
  <2>2. CASE half[r] = "cleanup"
    <3>1. up = FALSE /\ Loadable(config) = FALSE
      BY <1>7, <2>2 DEF CleanInv, CloseSession, At, Loadable
    <3>2. up' = FALSE /\ Loadable(config)' = FALSE
      BY <1>7, <3>1 DEF CloseSession, Loadable
    <3>3. \A k \in Kinds : open'[k] = {}
      BY <1>7 DEF RuntimeInv, Alone, HeldInv, StopInv, CloseSession, At, Close, reloadVars, Kinds
    <3>4. (BuildsOne /\ FailsForCause)'
      BY <1>7, <2>2 DEF RuntimeInv, Alone, CleanInv, reloadVars, CloseSession, At, GoTo,
         Close, AfterStop, Kinds, Places
    <3>. QED
      BY <3>2, <3>3, <3>4
  <2>. QED
    BY <2>1, <2>2
<1>8. ASSUME NEW r \in Reloaders, BeginStart(r)
      PROVE  (BuildsOne /\ FailsForCause /\ Settled)'
  BY <1>8, <1>l DEF RuntimeInv, Alone, HeldInv, StopInv, CleanInv, Configs, reloadVars,
         BeginStart, At, GoTo, BuiltFirst, Keep, Kinds, Places
<1>9. ASSUME NEW r \in Reloaders, Construct(r)
      PROVE  (BuildsOne /\ FailsForCause /\ Settled)'
  BY <1>9, <1>l DEF RuntimeInv, Alone, HeldInv, StopInv, CleanInv, Configs, reloadVars,
         Construct, At, GoTo, Kinds, Places
<1>10. ASSUME NEW r \in Reloaders, Register(r)
      PROVE  (BuildsOne /\ FailsForCause /\ Settled)'
  BY <1>10, <1>l DEF RuntimeInv, Alone, HeldInv, StopInv, CleanInv, Configs, reloadVars,
         Register, At, GoTo, Kinds, Places
<1>11. ASSUME NEW r \in Reloaders, NEW connects \in BOOLEAN, Connect(r, connects)
      PROVE  (BuildsOne /\ FailsForCause /\ Settled)'
  BY <1>11, <1>l DEF RuntimeInv, Alone, HeldInv, StopInv, CleanInv, Configs, reloadVars,
         Connect, At, GoTo, Kinds, Places
<1>12. ASSUME NEW r \in Reloaders, Launch(r)
      PROVE  (BuildsOne /\ FailsForCause /\ Settled)'
  <2>1. /\ place[r] = "bind" /\ place' = [place EXCEPT ![r] = "idle"]
        /\ UNCHANGED <<config, generation, gen, half, overlapped, raised, dropped>>
        /\ up'
    BY <1>12 DEF Launch, At, GoTo, reloadVars
  <2>2. BuildsOne /\ FailsForCause /\ Alone
    BY <2>1 DEF CleanInv, RuntimeInv
  <2>3. \A s \in Reloaders : place'[s] = "idle"
    BY <2>1, <2>2 DEF Alone
  <2>4. Loadable(config)
    <3>1. \/ config.fault \in {"none", "interval", "port"}
          \/ config.fault = "portNumber" /\ ~config.metrics
      BY <2>1, <2>2 DEF Configs, Faults
    <3>2. CASE config.fault = "port"
      <4>1. gen[r] \notin held["listener"]
        BY <1>12, <3>2 DEF Launch, PortFree
      <4>2. (gen[r] \in held["listener"]) = config.metrics
        BY <2>1, <2>2
      <4>. QED
        BY <3>2, <4>1, <4>2, Zenon DEF Loadable
    <3>. QED
      BY <3>1, <3>2 DEF Loadable
  <2>5. up' = Loadable(config)'
    BY <1>12, <2>1, <2>4, Zenon DEF Launch, Loadable
  <2>6. \A k \in Kinds : open'[k] \subseteq {generation}
    <3>1. \A k \in Kinds : open[k] \subseteq {generation} /\ gen[r] = generation
      BY <2>1, <2>2
    <3>2. \A k \in Kinds : open'[k] \subseteq open[k] \cup {gen[r]}
      BY <1>12 DEF Launch, Kinds
    <3>. QED
      BY <3>1, <3>2
  <2>. QED
    BY <2>1, <2>3, <2>5, <2>6
<1>13. ASSUME NEW r \in Reloaders, BindFails(r)
      PROVE  (BuildsOne /\ FailsForCause /\ Settled)'
  BY <1>13, <1>l DEF RuntimeInv, Alone, HeldInv, StopInv, CleanInv, Configs, reloadVars,
         BindFails, At, GoTo, PortFree, Kinds, Places
<1>14. ASSUME NEW r \in Reloaders, TearDown(r)
      PROVE  (BuildsOne /\ FailsForCause /\ Settled)'
  BY <1>14 DEF RuntimeInv, Alone, HeldInv, StopInv, CleanInv, Loadable, Configs, reloadVars,
         TearDown, At, GoTo, BeginStop, Close, Kinds, Places
<1>15. CASE UNCHANGED lifecycleVars
  BY <1>15 DEF CleanInv, lifecycleVars, reloadVars
<1>. QED
  BY <1>1, <1>2, <1>3, <1>4, <1>5, <1>6, <1>7, <1>8, <1>9, <1>10, <1>11, <1>12,
     <1>13, <1>14, <1>15 DEF LifecycleNext

(* THEOREM: such reloads leave the plugin up exactly if its configuration    *)
(* can be started, with one generation open, and else with nothing open.     *)
THEOREM CleanReloads == LifecycleSpec => []ReloadsAreClean
<1>1. CleanInv => ReloadsAreClean
  BY DEF CleanInv, Settled, ReloadsAreClean
<1>. QED
  BY <1>1, CleanInit, CleanStep, LifecycleTyped, RuntimeKept, PTL DEF LifecycleSpec

=============================================================================
