------------------------------ MODULE Engines ------------------------------
(***************************************************************************)
(* ai/engine_manager.py and vector_db/manager.py with                      *)
(* api/dependencies.py: requests that are sent to the servers of models    *)
(* and of vectors, one after the other until one answers, while servers    *)
(* come and go and the managers are made, changed and shut down by other   *)
(* requests.  A step is the code from one await to the next.  The servers  *)
(* are outside the repository: a server that is up answers.                *)
(***************************************************************************)
EXTENDS Naturals, FiniteSets, Sequences, SequencesExt

CONSTANTS Client,       \* the requests under way at one time
          Engine,       \* names of engines
          FallbackChain,    \* RouterConfig.fallback_chain
          Backend       \* the vector databases, in the order they are connected

ASSUME EnginesAssumption ==
  /\ FallbackChain \in Seq(Engine) /\ IsInjective(FallbackChain) /\ "ollama" \in Engine
  /\ IsInjective(Backend) /\ Backend \in Seq(STRING)

VARIABLES up,           \* the servers that are up
          engines,      \* _engines: what each name is registered with
          initialized, activeEngine,
          manager,      \* the backends of _vector_db_manager; NoManager before
          call,         \* what each client's request is doing
          steady        \* history: the servers a request is for that could have
                        \* answered it at any time since it began

engineVars == <<up, engines, initialized, activeEngine, manager, call, steady>>

Servers == Engine \cup Range(Backend)
Stubs == {"vllm", "llamacpp"} \cap Engine
NoManager == <<"none">>
Idle == [pc |-> "idle", then |-> <<>>]

\* A request that goes from one of left to the next, for what any of them would do.  A
\* search has the manager it was given, and the backends it is to search after this one.
Asking(left, of, what, db, then) ==
  [pc |-> "asking", left |-> left, of |-> of, what |-> what, db |-> db, then |-> then]

EnginesTypeOK ==
  /\ up \subseteq Servers
  /\ DOMAIN engines \subseteq Engine /\ engines \in [DOMAIN engines -> {"real", "stub"}]
  /\ initialized \in BOOLEAN /\ activeEngine \in Engine
  /\ manager = NoManager \/ manager \in Seq(Range(Backend))
  /\ \A c \in Client :
       call[c].pc \in {"idle", "checking", "asking", "answered", "failed", "closing", "connecting"}
  /\ steady \in [Client -> SUBSET Servers]

EnginesInit ==
  /\ up = {} /\ engines = [e \in {} |-> "real"] /\ initialized = FALSE
  /\ activeEngine = "ollama" /\ manager = NoManager
  /\ call = [c \in Client |-> Idle] /\ steady = [c \in Client |-> {}]

Real(es) == {e \in DOMAIN es : es[e] = "real"}

Do(c, what) == call' = [call EXCEPT ![c] = what]
AtRest(c) == call[c].pc \in {"idle", "answered", "failed"} /\ call[c].then = <<>>

ServerChanges(s) ==
  /\ up' = IF s \in up THEN up \ {s} ELSE up \cup {s}
  /\ UNCHANGED <<engines, initialized, activeEngine, manager, call>>

\* initialize(): nothing keeps a second caller out while the first one awaits the
\* health of Ollama, and names registered before are given stubs.
Initialize(c) ==
  /\ AtRest(c) /\ ~initialized /\ Do(c, [pc |-> "checking", then |-> <<>>])
  /\ UNCHANGED <<up, engines, initialized, activeEngine, manager>>

Initialized(c) ==
  /\ call[c].pc = "checking" /\ Do(c, Idle)
  /\ engines' = [e \in DOMAIN engines \cup Stubs \cup ({"ollama"} \cap up) |->
                   IF e \in Stubs THEN "stub" ELSE "real"]
  /\ initialized' = TRUE
  /\ UNCHANGED <<up, activeEngine, manager>>

RegisterEngine(e) ==
  /\ engines' = [f \in DOMAIN engines \cup {e} |-> IF f = e THEN "real" ELSE engines[f]]
  /\ UNCHANGED <<up, initialized, activeEngine, manager, call>>

SwitchEngine(e) ==
  /\ e \in DOMAIN engines /\ activeEngine' = e
  /\ UNCHANGED <<up, engines, initialized, manager, call>>

\* The others of a sequence of different names, in its order.
AllBut(s, e) == IF e \in Range(s) THEN RemoveAt(s, CHOOSE i \in DOMAIN s : s[i] = e) ELSE s

\* Mutant: only the active engine.
ResolveNoFallback(named) ==
  IF named # {} THEN LET e == CHOOSE e \in named : TRUE IN
                     IF e \in DOMAIN engines THEN <<e>> ELSE <<e>> \o FallbackChain
  ELSE <<activeEngine>>

\* _resolve_chain(): one that is named and registered is on its own.
ResolveChain(named) ==
  IF named # {} THEN LET e == CHOOSE e \in named : TRUE IN
                     IF e \in DOMAIN engines THEN <<e>> ELSE <<e>> \o FallbackChain
  ELSE <<activeEngine>> \o AllBut(FallbackChain, activeEngine)

\* route_infer(), and route_embed(), which is alike.  A request is for the engine it
\* names, or, if that is unknown or none is named, for whichever of the chain answers.
RouteInfer(c, named) ==
  /\ AtRest(c)
  /\ Do(c, Asking(ResolveChain(named),
                  IF named # {} /\ named \subseteq DOMAIN engines THEN named
                  ELSE Range(FallbackChain),
                  "inference", NoManager, <<>>))
  /\ UNCHANGED <<up, engines, initialized, activeEngine, manager>>

\* infer() and search(): a server that is up answers, unless its engine's client is
\* being closed.  One that is missing, and a stub, whose methods cannot be awaited, do not.
Closing == \E d \in Client : call[d].pc = "closing"
MayAnswer(what, s) == s \in up /\ (what = "inference" => s \in Real(engines))
MayFail(what, s) == ~MayAnswer(what, s) \/ (what = "inference" /\ Closing)

\* The next one in turn.  An error and an empty answer are the same: the one after it is
\* asked.
Ask(c) ==
  LET now == call[c] IN
  /\ now.pc = "asking"
  /\ \/ now.left = <<>> /\ Do(c, [now EXCEPT !.pc = "failed"])
     \/ now.left # <<>> /\ MayAnswer(now.what, Head(now.left)) /\ Do(c, [now EXCEPT !.pc = "answered"])
     \/ now.left # <<>> /\ MayFail(now.what, Head(now.left)) /\ Do(c, [now EXCEPT !.left = Tail(@)])
  /\ UNCHANGED <<up, engines, initialized, activeEngine, manager>>

\* shutdown(): the clients of the engines are closed one by one.
Shutdown(c) ==
  /\ AtRest(c) /\ Do(c, [pc |-> "closing", size |-> Cardinality(DOMAIN engines), then |-> <<>>])
  /\ UNCHANGED <<up, engines, initialized, activeEngine, manager>>

\* An engine registered meanwhile ends the walk with a RuntimeError, and nothing is
\* cleared.
ShutDown(c) ==
  /\ call[c].pc = "closing" /\ Do(c, Idle)
  /\ IF Cardinality(DOMAIN engines) = call[c].size
     THEN engines' = [e \in {} |-> "real"] /\ initialized' = FALSE
     ELSE UNCHANGED <<engines, initialized>>
  /\ UNCHANGED <<up, activeEngine, manager>>

\* get_vector_db(): the first requests each connect all the backends, and the manager
\* of the last one to finish stays.
GetVectorDb(c) ==
  /\ AtRest(c) /\ manager = NoManager
  /\ Do(c, [pc |-> "connecting", left |-> Backend, got |-> <<>>, then |-> <<>>])
  /\ UNCHANGED <<up, engines, initialized, activeEngine, manager>>

ConnectBackend(c) ==
  /\ call[c].pc = "connecting"
  /\ IF call[c].left = <<>> THEN manager' = call[c].got /\ Do(c, Idle)
     ELSE /\ Do(c, [call[c] EXCEPT !.left = Tail(@),
                      !.got = IF Head(call[c].left) \in up THEN Append(@, Head(call[c].left)) ELSE @])
          /\ UNCHANGED manager
  /\ UNCHANGED <<up, engines, initialized, activeEngine>>

\* route_search(): an unknown backend raises at once; all the others stand in for one
\* that fails.
SearchFor(target, db, then) ==
  IF target \in Range(db)
  THEN Asking(<<target>> \o AllBut(db, target), Range(db), "search", db, then)
  ELSE [Asking(<<>>, {}, "search", db, then) EXCEPT !.pc = "failed"]

RouteSearch(c, target) ==
  /\ AtRest(c) /\ manager # NoManager
  /\ Do(c, SearchFor(target, manager, <<>>))
  /\ UNCHANGED <<up, engines, initialized, activeEngine, manager>>

\* hybrid_search(): the backends that were asked for, or all, one after the other; that
\* one fails does not keep the next from being searched.
HybridSearch(c, targets) ==
  /\ AtRest(c) /\ manager # NoManager /\ targets # <<>>
  /\ Do(c, SearchFor(Head(targets), manager, Tail(targets)))
  /\ UNCHANGED <<up, engines, initialized, activeEngine, manager>>

SearchOn(c) ==
  LET then == call[c].then IN
  /\ call[c].pc \in {"answered", "failed"} /\ then # <<>>
  /\ Do(c, SearchFor(Head(then), call[c].db, Tail(then)))
  /\ UNCHANGED <<up, engines, initialized, activeEngine, manager>>

\* Closing one's clients is none of a server's doing, but it is not there meanwhile.
CanAnswer(what) ==
  up' \cap (IF what # "inference" THEN Servers ELSE IF Closing' THEN {} ELSE Real(engines'))

StillSteady(c) ==
  LET now == call'[c] IN
  IF now.pc = "asking"
  THEN (IF call[c].pc = "asking" THEN steady[c] ELSE now.of) \cap CanAnswer(now.what)
  ELSE IF now.pc = "failed" /\ call[c].pc \in {"asking", "failed"} THEN steady[c] ELSE {}

RouterStep ==
  \/ \E s \in Engine : ServerChanges(s) \/ RegisterEngine(s) \/ SwitchEngine(s)
  \/ \E c \in Client :
       \/ Initialize(c) \/ Initialized(c) \/ Ask(c) \/ Shutdown(c) \/ ShutDown(c)
       \/ \E named \in {{}} \cup {{e} : e \in Engine} : RouteInfer(c, named)

SearchStep ==
  \/ \E s \in Range(Backend) : ServerChanges(s)
  \/ \E c \in Client :
       \/ GetVectorDb(c) \/ ConnectBackend(c) \/ Ask(c) \/ SearchOn(c)
       \/ \E targets \in {manager} \cup {<<b>> : b \in Range(Backend)} : HybridSearch(c, targets)
       \/ \E target \in Range(Backend) : RouteSearch(c, target)

Noted == steady' = [c \in Client |-> StillSteady(c)]

RouterNext == RouterStep /\ Noted
SearchNext == SearchStep /\ Noted

EnginesNext == RouterNext \/ SearchNext

EnginesSpec == EnginesInit /\ [][EnginesNext]_engineVars
-----------------------------------------------------------------------------
(* Properties *)

\* A request fails only if none of the servers it is for could have answered it all
\* along: the one engine it names, the fallback chain, or all the backends of the manager
\* it was given, whatever is registered, switched, connected or shut down meanwhile.
FailsOnlyIfAll == \A c \in Client : call[c].pc = "failed" => steady[c] = {}
=============================================================================
