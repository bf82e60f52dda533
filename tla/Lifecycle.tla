------------------------------- MODULE Lifecycle -------------------------------
(***************************************************************************)
(* The lazily opened database handle (core/lazy-singleton.ts,              *)
(* core/create-event-sourced-db-handle.ts) and the React hooks that open   *)
(* it (react/use-ensure-db.ts).  An opening is one call of `factory`; it   *)
(* names the platform and the database it opens.  Every await is a point   *)
(* where another hook or a close() may run.                                *)
(***************************************************************************)
EXTENDS Naturals, FiniteSets

CONSTANTS
  MaxOpenings, \* how often factory() may run: its calls are numbered
  Hooks,       \* mounted useEnsureDb hooks
  MaxCloses,   \* how often close() may be called, numbered too
  MaxRuns      \* how often effects may run, all hooks together

ASSUME BoundsAssumption == MaxOpenings \in Nat /\ MaxCloses \in Nat /\ MaxRuns \in Nat

VARIABLES
  opening,        \* how far each call of factory() is
  platform,       \* the platform (SQLite, OPFS) of each opening
  database,       \* the database of each opening
  initPromise,    \* the opening whose promise ensure() shares
  instance,       \* what ensure() and the proxy return
  activeDb,       \* the database close() disposes
  closePlatform,  \* the platform close() closes
  closer,         \* each call of close(): new, awaiting a platform, over or failed
  hook,           \* each hook: its running effect and what it shows
  runs,           \* how often an effect ran: a bound
  raced           \* history: a close() overlapped an opening, an ensure() or a close()

vars == <<opening, platform, database, initPromise, instance, activeDb,
          closePlatform, closer, hook, runs, raced>>
handle == <<initPromise, instance, activeDb, closePlatform>>

Openings == 1 .. MaxOpenings
Closers == 1 .. MaxCloses
None == 0    \* null
Maybe == Openings \cup {None}
Stages == {"new", "setup", "create", "resolved", "rejected", "done", "failed"}
Effects == {"none", "waiting", "onReady", "over"}

(* The calls of factory() whose promise has not been handled yet. *)
InFlight == {o \in Openings :
               opening[o] \in {"setup", "create", "resolved", "rejected"}}
Closing == {c \in Closers : closer[c].at = "awaits"}

Over == [at |-> "over", on |-> None]

Init ==
  /\ opening = [o \in Openings |-> "new"]
  /\ platform = [o \in Openings |-> "none"]
  /\ database = [o \in Openings |-> "none"]
  /\ initPromise = None
  /\ instance = None
  /\ activeDb = None
  /\ closePlatform = None
  /\ closer = [c \in Closers |-> [at |-> "new", on |-> None]]
  /\ hook = [h \in Hooks |-> [effect |-> "none", on |-> None, ready |-> FALSE,
                              error |-> FALSE]]
  /\ runs = 0
  /\ raced = FALSE

-----------------------------------------------------------------------------
(* Mutant: the promise of an opening under way is not shared. *)
SharedOnceOpen == instance

(* ensure(): the instance, the opening under way, or a new call of factory. *)
Shared == IF instance # None THEN instance ELSE initPromise

StartFactory(o) ==
  /\ opening[o] = "new" /\ \A p \in 1 .. o - 1 : opening[p] # "new"
  /\ opening' = [opening EXCEPT ![o] = "setup"]
  /\ initPromise' = o

Ensure(o) ==
  /\ IF Shared # None
     THEN o = Shared /\ UNCHANGED <<opening, initPromise>>
     ELSE StartFactory(o)
  /\ raced' = (raced \/ Closing # {})

(* factory(): setup() opens the platform, createEventSourcedDB the database; *)
(* either may throw, and a platform that is open stays open.                 *)
SetUp(o) ==
  /\ opening[o] = "setup"
  /\ opening' = [opening EXCEPT ![o] = "create"]
  /\ platform' = [platform EXCEPT ![o] = "open"]
  /\ closePlatform' = o
  /\ UNCHANGED <<database, initPromise, instance, activeDb, closer, hook, runs, raced>>

Created(o) ==
  /\ opening[o] = "create"
  /\ opening' = [opening EXCEPT ![o] = "resolved"]
  /\ database' = [database EXCEPT ![o] = "open"]
  /\ activeDb' = o
  /\ UNCHANGED <<platform, initPromise, instance, closePlatform, closer, hook, runs, raced>>

FactoryThrows(o) ==
  /\ opening[o] \in {"setup", "create"}
  /\ opening' = [opening EXCEPT ![o] = "rejected"]
  /\ UNCHANGED <<platform, database, handle, closer, hook, runs, raced>>

(* The then and the catch of the singleton run whatever happened since: a  *)
(* reset does not stop a late result from becoming the instance.           *)
Resolved(o) ==
  /\ opening[o] = "resolved"
  /\ opening' = [opening EXCEPT ![o] = "done"]
  /\ instance' = o
  /\ UNCHANGED <<platform, database, initPromise, activeDb, closePlatform,
                 closer, hook, runs, raced>>

(* Mutant: a failed opening stays the shared promise. *)
RejectedForGood(o) ==
  /\ opening[o] = "rejected"
  /\ opening' = [opening EXCEPT ![o] = "failed"]
  /\ UNCHANGED <<platform, database, handle, closer, hook, runs, raced>>

Rejected(o) ==
  /\ opening[o] = "rejected"
  /\ opening' = [opening EXCEPT ![o] = "failed"]
  /\ initPromise' = None
  /\ UNCHANGED <<platform, database, instance, activeDb, closePlatform,
                 closer, hook, runs, raced>>

-----------------------------------------------------------------------------
(* close(): dispose, close the platform, then reset the singleton. *)
Disposed == IF activeDb = None THEN database
            ELSE [database EXCEPT ![activeDb] = "disposed"]

Overlaps == InFlight # {} \/ Closing # {}

Close(c) ==
  /\ closer[c].at = "new" /\ \A d \in 1 .. c - 1 : closer[d].at # "new"
  /\ database' = Disposed
  /\ activeDb' = None
  /\ raced' = (raced \/ Overlaps)
  /\ IF closePlatform # None
     THEN /\ closer' = [closer EXCEPT ![c] = [at |-> "awaits", on |-> closePlatform]]
          /\ UNCHANGED <<instance, initPromise>>
     ELSE /\ closer' = [closer EXCEPT ![c] = Over]
          /\ instance' = None
          /\ initPromise' = None
  /\ UNCHANGED <<opening, platform, closePlatform, hook, runs>>

(* Back from closePlatform(): whatever opened meanwhile is forgotten too. *)
PlatformClosed(c) ==
  /\ c \in Closing
  /\ platform' = [platform EXCEPT ![closer[c].on] = "closed"]
  /\ closePlatform' = None
  /\ instance' = None
  /\ initPromise' = None
  /\ closer' = [closer EXCEPT ![c] = Over]
  /\ UNCHANGED <<opening, database, activeDb, hook, runs, raced>>

(* closePlatform() throws: nothing is reset, so ensure() still returns the *)
(* disposed database; another close() tries the platform again.            *)
PlatformCloseThrows(c) ==
  /\ c \in Closing
  /\ closer' = [closer EXCEPT ![c].at = "failed"]
  /\ UNCHANGED <<opening, platform, database, handle, hook, runs, raced>>


-----------------------------------------------------------------------------
(* useEnsureDb: the effect runs when the hook mounts and when its deps     *)
(* change; what an earlier run still awaits is cancelled.                  *)
Started(h, o) == [hook EXCEPT ![h].effect = "waiting", ![h].on = o]

RunEffect(h) ==
  /\ runs < MaxRuns
  /\ runs' = runs + 1
  /\ \E o \in Openings : Ensure(o) /\ hook' = Started(h, o)
  /\ UNCHANGED <<platform, database, instance, activeDb, closePlatform, closer>>

Unmount(h) ==
  /\ hook[h].effect # "none"
  /\ hook' = [hook EXCEPT ![h] = [@ EXCEPT !.effect = "none", !.on = None,
                                           !.ready = FALSE, !.error = FALSE]]
  /\ UNCHANGED <<opening, platform, database, handle, closer, runs, raced>>

(* ensureDb() resolves and onReady starts. *)
Ensured(h) ==
  /\ hook[h].effect = "waiting"
  /\ opening[hook[h].on] = "done"
  /\ hook' = [hook EXCEPT ![h].effect = "onReady"]
  /\ UNCHANGED <<opening, platform, database, handle, closer, runs, raced>>

ShowReady(h) ==
  /\ hook[h].effect = "onReady"
  /\ hook' = [hook EXCEPT ![h].effect = "over", ![h].on = None,
                        ![h].ready = TRUE, ![h].error = FALSE]
  /\ UNCHANGED <<opening, platform, database, handle, closer, runs, raced>>

(* Mutant: the effect handles what onReady throws, not a failed opening. *)
OnReadyThrew(h) == hook[h].effect = "onReady"

(* The effect's catch: the opening failed, or onReady threw. *)
Threw(h) == \/ hook[h].effect = "waiting" /\ opening[hook[h].on] = "failed"
            \/ hook[h].effect = "onReady"

ShowError(h) ==
  /\ Threw(h)
  /\ hook' = [hook EXCEPT ![h].effect = "over", ![h].on = None,
                        ![h].ready = FALSE, ![h].error = TRUE]
  /\ UNCHANGED <<opening, platform, database, handle, closer, runs, raced>>

-----------------------------------------------------------------------------
Factory(o) == SetUp(o) \/ Created(o) \/ FactoryThrows(o) \/ Resolved(o) \/ Rejected(o)
EndClose(c) == PlatformClosed(c) \/ PlatformCloseThrows(c)
EndEffect(h) == Ensured(h) \/ ShowReady(h) \/ ShowError(h)

Next ==
  \/ \E o \in Openings : Factory(o)
  \/ \E c \in Closers : Close(c) \/ EndClose(c)
  \/ \E h \in Hooks : RunEffect(h) \/ Unmount(h) \/ EndEffect(h)

Spec == Init /\ [][Next]_vars

(* A promise that is awaited settles, and its continuation runs. *)
FairSpec == /\ Spec
            /\ \A o \in Openings : WF_vars(Factory(o))
            /\ \A c \in Closers : WF_vars(EndClose(c))
            /\ \A h \in Hooks : WF_vars(EndEffect(h))

-----------------------------------------------------------------------------
(* Type invariant. *)
TypeOK ==
  /\ opening \in [Openings -> Stages]
  /\ platform \in [Openings -> {"none", "open", "closed"}]
  /\ database \in [Openings -> {"none", "open", "disposed"}]
  /\ initPromise \in Maybe
  /\ instance \in Maybe
  /\ activeDb \in Maybe
  /\ closePlatform \in Maybe
  /\ closer \in [Closers -> [at : {"new", "awaits", "over", "failed"}, on : Maybe]]
  /\ hook \in [Hooks -> [effect : Effects, on : Maybe, ready : BOOLEAN,
                         error : BOOLEAN]]
  /\ runs \in 0 .. MaxRuns
  /\ raced \in BOOLEAN

(* A failed opening is never what a later ensure() waits on. *)
RetriesAfterFailure == initPromise # None => opening[initPromise] # "failed"

(* Hooks share one opening, and nothing is opened beside a live database. *)
OpensOnce ==
  /\ Cardinality(InFlight) <= 1
  /\ instance # None => InFlight = {}

(* What ensure() returns is open; or a close() disposed it and could not   *)
(* close its platform, which is then still open for another close().       *)
CloseFailed(o) == \E c \in Closers : closer[c] = [at |-> "failed", on |-> o]

InstanceIsOpen ==
  instance # None /\ Closing = {} =>
    /\ closePlatform = instance /\ platform[instance] = "open"
    /\ \/ activeDb = instance /\ database[instance] = "open"
       \/ activeDb = None /\ database[instance] = "disposed" /\ CloseFailed(instance)

(* What a hook awaits, or hands to onReady, is what every other hook gets, *)
(* or was disposed by a close() since.                                     *)
HooksShare ==
  \A h \in Hooks : hook[h].effect \in {"waiting", "onReady"} =>
    LET o == hook[h].on
    IN  \/ o = Shared
        \/ opening[o] = "failed" /\ hook[h].effect = "waiting"
        \/ opening[o] = "done" /\ database[o] = "disposed"

(* close() reaches every open platform but one whose opening failed. *)
NothingLeaks ==
  \A o \in Openings : platform[o] = "open" /\ closePlatform # o =>
                        opening[o] = "failed"

(* One database at a time: any number of hooks, mounting, unmounting and   *)
(* failing in any order, open the platform once, share the database that   *)
(* is open, and leave nothing that close() cannot reach, also after a      *)
(* platform that would not close.  All this is claimed until a close()     *)
(* overlaps an opening, an ensure() or another close(): the handle does    *)
(* not guard against those.  A failed opening never blocks a later one.    *)
OneDatabase ==
  /\ RetriesAfterFailure
  /\ ~raced => OpensOnce /\ InstanceIsOpen /\ NothingLeaks /\ HooksShare

(* A mounted hook whose effect runs comes to show ready or an error,       *)
(* whatever openings failed and whatever close() did meanwhile.            *)
HooksSettle ==
  \A h \in Hooks : hook[h].effect \in {"waiting", "onReady"}
                     ~> hook[h].effect \in {"none", "over"}
=============================================================================
