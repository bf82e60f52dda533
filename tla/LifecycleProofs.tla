--------------------------- MODULE LifecycleProofs ---------------------------
(***************************************************************************)
(* One database at a time, for any number of hooks, openings and calls of  *)
(* close(), whatever fails and in whatever order effects run.              *)
(***************************************************************************)
EXTENDS Lifecycle, FiniteSetTheorems, TLAPS

(* The promise ensure() shares is one whose failure was not handled yet.   *)
Promised == initPromise # None => opening[initPromise] \notin {"new", "failed"}

(* Until a close() overlaps something: one opening is under way, and then  *)
(* nothing is open or closing beside it.                                   *)
OneUnderWay == \A o, p \in InFlight : o = p
OneClosing  == \A c, d \in Closing : c = d
NotBeside   == InFlight # {} => /\ Closing = {} /\ instance = None
                                /\ initPromise \in InFlight

(* The platform of an opening is the one close() knows, until it is closed *)
(* or the opening failed.                                                  *)
PlatformKnown ==
  \A o \in Openings :
    /\ opening[o] \in {"new", "setup"} => platform[o] = "none" /\ closePlatform # o
    /\ opening[o] \in {"create", "resolved"} => platform[o] = "open" /\ closePlatform = o
    /\ opening[o] = "resolved" => activeDb = o /\ database[o] = "open"
    /\ opening[o] = "rejected" /\ platform[o] = "open" => closePlatform = o
    /\ opening[o] = "done" /\ platform[o] = "open" => instance = o

(* Where ensure() has an instance, it is the one close() knows, open or    *)
(* disposed by a close() that is under way or could not close the platform.*)
Orphaned == activeDb = None /\ database[instance] = "disposed"
InstanceKnown ==
  /\ instance # None =>
       /\ closePlatform = instance /\ opening[instance] = "done"
       /\ platform[instance] = "open"
       /\ Closing # {} => Orphaned
       /\ Closing = {} => \/ activeDb = instance /\ database[instance] = "open"
                          \/ Orphaned /\ CloseFailed(instance)
  /\ instance = None /\ initPromise # None => initPromise \in InFlight

(* What a hook awaits is under way, has failed, is the instance, or was    *)
(* disposed.                                                               *)
HookKnows ==
  \A h \in Hooks : hook[h].effect \in {"waiting", "onReady"} =>
    LET o == hook[h].on
    IN  /\ o \in Openings
        /\ hook[h].effect = "onReady" => opening[o] = "done"
        /\ opening[o] # "new"
        /\ opening[o] = "done" => o = instance \/ database[o] = "disposed"

CloserKnows == \A c \in Closing : closePlatform # None /\ closer[c].on = closePlatform

Orderly == /\ OneUnderWay /\ OneClosing /\ NotBeside /\ PlatformKnown
           /\ InstanceKnown /\ CloserKnows /\ HookKnows

Inv == TypeOK /\ Promised /\ (~raced => Orderly)

-----------------------------------------------------------------------------
(* A handle that was never used is in order.                               *)
LEMMA InitInv == Init => Inv
<1> SUFFICES ASSUME Init PROVE Inv
  OBVIOUS
<1>1. TypeOK
  <2>1. None \in Maybe /\ 0 \in 0 .. MaxRuns
    BY BoundsAssumption DEF Maybe, None
  <2>2. \A h \in Hooks : hook[h] = [effect |-> "none", on |-> None, ready |-> FALSE,
                                    error |-> FALSE]
    BY DEF Init
  <2>3. hook \in [Hooks -> [effect : Effects, on : Maybe, ready : BOOLEAN, error : BOOLEAN]]
    BY <2>1, <2>2 DEF Init, Effects
  <2>4. QED
    BY <2>1, <2>3 DEF Init, TypeOK, Stages
<1>2. InFlight = {} /\ Closing = {}
  BY DEF Init, InFlight, Closing
<1>3. PlatformKnown
  BY DEF Init, PlatformKnown, Openings, None
<1>4. Promised /\ Orderly
  BY <1>2, <1>3 DEF Init, Promised, Orderly, OneUnderWay, OneClosing, NotBeside,
                    InstanceKnown, CloserKnows, HookKnows,
             Orphaned, CloseFailed
<1>5. QED
  BY <1>1, <1>4 DEF Inv

(* One opening of platform, database and singleton.                        *)
LEMMA FactoryInv ==
  ASSUME Inv, NEW o \in Openings, Factory(o)
  PROVE  Inv'
<1>1. /\ closer' = closer /\ hook' = hook /\ runs' = runs /\ raced' = raced
      /\ Closing' = Closing
  BY DEF Factory, SetUp, Created, FactoryThrows, Resolved, Rejected, handle, Closing
<1>2. o # None /\ o \in Maybe
  BY DEF Openings, None, Maybe
<1>3. TypeOK
  BY DEF Inv
<1>4. CASE SetUp(o)
  <2>1. opening[o] = "setup" /\ opening' = [opening EXCEPT ![o] = "create"]
        /\ platform' = [platform EXCEPT ![o] = "open"] /\ closePlatform' = o
        /\ UNCHANGED <<database, initPromise, instance, activeDb>>
    BY <1>4 DEF SetUp
  <2>2. TypeOK'
    BY <1>1, <1>2, <1>3, <2>1 DEF TypeOK, Stages
  <2>3. InFlight' = InFlight /\ o \in InFlight
    BY <1>3, <2>1 DEF InFlight, TypeOK
  <2>4. Promised'
    BY <1>3, <2>1 DEF Inv, Promised, TypeOK
  <2>5. ASSUME Orderly PROVE Orderly'
    <3>1. \A p \in Openings \ {o} : opening[p] \notin {"setup", "create", "resolved", "rejected"}
      BY <2>3, <2>5 DEF Orderly, OneUnderWay, InFlight
    <3>2. PlatformKnown'
      BY <1>3, <2>1, <2>5, <3>1 DEF Orderly, PlatformKnown, TypeOK
    <3>3. QED
      BY <1>1, <2>1, <2>3, <2>5, <3>2
         DEF Orderly, OneUnderWay, OneClosing, NotBeside, InstanceKnown, CloserKnows, HookKnows,
             Orphaned, CloseFailed
  <2>6. QED
    BY <1>1, <2>2, <2>4, <2>5 DEF Inv
<1>5. CASE Created(o)
  <2>1. opening[o] = "create" /\ opening' = [opening EXCEPT ![o] = "resolved"]
        /\ database' = [database EXCEPT ![o] = "open"] /\ activeDb' = o
        /\ UNCHANGED <<platform, initPromise, instance, closePlatform>>
    BY <1>5 DEF Created
  <2>2. TypeOK'
    BY <1>1, <1>2, <1>3, <2>1 DEF TypeOK, Stages
  <2>3. InFlight' = InFlight /\ o \in InFlight
    BY <1>3, <2>1 DEF InFlight, TypeOK
  <2>4. Promised'
    BY <1>3, <2>1 DEF Inv, Promised, TypeOK
  <2>5. ASSUME Orderly PROVE Orderly'
    <3>1. \A p \in Openings \ {o} : opening[p] \notin {"setup", "create", "resolved", "rejected"}
      BY <2>3, <2>5 DEF Orderly, OneUnderWay, InFlight
    <3>2. PlatformKnown'
      BY <1>3, <2>1, <2>5, <3>1 DEF Orderly, PlatformKnown, TypeOK
    <3>3. QED
      BY <1>1, <2>1, <2>3, <2>5, <3>2
         DEF Orderly, OneUnderWay, OneClosing, NotBeside, InstanceKnown, CloserKnows, HookKnows,
             Orphaned, CloseFailed
  <2>6. QED
    BY <1>1, <2>2, <2>4, <2>5 DEF Inv
<1>6. CASE FactoryThrows(o)
  <2>1. opening[o] \in {"setup", "create"} /\ opening' = [opening EXCEPT ![o] = "rejected"]
        /\ UNCHANGED <<platform, database, initPromise, instance, activeDb, closePlatform>>
    BY <1>6 DEF FactoryThrows, handle
  <2>2. TypeOK'
    BY <1>1, <1>3, <2>1 DEF TypeOK, Stages
  <2>3. InFlight' = InFlight /\ o \in InFlight
    BY <1>3, <2>1 DEF InFlight, TypeOK
  <2>4. Promised'
    BY <1>3, <2>1 DEF Inv, Promised, TypeOK
  <2>5. ASSUME Orderly PROVE Orderly'
    <3>1. PlatformKnown'
      BY <1>3, <2>1, <2>5 DEF Orderly, PlatformKnown, TypeOK
    <3>2. QED
      BY <1>1, <2>1, <2>3, <2>5, <3>1
         DEF Orderly, OneUnderWay, OneClosing, NotBeside, InstanceKnown, CloserKnows, HookKnows,
             Orphaned, CloseFailed
  <2>6. QED
    BY <1>1, <2>2, <2>4, <2>5 DEF Inv
<1>7. CASE Resolved(o)
  <2>1. opening[o] = "resolved" /\ opening' = [opening EXCEPT ![o] = "done"] /\ instance' = o
        /\ UNCHANGED <<platform, database, initPromise, activeDb, closePlatform>>
    BY <1>7 DEF Resolved
  <2>2. TypeOK'
    BY <1>1, <1>2, <1>3, <2>1 DEF TypeOK, Stages
  <2>3. InFlight' = InFlight \ {o} /\ o \in InFlight
    BY <1>3, <2>1 DEF InFlight, TypeOK
  <2>4. Promised'
    BY <1>3, <2>1 DEF Inv, Promised, TypeOK
  <2>5. ASSUME Orderly PROVE Orderly'
    <3>1. InFlight' = {}
      BY <2>3, <2>5 DEF Orderly, OneUnderWay
    <3>2. instance = None /\ \A p \in Openings \ {o} : opening[p] # "resolved"
      BY <2>3, <2>5 DEF Orderly, NotBeside, OneUnderWay, InFlight
    <3>3. PlatformKnown'
      <4>1. ASSUME NEW p \in Openings \ {o}
            PROVE  ~(opening[p] = "done" /\ platform[p] = "open")
        BY <2>5, <3>2 DEF Orderly, PlatformKnown, Openings, None
      <4>2. QED
        BY <1>3, <2>1, <2>5, <3>2, <4>1 DEF Orderly, PlatformKnown, TypeOK
    <3>4. InstanceKnown'
      <4>1. Closing' = {} /\ opening'[o] = "done"
        BY <1>1, <1>3, <2>1, <2>3, <2>5 DEF Orderly, NotBeside, TypeOK
      <4>2. QED
        BY <1>2, <2>1, <2>5, <4>1 DEF Orderly, PlatformKnown, InstanceKnown
    <3>5. HookKnows'
      <4> SUFFICES ASSUME NEW h \in Hooks, hook[h].effect \in {"waiting", "onReady"},
                          NEW p, p = hook[h].on
                   PROVE  /\ p \in Openings
                          /\ hook[h].effect = "onReady" => opening'[p] = "done"
                          /\ opening'[p] # "new"
                          /\ opening'[p] = "done" => p = instance' \/ database'[p] = "disposed"
        BY <1>1 DEF HookKnows
      <4>1. /\ p \in Openings /\ opening[p] # "new"
            /\ hook[h].effect = "onReady" => opening[p] = "done"
            /\ opening[p] = "done" => database[p] = "disposed"
        BY <2>5, <3>2 DEF Orderly, HookKnows, Openings, None
      <4>2. QED
        BY <1>3, <2>1, <4>1 DEF TypeOK
    <3>6. QED
      BY <1>1, <2>1, <2>5, <3>1, <3>3, <3>4, <3>5
         DEF Orderly, OneUnderWay, OneClosing, NotBeside, CloserKnows
  <2>6. QED
    BY <1>1, <2>2, <2>4, <2>5 DEF Inv
<1>8. CASE Rejected(o)
  <2>1. opening[o] = "rejected" /\ opening' = [opening EXCEPT ![o] = "failed"]
        /\ initPromise' = None
        /\ UNCHANGED <<platform, database, instance, activeDb, closePlatform>>
    BY <1>8 DEF Rejected
  <2>2. TypeOK'
    BY <1>1, <1>2, <1>3, <2>1 DEF TypeOK, Stages, Maybe
  <2>3. InFlight' = InFlight \ {o} /\ o \in InFlight
    BY <1>3, <2>1 DEF InFlight, TypeOK
  <2>4. Promised'
    BY <2>1 DEF Promised
  <2>5. ASSUME Orderly PROVE Orderly'
    <3>1. InFlight' = {}
      BY <2>3, <2>5 DEF Orderly, OneUnderWay
    <3>2. PlatformKnown'
      BY <1>3, <2>1, <2>5 DEF Orderly, PlatformKnown, TypeOK
    <3>3. QED
      BY <1>1, <2>1, <2>5, <3>1, <3>2
         DEF Orderly, OneUnderWay, OneClosing, NotBeside, InstanceKnown, CloserKnows, HookKnows,
             Orphaned, CloseFailed
  <2>6. QED
    BY <1>1, <2>2, <2>4, <2>5 DEF Inv
<1>9. QED
  BY <1>4, <1>5, <1>6, <1>7, <1>8 DEF Factory

(* The start of a close(): in order, if it overlaps nothing.               *)
LEMMA CloseInv ==
  ASSUME Inv, NEW c \in Closers, Close(c)
  PROVE  Inv'
<1>1. TypeOK
  BY DEF Inv
<1>2. /\ closer[c].at = "new" /\ database' = Disposed /\ activeDb' = None
      /\ raced' = (raced \/ Overlaps)
      /\ UNCHANGED <<opening, platform, closePlatform, hook, runs>>
      /\ InFlight' = InFlight
  BY DEF Close, InFlight
<1>3. Disposed \in [Openings -> {"none", "open", "disposed"}]
  BY <1>1 DEF Disposed, TypeOK, Maybe
<1>4. \/ /\ closePlatform # None
         /\ closer' = [closer EXCEPT ![c] = [at |-> "awaits", on |-> closePlatform]]
         /\ instance' = instance /\ initPromise' = initPromise
      \/ /\ closePlatform = None
         /\ closer' = [closer EXCEPT ![c] = Over]
         /\ instance' = None /\ initPromise' = None
  BY DEF Close
<1>5. TypeOK'
  BY <1>1, <1>2, <1>3, <1>4 DEF TypeOK, Maybe, Over
<1>6. Promised'
  BY <1>2, <1>4 DEF Inv, Promised
<1>7. ASSUME ~raced' PROVE Orderly'
  <2>1. Orderly /\ InFlight = {} /\ Closing = {}
    BY <1>2, <1>7 DEF Inv, Overlaps
  <2>2. \A d \in Closers : d # c => closer[d].at # "awaits"
    BY <2>1 DEF Closing
  <2>3. /\ closePlatform # None => Closing' = {c} /\ closer'[c].on = closePlatform
        /\ closePlatform = None => Closing' = {}
    BY <1>1, <1>4, <2>2 DEF Closing, TypeOK, Over
  <2>4. \A o \in Openings : opening[o] \notin {"create", "resolved", "rejected"}
    BY <2>1 DEF InFlight
  <2>5. instance' # instance => instance = None
    BY <1>4, <2>1 DEF Orderly, InstanceKnown
  <2>6. PlatformKnown'
    <3>1. ASSUME NEW o \in Openings, opening[o] = "done", platform[o] = "open"
          PROVE  instance' = o
      <4>1. instance = o /\ o # None
        BY <2>1, <3>1 DEF Orderly, PlatformKnown, Openings, None
      <4>2. QED
        BY <2>5, <4>1
    <3>2. QED
      BY <1>2, <2>1, <2>4, <3>1 DEF Orderly, PlatformKnown
  <2>7. CloserKnows' /\ OneClosing'
    BY <1>2, <1>4, <2>1, <2>3 DEF Orderly, CloserKnows, OneClosing
  <2>8. \A o \in Openings : database[o] = "disposed" \/ o = activeDb => database'[o] = "disposed"
    BY <1>1, <1>2 DEF Disposed, TypeOK, Maybe, Openings, None
  <2>9. instance # None => instance \in Openings /\ database'[instance] = "disposed"
    BY <1>1, <2>1, <2>8 DEF Orderly, InstanceKnown, Orphaned, TypeOK, Maybe
  <2>10. InstanceKnown'
    BY <1>2, <1>4, <2>1, <2>3, <2>9 DEF Orderly, InstanceKnown, Orphaned
  <2>11. HookKnows'
    <3> SUFFICES ASSUME NEW h \in Hooks, hook[h].effect \in {"waiting", "onReady"},
                        NEW o, o = hook[h].on
                 PROVE  /\ o \in Openings
                        /\ hook[h].effect = "onReady" => opening[o] = "done"
                        /\ opening[o] # "new"
                        /\ opening[o] = "done" => o = instance' \/ database'[o] = "disposed"
      BY <1>2 DEF HookKnows
    <3>1. /\ o \in Openings /\ opening[o] # "new"
          /\ hook[h].effect = "onReady" => opening[o] = "done"
          /\ opening[o] = "done" => o = instance \/ database[o] = "disposed"
      BY <2>1 DEF Orderly, HookKnows
    <3>2. o = instance => database'[o] = "disposed"
      BY <2>9, <3>1 DEF Openings, None
    <3>3. QED
      BY <2>8, <3>1, <3>2
  <2>12. QED
    BY <1>2, <2>1, <2>6, <2>7, <2>10, <2>11 DEF Orderly, OneUnderWay, NotBeside
<1>8. QED
  BY <1>5, <1>6, <1>7 DEF Inv

(* The end of a close().                                                   *)
LEMMA EndCloseInv ==
  ASSUME Inv, NEW c \in Closers, EndClose(c)
  PROVE  Inv'
<1>1. TypeOK /\ closer[c].at = "awaits" /\ c \in Closing
  BY DEF Inv, EndClose, PlatformClosed, PlatformCloseThrows, Closing
<1>2. CASE PlatformClosed(c)
  <2>1. /\ platform' = [platform EXCEPT ![closer[c].on] = "closed"]
        /\ closePlatform' = None /\ instance' = None /\ initPromise' = None
        /\ closer' = [closer EXCEPT ![c] = Over]
        /\ UNCHANGED <<opening, database, activeDb, hook, runs, raced>>
        /\ InFlight' = InFlight
    BY <1>2 DEF PlatformClosed, InFlight
  <2>2. TypeOK'
    BY <1>1, <2>1 DEF TypeOK, Maybe, Over
  <2>3. Promised'
    BY <2>1 DEF Promised
  <2>4. ASSUME Orderly PROVE Orderly'
    <3>1. InFlight = {}
      BY <1>1, <2>4 DEF Orderly, NotBeside
    <3>2. Closing' = {}
      BY <1>1, <2>1, <2>4 DEF Orderly, OneClosing, Closing, TypeOK, Over
    <3>3. closer[c].on = closePlatform /\ closePlatform \in Openings
      BY <1>1, <2>4 DEF Orderly, CloserKnows, TypeOK, Maybe
    <3>4. \A o \in Openings : opening[o] \notin {"setup", "create", "resolved", "rejected"}
      BY <3>1 DEF InFlight
    <3>5. \A o \in Openings : platform'[o] = IF o = closePlatform THEN "closed" ELSE platform[o]
      BY <1>1, <2>1, <3>3 DEF TypeOK
    <3>6. \A o \in Openings : opening[o] = "done" /\ platform[o] = "open" => closePlatform = o
      BY <2>4 DEF Orderly, PlatformKnown, InstanceKnown, Openings, None
    <3>7. PlatformKnown'
      <4>1. ASSUME NEW o \in Openings
            PROVE  /\ opening[o] \in {"new", "setup"} => platform'[o] = "none" /\ None # o
                   /\ ~(opening[o] = "done" /\ platform'[o] = "open")
        BY <2>4, <3>5, <3>6 DEF Orderly, PlatformKnown, Openings, None
      <4>2. QED
        BY <2>1, <3>4, <4>1 DEF PlatformKnown
    <3>8. HookKnows'
      <4> SUFFICES ASSUME NEW h \in Hooks, hook[h].effect \in {"waiting", "onReady"},
                          NEW o, o = hook[h].on
                   PROVE  /\ o \in Openings
                          /\ hook[h].effect = "onReady" => opening[o] = "done"
                          /\ opening[o] # "new"
                          /\ opening[o] = "done" => database[o] = "disposed"
        BY <2>1 DEF HookKnows
      <4>1. /\ o \in Openings /\ opening[o] # "new"
            /\ hook[h].effect = "onReady" => opening[o] = "done"
            /\ opening[o] = "done" => o = instance \/ database[o] = "disposed"
        BY <2>4 DEF Orderly, HookKnows
      <4>2. o = instance => database[o] = "disposed"
        BY <1>1, <2>4, <4>1 DEF Orderly, InstanceKnown, Orphaned, Openings, None
      <4>3. QED
        BY <4>1, <4>2
    <3>9. QED
      BY <2>1, <2>4, <3>1, <3>2, <3>7, <3>8
         DEF Orderly, OneUnderWay, OneClosing, NotBeside, InstanceKnown, CloserKnows
  <2>5. QED
    BY <2>1, <2>2, <2>3, <2>4 DEF Inv
<1>3. CASE PlatformCloseThrows(c)
  <2>1. /\ closer' = [closer EXCEPT ![c].at = "failed"]
        /\ UNCHANGED <<opening, platform, database, initPromise, instance, activeDb,
                       closePlatform, hook, runs, raced>>
        /\ InFlight' = InFlight
    BY <1>3 DEF PlatformCloseThrows, handle, InFlight
  <2>2. closer[c] \in [at : {"new", "awaits", "over", "failed"}, on : Maybe]
    BY <1>1 DEF TypeOK
  <2>3. [closer[c] EXCEPT !.at = "failed"] = [at |-> "failed", on |-> closer[c].on]
    BY <2>2
  <2>4. closer' = [closer EXCEPT ![c] = [at |-> "failed", on |-> closer[c].on]]
    BY <2>1, <2>3
  <2>5. TypeOK'
    BY <1>1, <2>1, <2>2, <2>4 DEF TypeOK
  <2>6. ASSUME Orderly PROVE Orderly'
    <3>1. InFlight = {} /\ closer[c].on = closePlatform
      BY <1>1, <2>6 DEF Orderly, NotBeside, CloserKnows
    <3>2. Closing' = {}
      BY <1>1, <2>4, <2>6 DEF Orderly, OneClosing, Closing, TypeOK
    <3>3. closer'[c] = [at |-> "failed", on |-> closePlatform]
      BY <1>1, <2>4, <3>1 DEF TypeOK
    <3>4. instance # None => platform[instance] = "open"
      BY <2>6 DEF Orderly, InstanceKnown
    <3>5. InstanceKnown'
      BY <1>1, <2>1, <2>6, <3>1, <3>2, <3>3, <3>4
         DEF Orderly, InstanceKnown, Orphaned, CloseFailed
    <3>6. PlatformKnown' /\ HookKnows'
      BY <2>1, <2>6 DEF Orderly, PlatformKnown, HookKnows
    <3>7. QED
      BY <2>1, <2>6, <3>1, <3>2, <3>5, <3>6
         DEF Orderly, OneUnderWay, OneClosing, NotBeside, CloserKnows
  <2>7. QED
    BY <2>1, <2>5, <2>6 DEF Inv, Promised
<1>4. QED
  BY <1>2, <1>3 DEF EndClose

(* An effect starts: it shares what is open or under way, or opens.        *)
LEMMA RunEffectInv ==
  ASSUME Inv, NEW h \in Hooks, RunEffect(h)
  PROVE  Inv'
<1>1. TypeOK
  BY DEF Inv
<1>2. PICK o \in Openings : Ensure(o) /\ hook' = Started(h, o)
  BY DEF RunEffect
<1>3. /\ runs < MaxRuns /\ runs' = runs + 1 /\ raced' = (raced \/ Closing # {})
      /\ UNCHANGED <<platform, database, instance, activeDb, closePlatform, closer>>
      /\ Closing' = Closing
  BY <1>2 DEF RunEffect, Ensure, Closing
<1>4. hook' \in [Hooks -> [effect : Effects, on : Maybe, ready : BOOLEAN, error : BOOLEAN]]
  <2>1. o \in Maybe /\ "waiting" \in Effects
    BY DEF Maybe, Effects
  <2>2. QED
    BY <1>1, <1>2, <2>1 DEF Started, TypeOK
<1>5. runs' \in 0 .. MaxRuns
  BY <1>1, <1>3, BoundsAssumption DEF TypeOK
<1>6. CASE Shared # None
  <2>1. opening' = opening /\ initPromise' = initPromise /\ InFlight' = InFlight
    BY <1>2, <1>6 DEF Ensure, InFlight
  <2>2. TypeOK' /\ Promised'
    BY <1>1, <1>3, <1>4, <1>5, <2>1 DEF Inv, TypeOK, Promised
  <2>3. ASSUME Orderly PROVE Orderly'
    <3>1. opening[o] # "new" /\ (opening[o] = "done" => o = instance)
      BY <1>2, <1>6, <2>3 DEF Ensure, Shared, Orderly, InstanceKnown, InFlight
    <3>2. HookKnows'
      BY <1>1, <1>2, <1>3, <2>1, <2>3, <3>1 DEF Orderly, HookKnows, Started, TypeOK
    <3>3. InstanceKnown'
      BY <1>3, <2>1, <2>3 DEF Orderly, InstanceKnown, Orphaned, CloseFailed
    <3>4. QED
      BY <1>3, <2>1, <2>3, <3>2, <3>3
         DEF Orderly, OneUnderWay, OneClosing, NotBeside, PlatformKnown, CloserKnows
  <2>4. QED
    BY <1>3, <2>2, <2>3 DEF Inv
<1>7. CASE Shared = None
  <2>1. instance = None /\ initPromise = None
    BY <1>7 DEF Shared
  <2>2. opening[o] = "new" /\ opening' = [opening EXCEPT ![o] = "setup"] /\ initPromise' = o
    BY <1>2, <1>7 DEF Ensure, StartFactory
  <2>3. TypeOK' /\ Promised'
    BY <1>1, <1>3, <1>4, <1>5, <2>2 DEF TypeOK, Promised, Stages, Maybe
  <2>4. ASSUME ~raced' PROVE Orderly'
    <3>1. Orderly /\ Closing = {}
      BY <1>3, <2>4 DEF Inv
    <3>2. InFlight = {}
      BY <2>1, <3>1 DEF Orderly, NotBeside, InFlight, Openings, None
    <3>3. InFlight' = {o}
      BY <1>1, <2>2, <3>2 DEF InFlight, TypeOK
    <3>4. PlatformKnown'
      BY <1>1, <1>3, <2>2, <3>1 DEF Orderly, PlatformKnown, TypeOK
    <3>5. HookKnows'
      <4>1. \A p \in Openings : opening'[p] = IF p = o THEN "setup" ELSE opening[p]
        BY <1>1, <2>2 DEF TypeOK
      <4>2. \A g \in Hooks \ {h} : hook'[g] = hook[g]
        BY <1>1, <1>2 DEF Started, TypeOK
      <4>3. hook'[h].on = o /\ hook'[h].effect = "waiting"
        BY <1>1, <1>2 DEF Started, TypeOK
      <4>4. ASSUME NEW g \in Hooks \ {h}, hook[g].effect \in {"waiting", "onReady"}
            PROVE  hook[g].on # o
        BY <2>2, <3>1, <4>4 DEF Orderly, HookKnows
      <4>5. QED
        BY <1>3, <3>1, <4>1, <4>2, <4>3, <4>4 DEF Orderly, HookKnows
    <3>6. InstanceKnown'
      BY <1>3, <2>1, <2>2, <3>3 DEF InstanceKnown
    <3>7. QED
      BY <1>3, <2>1, <2>2, <3>1, <3>3, <3>4, <3>5, <3>6
         DEF Orderly, OneUnderWay, OneClosing, NotBeside, CloserKnows
  <2>5. QED
    BY <2>3, <2>4 DEF Inv
<1>8. QED
  BY <1>6, <1>7

(* What else a hook does touches no database.                              *)
LEMMA HookInv ==
  ASSUME Inv, NEW h \in Hooks, Unmount(h) \/ EndEffect(h)
  PROVE  Inv'
<1>1. TypeOK
  BY DEF Inv
<1>2. UNCHANGED <<opening, platform, database, initPromise, instance, activeDb,
                  closePlatform, closer, runs, raced>>
  BY DEF Unmount, EndEffect, Ensured, ShowReady, ShowError, handle
<1>3. hook' \in [Hooks -> [effect : Effects, on : Maybe, ready : BOOLEAN, error : BOOLEAN]]
  <2>1. None \in Maybe /\ {"none", "onReady", "over"} \subseteq Effects
    BY DEF Maybe, Effects
  <2>2. \/ hook' = [hook EXCEPT ![h] = [hook[h] EXCEPT !.effect = "none", !.on = None,
                                                      !.ready = FALSE, !.error = FALSE]]
        \/ hook' = [hook EXCEPT ![h].effect = "onReady"]
        \/ hook' = [hook EXCEPT ![h].effect = "over", ![h].on = None,
                                ![h].ready = TRUE, ![h].error = FALSE]
        \/ hook' = [hook EXCEPT ![h].effect = "over", ![h].on = None,
                                ![h].ready = FALSE, ![h].error = TRUE]
    BY DEF Unmount, EndEffect, Ensured, ShowReady, ShowError
  <2> DEFINE R == [effect : Effects, on : Maybe, ready : BOOLEAN, error : BOOLEAN]
  <2>3. hook \in [Hooks -> R] /\ hook[h] \in R
    BY <1>1 DEF TypeOK
  <2>4. CASE hook' = [hook EXCEPT ![h].effect = "onReady"]
    BY <2>1, <2>3, <2>4
  <2>5. ASSUME NEW effect \in {"none", "over"}, NEW ready \in BOOLEAN, NEW error \in BOOLEAN,
               hook' = [hook EXCEPT ![h] = [hook[h] EXCEPT !.effect = effect, !.on = None,
                                                           !.ready = ready, !.error = error]]
        PROVE  hook' \in [Hooks -> R]
    <3>1. [hook[h] EXCEPT !.effect = effect, !.on = None, !.ready = ready, !.error = error] \in R
      BY <2>1, <2>3
    <3>2. QED
      BY <2>3, <2>5, <3>1
  <2>6. CASE hook' = [hook EXCEPT ![h].effect = "over", ![h].on = None,
                                  ![h].ready = TRUE, ![h].error = FALSE]
    <3>1. hook' = [hook EXCEPT ![h] = [hook[h] EXCEPT !.effect = "over", !.on = None,
                                                      !.ready = TRUE, !.error = FALSE]]
      BY <2>3, <2>6
    <3>2. QED
      BY <2>5, <3>1
  <2>7. CASE hook' = [hook EXCEPT ![h].effect = "over", ![h].on = None,
                                  ![h].ready = FALSE, ![h].error = TRUE]
    <3>1. hook' = [hook EXCEPT ![h] = [hook[h] EXCEPT !.effect = "over", !.on = None,
                                                      !.ready = FALSE, !.error = TRUE]]
      BY <2>3, <2>7
    <3>2. QED
      BY <2>5, <3>1
  <2>8. QED
    BY <2>2, <2>4, <2>5, <2>6, <2>7
<1>4. TypeOK' /\ Promised'
  BY <1>1, <1>2, <1>3 DEF Inv, TypeOK, Promised
<1>5. InFlight' = InFlight /\ Closing' = Closing
  BY <1>2 DEF InFlight, Closing
<1>6. ASSUME Orderly PROVE Orderly'
  <2>1. HookKnows'
    <3>1. \A g \in Hooks \ {h} : hook'[g] = hook[g]
      BY <1>1 DEF Unmount, EndEffect, Ensured, ShowReady, ShowError, TypeOK
    <3>2. hook'[h].effect \in {"waiting", "onReady"} =>
            /\ hook[h].effect = "waiting" /\ opening[hook[h].on] = "done"
            /\ hook'[h].effect = "onReady" /\ hook'[h].on = hook[h].on
      <4>1. CASE Ensured(h)
        BY <1>1, <4>1 DEF Ensured, TypeOK
      <4>2. CASE ShowReady(h) \/ ShowError(h)
        BY <1>1, <4>2 DEF ShowReady, ShowError, TypeOK
      <4>3. CASE Unmount(h)
        <5>1. hook' = [hook EXCEPT ![h] = [hook[h] EXCEPT !.effect = "none", !.on = None,
                                                          !.ready = FALSE, !.error = FALSE]]
          BY <4>3 DEF Unmount
        <5>2. hook[h] \in [effect : Effects, on : Maybe, ready : BOOLEAN, error : BOOLEAN]
          BY <1>1 DEF TypeOK
        <5>3. hook'[h].effect = "none"
          BY <1>1, <5>1, <5>2 DEF TypeOK
        <5>4. QED
          BY <5>3
      <4>4. QED
        BY <4>1, <4>2, <4>3 DEF EndEffect
    <3>3. QED
      BY <1>2, <1>6, <3>1, <3>2 DEF Orderly, HookKnows
  <2>2. InstanceKnown'
    BY <1>2, <1>5, <1>6 DEF Orderly, InstanceKnown, Orphaned, CloseFailed
  <2>3. QED
    BY <1>2, <1>5, <1>6, <2>1, <2>2
       DEF Orderly, OneUnderWay, OneClosing, NotBeside, PlatformKnown, CloserKnows
<1>7. QED
  BY <1>2, <1>4, <1>6 DEF Inv

(* A step that changes nothing keeps the invariant.                        *)
LEMMA StutterInv ==
  ASSUME Inv, UNCHANGED vars
  PROVE  Inv'
<1>1. UNCHANGED <<opening, platform, database, initPromise, instance, activeDb,
                  closePlatform, closer, hook, runs, raced>>
  BY DEF vars
<1>2. InFlight' = InFlight /\ Closing' = Closing /\ TypeOK' /\ Promised'
  BY <1>1 DEF Inv, TypeOK, Promised, InFlight, Closing
<1>3. ASSUME Orderly PROVE Orderly'
  BY <1>1, <1>2, <1>3 DEF Orderly, OneUnderWay, OneClosing, NotBeside, PlatformKnown,
                          InstanceKnown, CloserKnows, HookKnows,
             Orphaned, CloseFailed
<1>4. QED
  BY <1>1, <1>2, <1>3 DEF Inv

-----------------------------------------------------------------------------
(* The handle and its hooks keep the invariant in every behaviour.         *)
THEOREM Invariance == Spec => []Inv
<1>1. Init => Inv
  BY InitInv
<1>2. Inv /\ [Next]_vars => Inv'
  <2> SUFFICES ASSUME Inv, [Next]_vars PROVE Inv'
    OBVIOUS
  <2>1. CASE \E o \in Openings : Factory(o)
    BY <2>1, FactoryInv
  <2>2. CASE \E c \in Closers : Close(c) \/ EndClose(c)
    BY <2>2, CloseInv, EndCloseInv
  <2>3. CASE \E h \in Hooks : RunEffect(h) \/ Unmount(h) \/ EndEffect(h)
    BY <2>3, RunEffectInv, HookInv
  <2>4. CASE UNCHANGED vars
    BY <2>4, StutterInv
  <2>5. QED
    BY <2>1, <2>2, <2>3, <2>4 DEF Next
<1>3. QED
  BY <1>1, <1>2, PTL DEF Spec

(* What is in order is one database at a time.                             *)
LEMMA OrderlyIsOne ==
  ASSUME Inv
  PROVE  OneDatabase
<1>1. TypeOK /\ Promised /\ (~raced => Orderly)
  BY DEF Inv
<1>2. RetriesAfterFailure
  BY <1>1 DEF Promised, RetriesAfterFailure
<1>3. ASSUME Orderly PROVE OpensOnce
  <2>1. CASE InFlight = {}
    BY <2>1, FS_EmptySet DEF OpensOnce
  <2>2. CASE InFlight # {}
    <3>1. PICK o \in InFlight : TRUE
      BY <2>2
    <3>2. InFlight = {o}
      BY <1>3, <3>1 DEF Orderly, OneUnderWay
    <3>3. Cardinality(InFlight) = 1
      BY <3>2, FS_Singleton
    <3>4. QED
      BY <1>3, <2>2, <3>3 DEF Orderly, NotBeside, OpensOnce
  <2>3. QED
    BY <2>1, <2>2
<1>4. ASSUME Orderly PROVE InstanceIsOpen /\ HooksShare
  <2>1. InstanceIsOpen
    BY <1>4 DEF Orderly, InstanceKnown, InstanceIsOpen, Orphaned
  <2>2. ASSUME NEW h \in Hooks, hook[h].effect \in {"waiting", "onReady"}, NEW o, o = hook[h].on
        PROVE  \/ o = Shared
               \/ opening[o] = "failed" /\ hook[h].effect = "waiting"
               \/ opening[o] = "done" /\ database[o] = "disposed"
    <3>1. /\ o \in Openings /\ opening[o] # "new"
          /\ hook[h].effect = "onReady" => opening[o] = "done"
          /\ opening[o] = "done" => o = instance \/ database[o] = "disposed"
      BY <1>4, <2>2 DEF Orderly, HookKnows
    <3>2. CASE opening[o] = "done"
      BY <3>1, <3>2 DEF Shared, Openings, None
    <3>3. CASE opening[o] = "failed"
      BY <2>2, <3>1, <3>3
    <3>4. CASE opening[o] \notin {"done", "failed"}
      <4>1. o \in InFlight
        BY <1>1, <3>1, <3>4 DEF InFlight, TypeOK, Stages
      <4>2. QED
        BY <1>4, <4>1 DEF Orderly, NotBeside, OneUnderWay, Shared
    <3>5. QED
      BY <3>2, <3>3, <3>4
  <2>3. QED
    BY <2>1, <2>2 DEF HooksShare
<1>5. ASSUME Orderly PROVE NothingLeaks
  <2>1. ASSUME NEW o \in Openings, platform[o] = "open", closePlatform # o
        PROVE  opening[o] = "failed"
    <3>1. opening[o] \in Stages /\ o # None
      BY <1>1 DEF TypeOK, Openings, None
    <3>2. opening[o] # "done"
      BY <1>5, <2>1, <3>1 DEF Orderly, PlatformKnown, InstanceKnown
    <3>3. QED
      BY <1>5, <2>1, <3>1, <3>2 DEF Orderly, PlatformKnown, Stages
  <2>2. QED
    BY <2>1 DEF NothingLeaks
<1>6. QED
  BY <1>1, <1>2, <1>3, <1>4, <1>5 DEF OneDatabase

(* However many hooks mount, unmount, fail and run again, and however many *)
(* times the database is closed, one database is open at a time, it is the *)
(* one ensure() returns and every hook awaits or has, and close() reaches  *)
(* it, also after a platform that would not close; until a close()         *)
(* overlaps an opening, an ensure() or another close().                    *)
THEOREM OneAtATime == Spec => []OneDatabase
<1>1. Inv => OneDatabase
  BY OrderlyIsOne
<1>2. QED
  BY <1>1, Invariance, PTL
=============================================================================
