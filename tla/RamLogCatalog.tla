---------------------------- MODULE RamLogCatalog ----------------------------
(***************************************************************************)
(* The catalog of named RamLogs of src/unnamed/part_000: RamLog::get,      *)
(* RamLog::getIfExists and the MONGO_INITIALIZER RamLogCatalogV2.          *)
(*                                                                         *)
(* _namedLock and _named are pointers created lazily: get() tests them     *)
(* outside any lock and allocates the mutex or the map when NULL.  The     *)
(* initializer creates both while the process is still single-threaded;    *)
(* before it, only the main thread runs (static initializers may call      *)
(* get()), after it every thread may.  Each statement that reads or writes *)
(* shared state is one step, so threads interleave between the test of a   *)
(* pointer and its use.  Mutexes, maps and RamLogs are numbered objects;   *)
(* 0 is NULL.                                                              *)
(*                                                                         *)
(* The catalog is composed with the ring of the first RamLog it constructs *)
(* (module RamLog, instanced as Ring): a thread that got that RamLog may   *)
(* write() to it or clear() it, each one step under the RamLog's _mutex,   *)
(* and RamLog::getNames reads its n under _namedLock only.  With a single  *)
(* name, that RamLog is the only one correct code ever constructs.         *)
(***************************************************************************)
EXTENDS Integers, FiniteSets

CONSTANTS
    Threads,     \* threads that call into the catalog
    Main,        \* the thread that runs the initializers
    Names,       \* RamLog names
    MaxObjects,  \* bound: mutexes, maps and RamLogs allocated of each kind
    N, C, Tags, Lengths, MaxWrites   \* the ring's constants, as in RamLog

ASSUME Main \in Threads

Null == 0
Objs == 1..MaxObjects

VARIABLES
    phase,      \* "startup" (single-threaded), then "running"
    namedLock,  \* _namedLock: Null or a mutex
    named,      \* _named: Null or a map
    maps,       \* maps[m][nm]: the RamLog map m holds for nm, or Null
    logs,       \* number of RamLogs constructed
    holder,     \* holder[mx]: the thread that holds mutex mx, or Null
    nmtx, nmap, \* number of mutexes and maps allocated
    pc, op, arg, mtx, res,  \* each thread's call: step, method, name, lock taken, result
    seen,       \* ghost: names whose get() had returned when this call began
    got,        \* ghost: the <<name, RamLog>> pairs the calls have returned
    lines, h, n, total, hist,  \* the ring of RamLog RingLog (see RamLog)
    listed      \* listed[t]: the names getNames() pushed into names

catalogVars == <<phase, namedLock, named, maps, logs, holder, nmtx, nmap,
                 pc, op, arg, mtx, res, seen, got>>
ringVars == <<lines, h, n, total, hist>>
namesVars == <<listed>>
vars == <<catalogVars, ringVars, namesVars>>

Ring == INSTANCE RamLog

RingLog == 1   \* the RamLog whose ring is modelled: the first constructed
-----------------------------------------------------------------------------
Init ==
    /\ phase = "startup"
    /\ namedLock = Null /\ named = Null
    /\ maps = [m \in Objs |-> [nm \in Names |-> Null]]
    /\ logs = 0 /\ nmtx = 0 /\ nmap = 0
    /\ holder = [mx \in Objs |-> Null]
    /\ pc = [t \in Threads |-> "idle"]
    /\ op = [t \in Threads |-> "get"]
    /\ arg = [t \in Threads |-> CHOOSE nm \in Names : TRUE]
    /\ mtx = [t \in Threads |-> Null]
    /\ res = [t \in Threads |-> Null]
    /\ seen = [t \in Threads |-> {}]
    /\ got = {}
    /\ Ring!Init
    /\ listed = [t \in Threads |-> {}]

CanRun(t) == phase = "running" \/ t = Main

Goto(t, p) == pc' = [pc EXCEPT ![t] = p]

\* A thread calls get(nm) or getIfExists(nm).
Call(t, o, nm) ==
    /\ CanRun(t) /\ pc[t] = "idle"
    /\ op' = [op EXCEPT ![t] = o]
    /\ arg' = [arg EXCEPT ![t] = nm]
    /\ seen' = [seen EXCEPT ![t] = {g[1] : g \in got}]
    /\ Goto(t, IF o = "get" THEN "checkLock" ELSE "checkNamed")
    /\ UNCHANGED <<phase, namedLock, named, maps, logs, holder, nmtx, nmap, mtx, res, got>>

(* get: if (!_namedLock) ... outside any lock. *)
CheckLock(t) ==
    /\ CanRun(t) /\ pc[t] = "checkLock"
    /\ Goto(t, IF namedLock = Null THEN "newLock" ELSE "lock")
    /\ UNCHANGED <<phase, namedLock, named, maps, logs, holder, nmtx, nmap,
                   op, arg, mtx, res, seen, got>>

(* get: _namedLock = new stdx::mutex(). *)
NewLock(t) ==
    /\ CanRun(t) /\ pc[t] = "newLock" /\ nmtx < MaxObjects
    /\ nmtx' = nmtx + 1
    /\ namedLock' = nmtx + 1
    /\ Goto(t, "lock")
    /\ UNCHANGED <<phase, named, maps, logs, holder, nmap, op, arg, mtx, res, seen, got>>

\* get, getIfExists: stdx::lock_guard lk(*_namedLock), whichever mutex the
\* pointer designates now.
Lock(t) ==
    /\ CanRun(t) /\ pc[t] = "lock"
    /\ holder[namedLock] = Null
    /\ holder' = [holder EXCEPT ![namedLock] = t]
    /\ mtx' = [mtx EXCEPT ![t] = namedLock]
    /\ Goto(t, CASE op[t] = "get" -> "checkMap"
                  [] op[t] = "getIfExists" -> "find"
                  [] op[t] = "getNames" -> "scan")
    /\ UNCHANGED <<phase, namedLock, named, maps, logs, nmtx, nmap, op, arg, res, seen, got>>

(* get: if (!_named) ... under the lock. *)
CheckMap(t) ==
    /\ CanRun(t) /\ pc[t] = "checkMap"
    /\ Goto(t, IF named = Null THEN "newMap" ELSE "find")
    /\ UNCHANGED <<phase, namedLock, named, maps, logs, holder, nmtx, nmap,
                   op, arg, mtx, res, seen, got>>

(* get: _named = new RM(). *)
NewMap(t) ==
    /\ CanRun(t) /\ pc[t] = "newMap" /\ nmap < MaxObjects
    /\ nmap' = nmap + 1
    /\ named' = nmap + 1
    /\ Goto(t, "find")
    /\ UNCHANGED <<phase, namedLock, maps, logs, holder, nmtx, op, arg, mtx, res, seen, got>>

\* get, getIfExists: mapFindWithDefault(*_named, name, NULL).
Find(t) ==
    /\ CanRun(t) /\ pc[t] = "find"
    /\ res' = [res EXCEPT ![t] = maps[named][arg[t]]]
    /\ Goto(t, IF maps[named][arg[t]] = Null /\ op[t] = "get" THEN "create" ELSE "return")
    /\ UNCHANGED <<phase, namedLock, named, maps, logs, holder, nmtx, nmap, op, arg, mtx, seen, got>>

\* Seeded bug: the new RamLog is returned but not put in the map.
CreateNoInsert(t) ==
    /\ CanRun(t) /\ pc[t] = "create" /\ logs < MaxObjects
    /\ logs' = logs + 1
    /\ res' = [res EXCEPT ![t] = logs + 1]
    /\ Goto(t, "return")
    /\ UNCHANGED <<phase, namedLock, named, maps, holder, nmtx, nmap, op, arg, mtx, seen, got>>

\* get: result = new RamLog(name); (*_named)[name] = result.
Create(t) ==
    /\ CanRun(t) /\ pc[t] = "create" /\ logs < MaxObjects
    /\ logs' = logs + 1
    /\ res' = [res EXCEPT ![t] = logs + 1]
    /\ maps' = [maps EXCEPT ![named][arg[t]] = logs + 1]
    /\ Goto(t, "return")
    /\ UNCHANGED <<phase, namedLock, named, holder, nmtx, nmap, op, arg, mtx, seen, got>>

(* getIfExists, getNames: if (!_named) return, read without the lock. *)
CheckNamed(t) ==
    /\ CanRun(t) /\ pc[t] = "checkNamed"
    /\ Goto(t, IF named = Null THEN "return" ELSE "lock")
    /\ res' = [res EXCEPT ![t] = Null]
    /\ UNCHANGED <<phase, namedLock, named, maps, logs, holder, nmtx, nmap, op, arg, mtx, seen, got>>

\* The call returns res[t]; the lock_guard, if taken, is released.
Return(t) ==
    /\ CanRun(t) /\ pc[t] = "return"
    /\ holder' = IF mtx[t] = Null THEN holder ELSE [holder EXCEPT ![mtx[t]] = Null]
    /\ mtx' = [mtx EXCEPT ![t] = Null]
    /\ got' = IF res[t] = Null THEN got ELSE got \cup {<<arg[t], res[t]>>}
    /\ Goto(t, "idle")
    /\ UNCHANGED <<phase, namedLock, named, maps, logs, nmtx, nmap, op, arg, res, seen>>

\* Seeded bug: the test reads if (_namedLock), so nothing is created.
InitializerInverted ==
    /\ phase = "startup" /\ pc[Main] = "idle"
    /\ UNCHANGED <<namedLock, named, nmtx, nmap>>
    /\ phase' = "running"
    /\ UNCHANGED <<maps, logs, holder, pc, op, arg, mtx, res, seen, got>>

(* MONGO_INITIALIZER(RamLogCatalogV2), run by the main thread between     *)
(* calls, before any other thread starts.                                 *)
Initializer ==
    /\ phase = "startup" /\ pc[Main] = "idle"
    /\ namedLock = Null => named = Null   \* else InternalError: startup fails
    /\ IF namedLock = Null
       THEN /\ nmtx < MaxObjects /\ nmap < MaxObjects
            /\ nmtx' = nmtx + 1 /\ namedLock' = nmtx + 1
            /\ nmap' = nmap + 1 /\ named' = nmap + 1
       ELSE UNCHANGED <<namedLock, named, nmtx, nmap>>
    /\ phase' = "running"
    /\ UNCHANGED <<maps, logs, holder, pc, op, arg, mtx, res, seen, got>>

-----------------------------------------------------------------------------
\* The lines a RamLog holds: the ring's n for RingLog, none for any other.
LogLines(L) == IF L = RingLog THEN n ELSE 0

\* The names whose RamLog in the current map holds a line.
WithLines == IF named = Null THEN {}
             ELSE {nm \in Names : maps[named][nm] # Null /\ LogLines(maps[named][nm]) > 0}

\* A thread calls getNames(names), with names empty.
CallGetNames(t) ==
    /\ Call(t, "getNames", arg[t])
    /\ listed' = [listed EXCEPT ![t] = {}]
    /\ UNCHANGED ringVars

(* getNames: for each entry of *_named, if (i->second->n) push its name;  *)
(* n is read under _namedLock, not under the RamLog's _mutex.             *)
ScanNames(t) ==
    /\ CanRun(t) /\ pc[t] = "scan"
    /\ listed' = [listed EXCEPT ![t] = WithLines]
    /\ Goto(t, "return")
    /\ UNCHANGED <<phase, namedLock, named, maps, logs, holder, nmtx, nmap,
                   op, arg, mtx, res, seen, got, ringVars>>

\* A thread between calls that holds RamLog RingLog writes a line to it or
\* clears it (RamLog::write, RamLog::clear, each under _mutex).
UseLog(t) ==
    /\ CanRun(t) /\ pc[t] = "idle" /\ res[t] = RingLog
    /\ \/ \E s \in Ring!Strings : Ring!write(s)
       \/ Ring!clear
    /\ UNCHANGED <<catalogVars, listed>>

Step(t) ==
    \/ \E o \in {"get", "getIfExists"}, nm \in Names : Call(t, o, nm)
    \/ CheckLock(t) \/ NewLock(t) \/ Lock(t) \/ CheckMap(t) \/ NewMap(t)
    \/ Find(t) \/ Create(t) \/ CheckNamed(t) \/ Return(t)

Next ==
    \/ (Initializer \/ \E t \in Threads : Step(t)) /\ UNCHANGED <<ringVars, namesVars>>
    \/ \E t \in Threads : CallGetNames(t) \/ ScanNames(t) \/ UseLog(t)

Spec == Init /\ [][Next]_vars
-----------------------------------------------------------------------------
TypeOK ==
    /\ Ring!TypeOK
    /\ phase \in {"startup", "running"}
    /\ namedLock \in {Null} \cup Objs /\ named \in {Null} \cup Objs
    /\ maps \in [Objs -> [Names -> {Null} \cup Objs]]
    /\ logs \in 0..MaxObjects /\ nmtx \in 0..MaxObjects /\ nmap \in 0..MaxObjects
    /\ holder \in [Objs -> {Null} \cup Threads]
    /\ op \in [Threads -> {"get", "getIfExists", "getNames"}]
    /\ res \in [Threads -> {Null} \cup Objs]
    /\ got \subseteq Names \X Objs
    /\ \A t \in Threads : listed[t] \subseteq Names

\* RamLog RingLog's ring, written and cleared by the threads that got it,
\* reads back the last N non-empty lines (RamLog!RingHoldsLastWrites).
RingHoldsLastWrites == Ring!RingHoldsLastWrites

\* get() hands every caller of a name the same RamLog, and getIfExists()
\* never hands out another: two threads in get() at once never both
\* construct a RamLog for one name, because they never hold two different
\* _namedLock mutexes or fill two different _named maps.
OneLogPerName ==
    \A g1, g2 \in got : g1[1] = g2[1] => g1[2] = g2[2]

\* A getIfExists(name) that starts after a call for name has returned a
\* RamLog finds it: the map get() filled is the one getIfExists reads.
GetIfExistsFindsEarlierGet ==
    [][\A t \in Threads :
         (pc[t] = "return" /\ pc'[t] = "idle" /\ op[t] = "getIfExists"
          /\ arg[t] \in seen[t]) => res[t] # Null]_vars
====
