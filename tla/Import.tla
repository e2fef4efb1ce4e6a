-------------------------------- MODULE Import --------------------------------
(***************************************************************************)
(* import (src/src/import.c, KSB_IMPORT in vm.c): looking a module up in   *)
(* the cache, searching its file, running the file's body, which imports   *)
(* other modules, and entering the module into the cache; submodules are   *)
(* attributes of their module instead.  The GIL is given up while a file   *)
(* is read and between the bytecodes of a body.                            *)
(*                                                                         *)
(* A body, or the script of a thread, is a sequence of statements that     *)
(* import a path or throw; a statement may be what a `try' with a catch    *)
(* contains, or the `finally' clause of a try whose body has thrown.       *)
(***************************************************************************)
EXTENDS Integers, Sequences, SequencesExt

CONSTANTS Thread,
          Module,       \* modules and submodules
          Scripts,      \* [Thread -> sets of scripts]
          Body,         \* [Module -> Seq(Statement)]
          Place,        \* where the search finds a module
          Attribute,    \* names that a module has for what is not a module
          MaxDepth      \* bodies that fit on the stack of a thread

Places == {"builtin",   \* made by the interpreter
           "first",     \* the first file looked for
           "later",     \* another, after files that are not there
           "broken",    \* the first file, which is not a program
           "nowhere"}

Statement ==
    [path : UNION {[1 .. n -> Module] : n \in 0 .. 3},      \* <<>>: throws
     within : {"nothing", "try", "finally"}]

ASSUME NameAssumption == Thread \cap Module = {}
ASSUME ScriptsAssumption == Scripts \in [Thread -> SUBSET Seq(Statement)]
ASSUME BodyAssumption == Body \in [Module -> Seq(Statement)]
ASSUME PlaceAssumption == Place \in [Module -> Places]
ASSUME AttributeAssumption == Attribute \in [Module -> SUBSET Module]
ASSUME MaxDepthAssumption == MaxDepth \in Nat \ {0}

VARIABLES
    script,
    cache,      \* what can be looked up: the name of a module, or that of a
                \* submodule with its module and that module's run, to the
                \* run of its body it is from
    globals,    \* the names a body has imported, as those of submodules
    runs,       \* how many runs of its body each module has had
    finished,   \* <<module, run>> whose body has come to its end
    overlapped, \* names that two imports were bringing in at the same time
    logger,     \* the logger "ks" is there
    stack,      \* of each thread: the script's frame and those of bodies
    exc,        \* th->exc
    doing,      \* what a thread is about to do
    crashed     \* why the process has died

modules == <<cache, runs, finished, overlapped>>
vars == <<script, modules, globals, logger, stack, exc, doing, crashed>>

(* part: how much of the path of the statement at hand is imported; of:    *)
(* the run that the last part of it is from, 0 if it is not a module       *)
Frame(name, run) == [name |-> name, run |-> run, at |-> 1, part |-> 0, of |-> 0]

Init ==
    /\ script \in {s \in [Thread -> UNION {Scripts[t] : t \in Thread}] :
                      \A t \in Thread : s[t] \in Scripts[t]}
    /\ cache = [name \in {} |-> 0]
    /\ globals = [name \in {} |-> 0]
    /\ runs = [m \in Module |-> 0]
    /\ finished = {}
    /\ overlapped = {}
    /\ logger = FALSE
    /\ stack = [t \in Thread |-> <<Frame(<<t>>, 0)>>]
    /\ exc = [t \in Thread |-> "none"]
    /\ doing = [t \in Thread |-> "next"]
    /\ crashed = "no"

Top(t) == stack[t][Len(stack[t])]
Under(t) == stack[t][Len(stack[t]) - 1]
Code(f) == IF f.name[1] \in Thread THEN script[f.name[1]] ELSE Body[f.name[1]]
AtEnd(t) == Top(t).at > Len(Code(Top(t)))
Here(t) == Code(Top(t))[Top(t).at]

(* The name by which the part of the path is looked up that is to be       *)
(* imported now.                                                           *)
Name(t) ==
    LET p == Top(t).part
    IN IF p = 0 THEN <<Here(t).path[1]>>
       ELSE <<Here(t).path[p + 1], Here(t).path[p], Top(t).of>>
IsSub(name) == Len(name) > 1

Importing(t) ==
    /\ doing[t] = "next" /\ ~AtEnd(t) /\ Here(t).path # <<>>
    /\ ~(Top(t).part > 0 /\ Top(t).of = 0)

(* th->exc when the import of this part begins *)
Pending(t) ==
    IF Here(t).within = "finally" /\ Top(t).part = 0 THEN "Error" ELSE exc[t]

Replace(t, f) == stack' = [stack EXCEPT ![t][Len(stack[t])] = f]
Goto(t, l) == doing' = [doing EXCEPT ![t] = l]
Raise(t, x) == exc' = [exc EXCEPT ![t] = x]

(* The frames with what follows the import of a part, as of that run: the  *)
(* next part, what is pending in a finally clause, or the next statement.  *)
Continue(t, frames, run, pending) ==
    LET top == frames[Len(frames)]
        statement == Code(top)[top.at]
        With(f) == [frames EXCEPT ![Len(frames)] = f]
    IN /\ Raise(t, pending)
       /\ IF top.part + 1 < Len(statement.path)
          THEN /\ stack' = [stack EXCEPT ![t] = With([top EXCEPT !.part = @ + 1, !.of = run])]
               /\ Goto(t, "next")
          ELSE IF statement.within = "finally" /\ pending # "none"
          THEN /\ stack' = [stack EXCEPT ![t] = frames]
               /\ Goto(t, "throw")
          ELSE /\ stack' = [stack EXCEPT ![t] =
                               With([top EXCEPT !.at = @ + 1, !.part = 0, !.of = 0])]
               /\ Goto(t, "next")

-----------------------------------------------------------------------------
(* ks_import, ks_import_sub *)

(* Whatever a module has by the name of a submodule is taken for it.        *)
Known(name) ==
    \/ name \in DOMAIN cache
    \/ IsSub(name) /\ (name \in DOMAIN globals \/ name[1] \in Attribute[name[2]])

RunOf(name) ==
    IF name \in DOMAIN cache THEN cache[name]
    ELSE IF name \in DOMAIN globals THEN globals[name]
    ELSE 0

(* The body of a module has the name it imports from now on; it gets it    *)
(* behind the submodules, when the module itself cannot be looked up yet.  *)
Stores(f, run) ==
    LET name == <<Code(f)[f.at].path[1], f.name[1], f.run>>
    IN IF f.part = 0 /\ f.name[1] \in Module
       THEN globals' = [n \in DOMAIN globals \cup {name} |-> IF n = name THEN run ELSE globals[n]]
       ELSE UNCHANGED globals

(* The module is there. *)
LookUp(t) ==
    /\ Importing(t)
    /\ Known(Name(t))
    /\ Stores(Top(t), RunOf(Name(t)))
    /\ Continue(t, stack[t], RunOf(Name(t)), Pending(t))
    /\ UNCHANGED <<script, modules, logger, crashed>>

Bind(name, run) ==
    cache' = [n \in DOMAIN cache \cup {name} |-> IF n = name THEN run ELSE cache[n]]

BuiltIn(t) ==
    LET m == Name(t)[1]
    IN /\ Importing(t)
       /\ ~IsSub(Name(t)) /\ ~Known(Name(t))
       /\ Place[m] = "builtin"
       /\ runs' = [runs EXCEPT ![m] = @ + 1]
       /\ finished' = finished \cup {<<m, runs'[m]>>}
       /\ Bind(Name(t), runs'[m])
       /\ Stores(Top(t), runs'[m])
       /\ Continue(t, stack[t], runs'[m], Pending(t))
       /\ UNCHANGED <<script, overlapped, logger, crashed>>

UnderWay(name) ==
    \E u \in Thread :
        \/ doing[u] = "read" /\ Name(u) = name
        \/ \E d \in 2 .. Len(stack[u]) : stack[u][d].name = name

(* Mutant: without looking at the cache. *)
SearchAlways(t) ==
    /\ Importing(t)
    /\ Place[Name(t)[1]] \in {"first", "later", "broken"}
    /\ Raise(t, "none")
    /\ logger' = TRUE
    /\ overlapped' = IF UnderWay(Name(t)) THEN overlapped \cup {Name(t)} ELSE overlapped
    /\ Goto(t, "read")
    /\ UNCHANGED <<script, cache, globals, runs, finished, stack, crashed>>

(* Builtin modules have no directory, and are no package. *)
HasDir(name) == IsSub(name) => Place[name[2]] # "builtin"

(* Up to where the file is read.  A file that is not there, and the logger *)
(* that is not, throw exceptions that are dropped again, and with them     *)
(* what was pending.                                                       *)
Search(t) ==
    LET m == Name(t)[1]
        before == IF IsSub(Name(t)) THEN "KeyError" ELSE Pending(t)
    IN /\ Importing(t)
       /\ ~Known(Name(t)) /\ HasDir(Name(t))
       /\ Place[m] \in {"first", "later", "broken"}
       /\ Raise(t, IF Place[m] = "later" \/ ~logger THEN "none" ELSE before)
       /\ logger' = TRUE
       /\ overlapped' = IF UnderWay(Name(t)) THEN overlapped \cup {Name(t)} ELSE overlapped
       /\ Goto(t, "read")
       /\ UNCHANGED <<script, cache, globals, runs, finished, stack, crashed>>

(* Nothing notices a submodule that is not there (vm.c:696).  The KeyError  *)
(* is of the look-up of the directory.                                     *)
NotFound(t) ==
    /\ Importing(t)
    /\ ~Known(Name(t))
    /\ \/ Place[Name(t)[1]] = "nowhere"
       \/ IsSub(Name(t)) /\ Place[Name(t)[1]] = "builtin"
       \/ ~HasDir(Name(t))
    /\ IF IsSub(Name(t))
       THEN Continue(t, stack[t], 0, IF HasDir(Name(t)) THEN "ImportError" ELSE "KeyError")
       ELSE Raise(t, "ImportError") /\ Goto(t, "throw") /\ UNCHANGED stack
    /\ UNCHANGED <<script, modules, globals, logger, crashed>>

(* The path goes on behind a submodule that was not there, or was not a    *)
(* module, whose fields are read all the same: the model ends there.       *)
NullModule(t) ==
    /\ doing[t] = "next" /\ ~AtEnd(t)
    /\ Top(t).part > 0 /\ Top(t).of = 0
    /\ crashed' = "null"
    /\ UNCHANGED <<script, modules, globals, logger, stack, exc, doing>>

-----------------------------------------------------------------------------
(* import_path *)

Broken(t) ==
    /\ doing[t] = "read"
    /\ Place[Name(t)[1]] = "broken"
    /\ IF IsSub(Name(t)) THEN Continue(t, stack[t], 0, "ImportError")
       ELSE Raise(t, "SyntaxError") /\ Goto(t, "throw") /\ UNCHANGED stack
    /\ UNCHANGED <<script, modules, globals, logger, crashed>>

(* Mutant: the module is entered before its body has run. *)
RunEntered(t) ==
    LET m == Name(t)[1]
    IN /\ doing[t] = "read"
       /\ Place[m] # "broken"
       /\ runs' = [runs EXCEPT ![m] = @ + 1]
       /\ Bind(Name(t), runs'[m])
       /\ stack' = [stack EXCEPT ![t] = Append(@, Frame(Name(t), runs'[m]))]
       /\ Goto(t, "next")
       /\ UNCHANGED <<script, globals, finished, overlapped, logger, exc, crashed>>

Run(t) ==
    LET m == Name(t)[1]
    IN /\ doing[t] = "read"
       /\ Place[m] # "broken"
       /\ IF Len(stack[t]) > MaxDepth
          THEN crashed' = "overflow" /\ UNCHANGED <<runs, stack, doing>>
          ELSE /\ runs' = [runs EXCEPT ![m] = @ + 1]
               /\ stack' = [stack EXCEPT ![t] = Append(@, Frame(Name(t), runs'[m]))]
               /\ Goto(t, "next")
               /\ UNCHANGED crashed
       /\ UNCHANGED <<script, cache, globals, finished, overlapped, logger, exc>>

(* A body ends and its module is entered. *)
Return(t) ==
    /\ doing[t] = "next" /\ AtEnd(t) /\ Len(stack[t]) > 1
    /\ finished' = finished \cup {<<Top(t).name[1], Top(t).run>>}
    /\ Bind(Top(t).name, Top(t).run)
    /\ Stores(Under(t), Top(t).run)
    /\ Continue(t, Front(stack[t]), Top(t).run, exc[t])
    /\ UNCHANGED <<script, runs, overlapped, logger, crashed>>

End(t) ==
    /\ doing[t] = "next" /\ AtEnd(t) /\ Len(stack[t]) = 1
    /\ Goto(t, "ended")
    /\ UNCHANGED <<script, modules, globals, logger, stack, exc, crashed>>

-----------------------------------------------------------------------------
Throw(t) ==
    /\ doing[t] = "next" /\ ~AtEnd(t) /\ Here(t).path = <<>>
    /\ Raise(t, "Error")
    /\ Goto(t, "throw")
    /\ UNCHANGED <<script, modules, globals, logger, stack, crashed>>

(* Mutant: goes to the beginning of the try and not behind it. *)
CatchAgain(t) ==
    /\ doing[t] = "throw"
    /\ Here(t).within = "try"
    /\ Raise(t, "none")
    /\ Replace(t, [Top(t) EXCEPT !.part = 0, !.of = 0])
    /\ Goto(t, "next")
    /\ UNCHANGED <<script, modules, globals, logger, crashed>>

Catch(t) ==
    /\ doing[t] = "throw"
    /\ Here(t).within = "try"
    /\ Raise(t, "none")
    /\ Replace(t, [Top(t) EXCEPT !.at = @ + 1, !.part = 0, !.of = 0])
    /\ Goto(t, "next")
    /\ UNCHANGED <<script, modules, globals, logger, crashed>>

(* Mutant: the import that has failed is not noticed either. *)
FailOn(t) ==
    /\ doing[t] = "throw"
    /\ Here(t).within # "try"
    /\ IF Len(stack[t]) = 1 THEN Goto(t, "died") /\ UNCHANGED <<stack, exc>>
       ELSE Continue(t, Front(stack[t]), 0, IF IsSub(Top(t).name) THEN "ImportError" ELSE "none")
    /\ UNCHANGED <<script, modules, globals, logger, crashed>>

(* A body throws, and the import of it; that of a submodule fails.         *)
Fail(t) ==
    /\ doing[t] = "throw"
    /\ Here(t).within # "try"
    /\ IF Len(stack[t]) = 1 THEN Goto(t, "died") /\ UNCHANGED <<stack, exc>>
       ELSE IF IsSub(Top(t).name) THEN Continue(t, Front(stack[t]), 0, "ImportError")
       ELSE stack' = [stack EXCEPT ![t] = Front(@)] /\ UNCHANGED <<exc, doing>>
    /\ UNCHANGED <<script, modules, globals, logger, crashed>>

-----------------------------------------------------------------------------
Step(t) ==
    /\ crashed = "no"
    /\ \/ LookUp(t) \/ BuiltIn(t) \/ Search(t) \/ NotFound(t) \/ NullModule(t)
       \/ Broken(t) \/ Run(t) \/ Return(t) \/ End(t)
       \/ Throw(t) \/ Catch(t) \/ Fail(t)

Over == crashed # "no" \/ \A t \in Thread : doing[t] \in {"ended", "died"}

Next == (\E t \in Thread : Step(t)) \/ (Over /\ UNCHANGED vars)

Spec == Init /\ [][Next]_vars

(* The GIL goes to every thread that waits for it. *)
FairSpec == Spec /\ \A t \in Thread : WF_vars(Step(t))

-----------------------------------------------------------------------------
TypeOK ==
    /\ \A n \in DOMAIN cache : n[1] \in Module /\ cache[n] \in 1 .. runs[n[1]]
    /\ \A n \in DOMAIN globals : n[1] \in Module /\ globals[n] \in 1 .. runs[n[1]]
    /\ runs \in [Module -> Nat]
    /\ \A f \in finished : f[2] \in 1 .. runs[f[1]]
    /\ logger \in BOOLEAN
    /\ \A t \in Thread : Len(stack[t]) \in 1 .. MaxDepth + 1
    /\ exc \in [Thread -> {"none", "Error", "KeyError", "ImportError", "SyntaxError"}]
    /\ doing \in [Thread -> {"next", "read", "throw", "ended", "died"}]
    /\ crashed \in {"no", "null", "overflow"}
    /\ \A t \in Thread : doing[t] \in {"throw", "died"} => exc[t] # "none"

(* What can be looked up is a module whose body has run to its end, and so *)
(* is what a body has imported: no thread sees a module half made, nor one *)
(* whose body threw.                                                       *)
CachedIsComplete ==
    /\ TypeOK
    /\ \A n \in DOMAIN cache : <<n[1], cache[n]>> \in finished
    /\ \A n \in DOMAIN globals : <<n[1], globals[n]>> \in finished

Kept ==
    \A n \in DOMAIN cache :
        n \in DOMAIN cache' /\ (cache'[n] = cache[n] \/ n \in overlapped)

(* A module that can be looked up stays the same module, unless two        *)
(* imports were bringing it in at the same time: of two threads, or of     *)
(* modules that import each other (import.c:253).                          *)
StaysUnlessOverlapped == [][Kept]_vars

Passed(t) ==
    LET d == Len(stack'[t])
        caught == doing[t] = "throw" /\ d = Len(stack[t])
    IN d <= Len(stack[t]) /\ stack'[t][d].at > stack[t][d].at /\ ~caught

Imported(t) ==
    LET d == Len(stack'[t])
        path == Code(stack[t][d])[stack[t][d].at].path
    IN /\ path # <<>> /\ <<path[1]>> \in DOMAIN cache'
       /\ \A p \in 2 .. Len(path) :
             \/ exc'[t] # "none"
             \/ \E n \in DOMAIN cache' \cup DOMAIN globals' :
                   IsSub(n) /\ n[1] = path[p] /\ n[2] = path[p - 1]
             \/ path[p] \in Attribute[path[p - 1]]

PassedImported == \A t \in Thread : Passed(t) => Imported(t)

(* Once an import statement is passed, other than by its catch, its module *)
(* can be looked up, and its submodules, or what else the module has by    *)
(* their names, too unless an exception is left pending.                   *)
PassedIsImported == [][PassedImported]_vars

(* Every script comes to its end, with an exception or not, unless a       *)
(* module is imported, however indirectly, by its own body, or the path of *)
(* an import goes on behind what is not a module.                          *)
ImportsItself(t) ==
    \E d, e \in 1 .. Len(stack[t]) : d < e /\ stack[t][d].name[1] = stack[t][e].name[1]

Termination ==
    <>(\/ \A t \in Thread : doing[t] \in {"ended", "died"}
       \/ crashed = "null"
       \/ \E t \in Thread : ImportsItself(t))
=============================================================================
