---------------------------- MODULE ImportProofs ----------------------------
(***************************************************************************)
(* Proofs about import, for any threads, modules, scripts and bodies,      *)
(* wherever the modules are found, and for any depth of the stack.         *)
(***************************************************************************)
EXTENDS Import, TLAPS

At(f) == Code(f)[f.at]

(* The name by which a frame imports the part at hand.                     *)
NameOf(f) ==
    IF f.part = 0 THEN <<At(f).path[1]>>
    ELSE <<At(f).path[f.part + 1], At(f).path[f.part], f.of>>

(* A frame is at an import whose parts so far were there.                  *)
AtHand(f) ==
    /\ f.at <= Len(Code(f)) /\ f.part < Len(At(f).path)
    /\ f.part > 0 => f.of # 0

(* The depths of the frames that wait for what they import. *)
Busy(t) == 1 .. Len(stack[t]) - (IF doing[t] = "read" THEN 0 ELSE 1)

FrameType ==
    [name : Seq(Module \cup Thread \cup Nat), run : Nat, at : Nat \ {0}, part : Nat, of : Nat]

Exceptions == {"none", "Error", "KeyError", "ImportError", "SyntaxError"}
Doings == {"next", "read", "throw", "ended", "died"}

Types ==
    /\ script \in [Thread -> Seq(Statement)]
    /\ runs \in [Module -> Nat]
    /\ stack \in [Thread -> Seq(FrameType)]
    /\ exc \in [Thread -> Exceptions]
    /\ doing \in [Thread -> Doings]
    /\ \A n \in DOMAIN cache : n[1] \in Module /\ cache[n] \in 1 .. runs[n[1]]
    /\ \A n \in DOMAIN globals : n[1] \in Module /\ globals[n] \in 1 .. runs[n[1]]

(* The first frame is of the script; each other is of what the frame below *)
(* it imports, and of a run that there is.                                 *)
FrameOK(t, d) ==
    LET f == stack[t][d]
    IN /\ f.name[1] \in Thread \cup Module
       /\ f.part > 0 => f.at <= Len(Code(f)) /\ f.part < Len(At(f).path)
       /\ d > 1 => /\ f.name[1] \in Module
                   /\ f.run \in 1 .. runs[f.name[1]]
                   /\ f.name = NameOf(stack[t][d - 1])
       /\ d \in Busy(t) => AtHand(f)

Frames ==
    \A t \in Thread :
        stack[t] # <<>> /\ \A d \in 1 .. Len(stack[t]) : FrameOK(t, d)

-----------------------------------------------------------------------------

(* A frame goes on: to the next part of its path, or the next statement.   *)
Forward(f, g) ==
    \/ g = f
    \/ /\ f.at <= Len(Code(f)) /\ f.part + 1 < Len(At(f).path)
       /\ \E run \in Nat : g = [f EXCEPT !.part = @ + 1, !.of = run]
    \/ g = [f EXCEPT !.at = @ + 1, !.part = 0, !.of = 0]

(* Only the last frame of a stack goes on.                                 *)
LastForward(base, new) ==
    /\ base \in Seq(FrameType) /\ new \in Seq(FrameType) /\ base # <<>>
    /\ Len(new) = Len(base)
    /\ \A d \in 1 .. Len(base) - 1 : new[d] = base[d]
    /\ Forward(base[Len(base)], new[Len(base)])

(* A statement is an import of at most three parts, or throws.             *)
LEMMA CodeType ==
  ASSUME Types, NEW f \in FrameType, f.name[1] \in Thread \cup Module
  PROVE  Code(f) \in Seq(Statement)
<1>1. CASE f.name[1] \in Thread
  BY <1>1 DEF Types, Code
<1>2. CASE f.name[1] \notin Thread
  BY <1>2, BodyAssumption DEF Code
<1> QED
  BY <1>1, <1>2

LEMMA PathType ==
  ASSUME Types, NEW f \in FrameType, f.name[1] \in Thread \cup Module, f.at <= Len(Code(f))
  PROVE  At(f) \in Statement /\ At(f).path \in Seq(Module) /\ Len(At(f).path) \in Nat
<1>1. Code(f) \in Seq(Statement) /\ f.at \in 1 .. Len(Code(f))
  BY CodeType DEF FrameType
<1>2. At(f) \in Statement
  BY <1>1 DEF At
<1>3. PICK n \in 0 .. 3 : At(f).path \in [1 .. n -> Module]
  BY <1>2 DEF Statement
<1> QED
  BY <1>2, <1>3

(* The name is one of a module. *)
LEMMA NameType ==
  ASSUME Types, NEW f \in FrameType, f.name[1] \in Thread \cup Module, AtHand(f)
  PROVE  /\ NameOf(f) \in Seq(Module \cup Thread \cup Nat)
         /\ NameOf(f)[1] \in Module
         /\ NameOf(f)[1] = At(f).path[f.part + 1]
         /\ IsSub(NameOf(f)) <=> f.part > 0
         /\ f.part > 0 => NameOf(f)[2] = At(f).path[f.part]
<1>1. At(f).path \in Seq(Module) /\ f.part \in Nat /\ f.of \in Nat /\ f.part + 1 \in 1 .. Len(At(f).path)
  BY PathType DEF AtHand, FrameType
<1>2. CASE f.part = 0
  BY <1>1, <1>2 DEF NameOf, IsSub
<1>3. CASE f.part > 0
  <2>1. At(f).path[f.part + 1] \in Module /\ At(f).path[f.part] \in Module
    BY <1>1, <1>3
  <2>2. NameOf(f) = <<At(f).path[f.part + 1], At(f).path[f.part], f.of>>
    BY <1>1, <1>3 DEF NameOf
  <2> QED
    BY <1>1, <1>3, <2>1, <2>2 DEF IsSub
<1> QED
  BY <1>1, <1>2, <1>3

(* A frame that goes on is a frame of the same body.                       *)
LEMMA ForwardType ==
  ASSUME NEW f \in FrameType, NEW run \in Nat
  PROVE  /\ [f EXCEPT !.part = @ + 1, !.of = run] \in FrameType
         /\ [f EXCEPT !.at = @ + 1, !.part = 0, !.of = 0] \in FrameType
<1>1. f.part + 1 \in Nat /\ f.at + 1 \in Nat \ {0}
  BY DEF FrameType
<1> QED
  BY <1>1 DEF FrameType

(* What follows the import of a part. *)
LEMMA ContinueForward ==
  ASSUME Types, NEW t \in Thread, NEW frames \in Seq(FrameType), frames # <<>>,
         NEW run \in Nat, NEW pending \in Exceptions,
         frames[Len(frames)].at <= Len(Code(frames[Len(frames)])),
         Continue(t, frames, run, pending)
  PROVE  /\ exc' = [exc EXCEPT ![t] = pending]
         /\ \/ doing' = [doing EXCEPT ![t] = "next"]
            \/ doing' = [doing EXCEPT ![t] = "throw"] /\ pending # "none"
         /\ \E new \in Seq(FrameType) :
               stack' = [stack EXCEPT ![t] = new] /\ LastForward(frames, new)
<1> DEFINE top == frames[Len(frames)]
           With(f) == [frames EXCEPT ![Len(frames)] = f]
<1>0. top \in FrameType /\ Len(frames) \in 1 .. Len(frames)
  OBVIOUS
<1>1. ASSUME NEW f \in FrameType, Forward(top, f), stack' = [stack EXCEPT ![t] = With(f)]
      PROVE  \E new \in Seq(FrameType) : stack' = [stack EXCEPT ![t] = new] /\ LastForward(frames, new)
  <2>1. With(f) \in Seq(FrameType) /\ LastForward(frames, With(f))
    BY <1>0, <1>1 DEF LastForward
  <2> QED
    BY <1>1, <2>1
<1>2. CASE top.part + 1 < Len(At(top).path)
  <2> DEFINE f == [top EXCEPT !.part = @ + 1, !.of = run]
  <2>0. f \in FrameType
    BY <1>0, ForwardType
  <2>1. f \in FrameType /\ Forward(top, f)
    BY <1>2, <2>0 DEF Forward
  <2>2. /\ stack' = [stack EXCEPT ![t] = With(f)] /\ doing' = [doing EXCEPT ![t] = "next"]
        /\ exc' = [exc EXCEPT ![t] = pending]
    BY <1>2 DEF Continue, At, Goto, Raise
  <2> QED
    BY <1>1, <2>1, <2>2
<1>3. CASE ~(top.part + 1 < Len(At(top).path)) /\ At(top).within = "finally" /\ pending # "none"
  <2>1. /\ stack' = [stack EXCEPT ![t] = frames] /\ doing' = [doing EXCEPT ![t] = "throw"]
        /\ exc' = [exc EXCEPT ![t] = pending]
    BY <1>3 DEF Continue, At, Goto, Raise
  <2>2. LastForward(frames, frames)
    BY DEF LastForward, Forward
  <2> QED
    BY <1>3, <2>1, <2>2
<1>4. CASE ~(top.part + 1 < Len(At(top).path)) /\ ~(At(top).within = "finally" /\ pending # "none")
  <2> DEFINE f == [top EXCEPT !.at = @ + 1, !.part = 0, !.of = 0]
  <2>0. f \in FrameType
    <3>1. 0 \in Nat
      OBVIOUS
    <3> QED
      BY <1>0, <3>1, ForwardType
  <2>1. f \in FrameType /\ Forward(top, f)
    BY <2>0 DEF Forward
  <2>2. /\ stack' = [stack EXCEPT ![t] = With(f)] /\ doing' = [doing EXCEPT ![t] = "next"]
        /\ exc' = [exc EXCEPT ![t] = pending]
    BY <1>4 DEF Continue, At, Goto, Raise
  <2> QED
    BY <1>1, <2>1, <2>2
<1> QED
  BY <1>2, <1>3, <1>4

-----------------------------------------------------------------------------

(* What a step does to the stack of its thread: a body begins, or the last *)
(* frame goes on, the one of a body that ended having been dropped first.  *)
Pushes(t, new) ==
    /\ doing[t] = "read" /\ doing' = [doing EXCEPT ![t] = "next"]
    /\ Name(t)[1] \in Module /\ ~(Len(stack[t]) > MaxDepth)
    /\ runs' = [runs EXCEPT ![Name(t)[1]] = @ + 1]
    /\ new = Append(stack[t], Frame(Name(t), runs'[Name(t)[1]]))

GoesOn(t, base, new) ==
    /\ LastForward(base, new)
    /\ doing'[t] = "read" => new = stack[t] /\ AtHand(Top(t)) /\ (doing[t] = "read" \/ Search(t))

StackStep(t) ==
    \E new \in Seq(FrameType) :
        /\ stack' = [stack EXCEPT ![t] = new]
        /\ \/ Pushes(t, new)
           \/ GoesOn(t, stack[t], new)
           \/ Len(stack[t]) > 1 /\ GoesOn(t, Front(stack[t]), new)

Inv == Types /\ Frames

(* The last frame. *)
LEMMA TopType ==
  ASSUME Inv, NEW t \in Thread
  PROVE  /\ stack[t] \in Seq(FrameType) /\ Len(stack[t]) \in Nat \ {0}
         /\ Top(t) \in FrameType /\ FrameOK(t, Len(stack[t]))
         /\ Top(t).name[1] \in Thread \cup Module
<1>1. stack[t] \in Seq(FrameType) /\ stack[t] # <<>>
  BY DEF Inv, Types, Frames
<1>2. Len(stack[t]) \in Nat \ {0} /\ Len(stack[t]) \in 1 .. Len(stack[t])
  BY <1>1
<1>3. FrameOK(t, Len(stack[t]))
  BY <1>2 DEF Inv, Frames
<1> QED
  BY <1>1, <1>2, <1>3 DEF Top, FrameOK

(* An import is at hand when it begins, and when its file is read.         *)
LEMMA ImportAtHand ==
  ASSUME Inv, NEW t \in Thread, Importing(t) \/ doing[t] = "read"
  PROVE  /\ AtHand(Top(t)) /\ Top(t).at <= Len(Code(Top(t)))
         /\ Name(t) = NameOf(Top(t)) /\ Name(t)[1] \in Module
         /\ Name(t) \in Seq(Module \cup Thread \cup Nat)
<1>1. Name(t) = NameOf(Top(t))
  BY DEF Name, NameOf, Here, At
<1>2. Top(t) \in FrameType /\ FrameOK(t, Len(stack[t])) /\ Len(stack[t]) \in Nat \ {0}
  BY TopType
<1>3. CASE doing[t] = "read"
  <2>1. Len(stack[t]) \in Busy(t)
    BY <1>2, <1>3 DEF Busy
  <2>2. AtHand(Top(t))
    BY <1>2, <2>1 DEF FrameOK, Top
  <2> QED
    BY <1>1, <1>2, <2>2, TopType, NameType DEF AtHand, Inv
<1>4. CASE Importing(t)
  <2>1. At(Top(t)).path # <<>> /\ Top(t).part \in Nat /\ Top(t).of \in Nat
    BY <1>2, <1>4 DEF Importing, Here, At, FrameType
  <2>2. Top(t).at <= Len(Code(Top(t)))
    <3>1. Code(Top(t)) \in Seq(Statement) /\ Top(t).at \in Nat
      BY <1>2, TopType, CodeType DEF Inv, FrameType
    <3> QED
      BY <1>4, <3>1 DEF Importing, AtEnd
  <2>3. Top(t).part > 0 => Top(t).of # 0
    BY <2>1, <1>4 DEF Importing
  <2>4. At(Top(t)).path \in Seq(Module)
    BY <1>2, <2>2, TopType, PathType DEF Inv
  <2>5. Top(t).part < Len(At(Top(t)).path)
    <3>1. CASE Top(t).part > 0
      BY <1>2, <3>1 DEF FrameOK, Top
    <3>2. CASE Top(t).part = 0
      BY <2>1, <2>4, <3>2
    <3> QED
      BY <2>1, <3>1, <3>2
  <2>6. AtHand(Top(t))
    BY <2>2, <2>3, <2>5 DEF AtHand
  <2> QED
    BY <1>1, <1>2, <2>2, <2>6, TopType, NameType DEF Inv
<1> QED
  BY <1>3, <1>4

(* All but the last element. *)
LEMMA FrontType ==
  ASSUME NEW S, NEW s \in Seq(S), Len(s) > 1
  PROVE  /\ Front(s) \in Seq(S) /\ Front(s) # <<>> /\ Len(Front(s)) = Len(s) - 1
         /\ \A d \in 1 .. Len(s) - 1 : Front(s)[d] = s[d]
<1>1. Len(s) - 1 \in 1 .. Len(s)
  OBVIOUS
<1>2. /\ SubSeq(s, 1, Len(s) - 1) \in Seq(S) /\ Len(SubSeq(s, 1, Len(s) - 1)) = Len(s) - 1
      /\ \A d \in 1 .. Len(s) - 1 : SubSeq(s, 1, Len(s) - 1)[d] = s[d]
  BY <1>1
<1> DEFINE f == SubSeq(s, 1, Len(s) - 1)
<1>3. f # <<>>
  <2>1. Len(f) # 0
    BY <1>1, <1>2
  <2> HIDE DEF f
  <2> QED
    BY <2>1
<1> QED
  BY <1>2, <1>3 DEF Front

(* Every frame but the last waits. *)
LEMMA BusyBelow ==
  ASSUME NEW t, Len(stack[t]) \in Nat, NEW d \in 1 .. Len(stack[t]) - 1
  PROVE  d \in Busy(t)
<1>1. CASE doing[t] = "read"
  <2>1. d \in 1 .. Len(stack[t]) - 0
    OBVIOUS
  <2> QED
    BY <1>1, <2>1 DEF Busy
<1>2. CASE doing[t] # "read"
  BY <1>2 DEF Busy
<1> QED
  BY <1>1, <1>2

(* The frame below waits for what it imports.                              *)
LEMMA UnderAtHand ==
  ASSUME Inv, NEW t \in Thread, Len(stack[t]) > 1
  PROVE  /\ Front(stack[t]) \in Seq(FrameType) /\ Front(stack[t]) # <<>>
         /\ Len(Front(stack[t])) = Len(stack[t]) - 1
         /\ \A d \in 1 .. Len(stack[t]) - 1 : Front(stack[t])[d] = stack[t][d]
         /\ Front(stack[t])[Len(Front(stack[t]))] = Under(t)
         /\ Under(t) \in FrameType /\ Under(t).name[1] \in Thread \cup Module
         /\ AtHand(Under(t)) /\ Top(t).name = NameOf(Under(t))
         /\ Top(t).name[1] \in Module /\ Top(t).run \in 1 .. runs[Top(t).name[1]]
<1>1. stack[t] \in Seq(FrameType) /\ Len(stack[t]) \in Nat /\ FrameOK(t, Len(stack[t]))
  BY TopType
<1>2. /\ Front(stack[t]) \in Seq(FrameType) /\ Front(stack[t]) # <<>>
      /\ Len(Front(stack[t])) = Len(stack[t]) - 1
      /\ \A d \in 1 .. Len(stack[t]) - 1 : Front(stack[t])[d] = stack[t][d]
  BY <1>1, FrontType
<1>3. Len(stack[t]) - 1 \in 1 .. Len(stack[t]) /\ Len(stack[t]) - 1 \in Busy(t)
  <2>1. CASE doing[t] = "read"
    BY <1>1, <2>1 DEF Busy
  <2>2. CASE doing[t] # "read"
    BY <1>1, <2>2 DEF Busy
  <2> QED
    BY <2>1, <2>2
<1>4. FrameOK(t, Len(stack[t]) - 1)
  BY <1>3 DEF Inv, Frames
<1>5. Under(t) \in FrameType /\ Front(stack[t])[Len(Front(stack[t]))] = Under(t)
  BY <1>1, <1>2, <1>3 DEF Under
<1>6. AtHand(Under(t)) /\ Under(t).name[1] \in Thread \cup Module
  BY <1>3, <1>4 DEF FrameOK, Under
<1>7. /\ Top(t).name = NameOf(Under(t))
      /\ Top(t).name[1] \in Module /\ Top(t).run \in 1 .. runs[Top(t).name[1]]
  BY <1>1 DEF FrameOK, Top, Under
<1> QED
  BY <1>2, <1>5, <1>6, <1>7

(* What is thrown is an exception. *)
Thrown == \A t \in Thread : doing[t] \in {"throw", "died"} => exc[t] # "none"

LEMMA OneOrMore ==
  ASSUME NEW n \in Nat \ {0}
  PROVE  n = 1 \/ (n > 1 /\ n # 1)
  OBVIOUS

(* runs never goes back. *)
LEMMA RunsStep ==
  ASSUME Inv, NEW t \in Thread, Step(t)
  PROVE  runs' \in [Module -> Nat] /\ \A m \in Module : runs'[m] >= runs[m]
<1>1. runs' = runs \/ \E m \in Module : runs' = [runs EXCEPT ![m] = @ + 1]
  <2>1. CASE BuiltIn(t)
    BY <2>1, ImportAtHand DEF BuiltIn
  <2>2. CASE Run(t)
    BY <2>2, ImportAtHand DEF Run
  <2>3. CASE LookUp(t) \/ Search(t) \/ NotFound(t) \/ NullModule(t) \/ Broken(t)
             \/ Return(t) \/ End(t) \/ Throw(t) \/ Catch(t) \/ Fail(t)
    BY <2>3 DEF LookUp, Search, NotFound, NullModule, Broken, Return, End, Throw, Catch, Fail, modules
  <2> QED
    BY <2>1, <2>2, <2>3 DEF Step
<1>2. runs \in [Module -> Nat]
  BY DEF Inv, Types
<1>3. ASSUME NEW m \in Module, runs' = [runs EXCEPT ![m] = @ + 1]
      PROVE  runs' \in [Module -> Nat] /\ \A n \in Module : runs'[n] >= runs[n]
  BY <1>2, <1>3
<1> QED
  BY <1>1, <1>2, <1>3

(* What is looked up is a run that there is, or 0. *)
LEMMA RunOfType ==
  ASSUME Inv, NEW name
  PROVE  /\ RunOf(name) \in Nat
         /\ name \in DOMAIN cache \cup DOMAIN globals => RunOf(name) # 0
<1>1. CASE name \in DOMAIN cache
  <2>1. name[1] \in Module /\ cache[name] \in 1 .. runs[name[1]] /\ runs[name[1]] \in Nat
    BY <1>1 DEF Inv, Types
  <2> QED
    BY <1>1, <2>1 DEF RunOf
<1>2. CASE name \notin DOMAIN cache /\ name \in DOMAIN globals
  <2>1. name[1] \in Module /\ globals[name] \in 1 .. runs[name[1]] /\ runs[name[1]] \in Nat
    BY <1>2 DEF Inv, Types
  <2> QED
    BY <1>2, <2>1 DEF RunOf
<1>3. CASE name \notin DOMAIN cache /\ name \notin DOMAIN globals
  BY <1>3 DEF RunOf
<1> QED
  BY <1>1, <1>2, <1>3

(* What is pending when an import begins or goes on is an exception or     *)
(* none.                                                                   *)
LEMMA PendingType ==
  ASSUME Inv, NEW t \in Thread
  PROVE  Pending(t) \in Exceptions /\ exc[t] \in Exceptions
  BY DEF Inv, Types, Pending, Exceptions

(* A step that goes on behind an import, the frames being known.           *)
LEMMA ContinueStep ==
  ASSUME Inv, NEW t \in Thread, NEW frames,
         \/ frames = stack[t] /\ (Importing(t) \/ doing[t] = "read")
         \/ frames = Front(stack[t]) /\ Len(stack[t]) > 1,
         NEW run \in Nat, NEW pending \in Exceptions,
         Continue(t, frames, run, pending)
  PROVE  StackStep(t) /\ exc' \in [Thread -> Exceptions] /\ doing' \in [Thread -> Doings]
         /\ \A u \in Thread \ {t} : doing'[u] = doing[u]
<1>1. /\ frames \in Seq(FrameType) /\ frames # <<>>
      /\ frames[Len(frames)].at <= Len(Code(frames[Len(frames)]))
  <2>1. CASE frames = stack[t] /\ (Importing(t) \/ doing[t] = "read")
    BY <2>1, ImportAtHand, TopType DEF Top
  <2>2. CASE frames = Front(stack[t]) /\ Len(stack[t]) > 1
    BY <2>2, UnderAtHand DEF AtHand
  <2> QED
    BY <2>1, <2>2
<1>2. /\ exc' = [exc EXCEPT ![t] = pending]
      /\ doing' = [doing EXCEPT ![t] = "next"] \/ doing' = [doing EXCEPT ![t] = "throw"]
  BY <1>1, ContinueForward DEF Inv
<1>3. PICK new \in Seq(FrameType) : stack' = [stack EXCEPT ![t] = new] /\ LastForward(frames, new)
  BY <1>1, ContinueForward DEF Inv
<1>4. doing'[t] # "read"
  BY <1>2 DEF Inv, Types
<1>5. StackStep(t)
  BY <1>3, <1>4 DEF StackStep, GoesOn
<1> QED
  BY <1>2, <1>5 DEF Inv, Types, Doings

(* The frame of a body that begins. *)
LEMMA FrameIsFrame ==
  ASSUME Inv, NEW name \in Seq(Module \cup Thread \cup Nat), NEW run \in Nat
  PROVE  Frame(name, run) \in FrameType
  BY DEF Frame, FrameType

(* What each step does to the stack of its thread, and to what is pending. *)
LEMMA StepShape ==
  ASSUME Inv, NEW t \in Thread, Step(t)
  PROVE  StackStep(t) /\ exc' \in [Thread -> Exceptions] /\ doing' \in [Thread -> Doings]
         /\ \A u \in Thread \ {t} : doing'[u] = doing[u]
<1> DEFINE Goal == StackStep(t) /\ exc' \in [Thread -> Exceptions] /\ doing' \in [Thread -> Doings]
                   /\ \A u \in Thread \ {t} : doing'[u] = doing[u]
<1>0. exc \in [Thread -> Exceptions] /\ doing \in [Thread -> Doings] /\ stack \in [Thread -> Seq(FrameType)]
      /\ runs \in [Module -> Nat]
  BY DEF Inv, Types
<1>1. ASSUME stack' = stack, exc' = exc \/ \E x \in Exceptions : exc' = [exc EXCEPT ![t] = x],
             doing' = doing \/ \E l \in Doings : doing' = [doing EXCEPT ![t] = l],
             doing'[t] = "read" => AtHand(Top(t)) /\ (doing[t] = "read" \/ Search(t))
      PROVE  Goal
  <2>1. stack' = [stack EXCEPT ![t] = stack[t]] /\ stack[t] \in Seq(FrameType)
    BY <1>0, <1>1
  <2>2. GoesOn(t, stack[t], stack[t])
    BY <1>1, TopType DEF GoesOn, LastForward, Forward
  <2> QED
    BY <1>0, <1>1, <2>1, <2>2 DEF StackStep
<1>2. CASE LookUp(t)
  <2>1. Importing(t) /\ RunOf(Name(t)) \in Nat
    BY <1>2, RunOfType DEF LookUp
  <2>2. Continue(t, stack[t], RunOf(Name(t)), Pending(t))
    BY <1>2 DEF LookUp
  <2> QED
    BY <2>1, <2>2, ContinueStep, PendingType
<1>3. CASE BuiltIn(t)
  <2>1. runs'[Name(t)[1]] \in Nat
    BY <1>3, RunsStep, ImportAtHand DEF BuiltIn
  <2> QED
    BY <1>3, <2>1, ContinueStep, PendingType DEF BuiltIn
<1>4. CASE Search(t)
  <2>1. Importing(t) /\ stack' = stack /\ doing' = [doing EXCEPT ![t] = "read"]
    BY <1>4 DEF Search, Goto
  <2>2. \E x \in Exceptions : exc' = [exc EXCEPT ![t] = x]
    BY <1>4, PendingType DEF Search, Raise, Exceptions
  <2> QED
    BY <1>1, <1>4, <2>1, <2>2, ImportAtHand DEF Doings
<1>5. CASE NotFound(t)
  <2>1. CASE IsSub(Name(t))
    <3>1. PICK x \in {"ImportError", "KeyError"} : Importing(t) /\ Continue(t, stack[t], 0, x)
      BY <1>5, <2>1 DEF NotFound
    <3>2. x \in Exceptions /\ 0 \in Nat
      BY DEF Exceptions
    <3> QED
      BY <3>1, <3>2, ContinueStep
  <2>2. CASE ~IsSub(Name(t))
    <3>1. stack' = stack /\ exc' = [exc EXCEPT ![t] = "ImportError"] /\ doing' = [doing EXCEPT ![t] = "throw"]
      BY <1>5, <2>2 DEF NotFound, Raise, Goto
    <3>2. doing'[t] # "read"
      BY <1>0, <3>1
    <3> QED
      BY <1>1, <3>1, <3>2 DEF Exceptions, Doings
  <2> QED
    BY <2>1, <2>2
<1>6. CASE NullModule(t)
  <2>1. doing[t] = "next" /\ UNCHANGED <<stack, exc, doing>>
    BY <1>6 DEF NullModule
  <2> QED
    BY <1>1, <2>1
<1>7. CASE Broken(t)
  <2>1. CASE IsSub(Name(t))
    BY <1>7, <2>1, ContinueStep DEF Broken, Exceptions
  <2>2. CASE ~IsSub(Name(t))
    <3>1. stack' = stack /\ exc' = [exc EXCEPT ![t] = "SyntaxError"] /\ doing' = [doing EXCEPT ![t] = "throw"]
      BY <1>7, <2>2 DEF Broken, Raise, Goto
    <3>2. doing'[t] # "read"
      BY <1>0, <3>1
    <3> QED
      BY <1>1, <3>1, <3>2 DEF Exceptions, Doings
  <2> QED
    BY <2>1, <2>2
<1>8. CASE Run(t)
  <2>0. doing[t] = "read" /\ Name(t)[1] \in Module /\ AtHand(Top(t))
    BY <1>8, ImportAtHand DEF Run
  <2>1. CASE Len(stack[t]) > MaxDepth
    BY <1>1, <1>8, <2>0, <2>1 DEF Run
  <2>2. CASE ~(Len(stack[t]) > MaxDepth)
    <3> DEFINE new == Append(stack[t], Frame(Name(t), runs'[Name(t)[1]]))
    <3>1. /\ stack' = [stack EXCEPT ![t] = new]
          /\ runs' = [runs EXCEPT ![Name(t)[1]] = @ + 1]
          /\ doing' = [doing EXCEPT ![t] = "next"] /\ exc' = exc
      BY <1>8, <2>2 DEF Run, Goto
    <3>2. Frame(Name(t), runs'[Name(t)[1]]) \in FrameType
      BY <1>8, <2>0, RunsStep, ImportAtHand, FrameIsFrame
    <3>3. new \in Seq(FrameType)
      BY <1>0, <3>2
    <3>4. Pushes(t, new)
      BY <2>0, <2>2, <3>1 DEF Pushes
    <3> QED
      BY <1>0, <3>1, <3>3, <3>4 DEF StackStep, Doings
  <2> QED
    BY <2>1, <2>2
<1>9. CASE Return(t)
  <2>1. Top(t).run \in Nat
    BY TopType DEF FrameType
  <2> QED
    BY <1>9, <2>1, ContinueStep, PendingType, TopType DEF Return
<1>10. CASE End(t) \/ Throw(t)
  <2>1. stack' = stack /\ exc' \in {exc, [exc EXCEPT ![t] = "Error"]}
        /\ \E l \in {"ended", "throw"} : doing' = [doing EXCEPT ![t] = l]
    BY <1>10 DEF End, Throw, Raise, Goto
  <2>2. doing'[t] # "read"
    BY <1>0, <2>1
  <2> QED
    BY <1>1, <2>1, <2>2 DEF Exceptions, Doings
<1>11. CASE Catch(t)
  <2> DEFINE f == [Top(t) EXCEPT !.at = @ + 1, !.part = 0, !.of = 0]
             new == [stack[t] EXCEPT ![Len(stack[t])] = f]
  <2>1. f \in FrameType
    <3>1. 0 \in Nat
      OBVIOUS
    <3> QED
      BY <3>1, TopType, ForwardType
  <2>2. new \in Seq(FrameType) /\ LastForward(stack[t], new)
    <3>1. stack[t] \in Seq(FrameType) /\ stack[t] # <<>> /\ Len(stack[t]) \in 1 .. Len(stack[t])
      BY TopType
    <3>2. Forward(stack[t][Len(stack[t])], f)
      BY DEF Forward, Top
    <3> HIDE DEF f
    <3> QED
      BY <2>1, <3>1, <3>2 DEF LastForward
  <2>3. exc' = [exc EXCEPT ![t] = "none"] /\ doing' = [doing EXCEPT ![t] = "next"]
        /\ stack' = [stack EXCEPT ![t] = new]
    BY <1>11 DEF Catch, Raise, Goto, Replace
  <2>4. doing'[t] # "read"
    BY <1>0, <2>3
  <2> QED
    BY <1>0, <2>2, <2>3, <2>4 DEF StackStep, GoesOn, Exceptions, Doings
<1>12. CASE Fail(t)
  <2>0. Len(stack[t]) = 1 \/ (Len(stack[t]) > 1 /\ Len(stack[t]) # 1)
    BY TopType, OneOrMore
  <2>1. CASE Len(stack[t]) = 1
    <3>1. stack' = stack /\ exc' = exc /\ doing' = [doing EXCEPT ![t] = "died"]
      BY <1>12, <2>1 DEF Fail, Goto
    <3>2. doing'[t] # "read"
      BY <1>0, <3>1
    <3> QED
      BY <1>1, <3>1, <3>2 DEF Doings
  <2>2. CASE Len(stack[t]) > 1 /\ Len(stack[t]) # 1 /\ IsSub(Top(t).name)
    <3>1. Continue(t, Front(stack[t]), 0, "ImportError")
      BY <1>12, <2>2 DEF Fail
    <3> QED
      BY <2>2, <3>1, ContinueStep DEF Exceptions
  <2>3. CASE Len(stack[t]) > 1 /\ Len(stack[t]) # 1 /\ ~IsSub(Top(t).name)
    <3>1. doing[t] = "throw" /\ stack' = [stack EXCEPT ![t] = Front(stack[t])] /\ exc' = exc /\ doing' = doing
      BY <1>12, <2>3 DEF Fail
    <3>2. GoesOn(t, Front(stack[t]), Front(stack[t]))
      BY <2>3, <3>1, UnderAtHand DEF GoesOn, LastForward, Forward
    <3> QED
      BY <1>0, <2>3, <3>1, <3>2, UnderAtHand DEF StackStep
  <2> QED
    BY <2>0, <2>1, <2>2, <2>3
<1> QED
  BY <1>2, <1>3, <1>4, <1>5, <1>6, <1>7, <1>8, <1>9, <1>10, <1>11, <1>12 DEF Step

-----------------------------------------------------------------------------
(* Frames is inductive. *)

LEMMA ScriptStays ==
  ASSUME NEW t \in Thread, Step(t)
  PROVE  script' = script
  BY DEF Step, LookUp, BuiltIn, Search, NotFound, NullModule, Broken, Run, Return,
         End, Throw, Catch, Fail

(* What a frame is at does not depend on anything else that changes.       *)
LEMMA CodeStays ==
  ASSUME script' = script, NEW f
  PROVE  /\ Code(f)' = Code(f) /\ At(f)' = At(f) /\ NameOf(f)' = NameOf(f)
         /\ AtHand(f)' = AtHand(f)
  BY DEF Code, At, NameOf, AtHand

LEMMA FrameOKNext ==
  ASSUME script' = script, NEW u, NEW d, NEW f, NEW g,
         f = stack'[u][d], g = stack'[u][d - 1],
         f.name[1] \in Thread \cup Module,
         f.part > 0 => f.at <= Len(Code(f)) /\ f.part < Len(At(f).path),
         d > 1 => f.name[1] \in Module /\ f.run \in 1 .. runs'[f.name[1]] /\ f.name = NameOf(g),
         d \in Busy(u)' => AtHand(f)
  PROVE  FrameOK(u, d)'
<1>1. Code(f)' = Code(f) /\ At(f)' = At(f) /\ AtHand(f)' = AtHand(f) /\ NameOf(g)' = NameOf(g)
  BY CodeStays
<1> QED
  BY <1>1 DEF FrameOK

(* A frame that goes on stays what it was for the frame below and its code. *)
LEMMA ForwardKeeps ==
  ASSUME Types, NEW f \in FrameType, NEW g, Forward(f, g), f.name[1] \in Thread \cup Module,
         f.part > 0 => f.at <= Len(Code(f)) /\ f.part < Len(At(f).path)
  PROVE  /\ g.name = f.name /\ g.run = f.run /\ Code(g) = Code(f)
         /\ g.part > 0 => g.at <= Len(Code(g)) /\ g.part < Len(At(g).path)
<1>1. CASE g = f
  BY <1>1
<1>2. CASE /\ f.at <= Len(Code(f)) /\ f.part + 1 < Len(At(f).path)
           /\ \E run \in Nat : g = [f EXCEPT !.part = @ + 1, !.of = run]
  <2>1. g.name = f.name /\ g.run = f.run /\ g.at = f.at /\ g.part = f.part + 1
    BY <1>2 DEF FrameType
  <2>2. Code(g) = Code(f) /\ At(g) = At(f)
    BY <2>1 DEF Code, At
  <2> QED
    BY <1>2, <2>1, <2>2
<1>3. CASE g = [f EXCEPT !.at = @ + 1, !.part = 0, !.of = 0]
  <2>1. g.name = f.name /\ g.run = f.run /\ g.part = 0
    BY <1>3 DEF FrameType
  <2> QED
    BY <2>1 DEF Code
<1> QED
  BY <1>1, <1>2, <1>3 DEF Forward

LEMMA RunsKeep ==
  ASSUME NEW old \in [Module -> Nat], NEW new \in [Module -> Nat],
         \A m \in Module : new[m] >= old[m], NEW m \in Module, NEW run \in 1 .. old[m]
  PROVE  run \in 1 .. new[m]
<1>1. old[m] \in Nat /\ new[m] \in Nat /\ new[m] >= old[m]
  OBVIOUS
<1> QED
  BY <1>1

(* The frames of which none but the last goes on. *)
LEMMA FramesGoOn ==
  ASSUME Inv, NEW t \in Thread, script' = script, NEW base, NEW new,
         \/ base = stack[t]
         \/ base = Front(stack[t]) /\ Len(stack[t]) > 1,
         GoesOn(t, base, new), stack'[t] = new,
         runs' \in [Module -> Nat], \A m \in Module : runs'[m] >= runs[m]
  PROVE  stack'[t] # <<>> /\ \A d \in 1 .. Len(stack'[t]) : FrameOK(t, d)'
<1>1. /\ base \in Seq(FrameType) /\ new \in Seq(FrameType) /\ base # <<>>
      /\ Len(new) = Len(base) /\ \A d \in 1 .. Len(base) - 1 : new[d] = base[d]
      /\ Forward(base[Len(base)], new[Len(base)])
  BY DEF GoesOn, LastForward
<1>2. stack[t] \in Seq(FrameType) /\ Len(stack[t]) \in Nat /\ Len(base) \in Nat \ {0}
      /\ Len(base) <= Len(stack[t]) /\ \A d \in 1 .. Len(base) : base[d] = stack[t][d]
  <2>1. CASE base = stack[t]
    BY <2>1, TopType
  <2>2. CASE base = Front(stack[t]) /\ Len(stack[t]) > 1
    <3>1. /\ stack[t] \in Seq(FrameType) /\ Len(stack[t]) \in Nat \ {0}
          /\ Len(base) = Len(stack[t]) - 1 /\ \A d \in 1 .. Len(stack[t]) - 1 : base[d] = stack[t][d]
      BY <2>2, TopType, UnderAtHand
    <3>2. Len(base) \in Nat \ {0} /\ Len(base) <= Len(stack[t])
      BY <2>2, <3>1
    <3>3. \A d \in 1 .. Len(base) : base[d] = stack[t][d]
      BY <3>1
    <3> QED
      BY <3>1, <3>2, <3>3
  <2> QED
    BY <2>1, <2>2
<1>3. new # <<>>
  BY <1>1, <1>2
<1>4. ASSUME NEW d \in 1 .. Len(base)
      PROVE  FrameOK(t, d)'
  <2>1. FrameOK(t, d) /\ stack[t][d] \in FrameType /\ d \in 1 .. Len(stack[t])
    BY <1>2, <1>4 DEF Inv, Frames
  <2>2. d \in Nat /\ Len(base) \in Nat /\ (d < Len(base) \/ d = Len(base))
    BY <1>2, <1>4
  <2>3. d > 1 => new[d - 1] = stack[t][d - 1]
    BY <1>1, <1>2, <1>4
  <2>4. /\ stack[t][d].name[1] \in Thread \cup Module
        /\ stack[t][d].part > 0 => /\ stack[t][d].at <= Len(Code(stack[t][d]))
                                   /\ stack[t][d].part < Len(At(stack[t][d]).path)
        /\ d > 1 => /\ stack[t][d].name[1] \in Module
                    /\ stack[t][d].run \in 1 .. runs[stack[t][d].name[1]]
                    /\ stack[t][d].name = NameOf(stack[t][d - 1])
        /\ d \in Busy(t) => AtHand(stack[t][d])
    BY <2>1 DEF FrameOK
  <2>5. d > 1 => stack[t][d].run \in 1 .. runs'[stack[t][d].name[1]]
    <3>1. runs \in [Module -> Nat]
      BY DEF Inv, Types
    <3> QED
      BY <2>4, <3>1, RunsKeep
  <2>6. Forward(stack[t][d], new[d])
    <3>1. CASE d < Len(base)
      <4>1. new[d] = stack[t][d]
        BY <1>1, <1>2, <1>4, <2>2, <3>1
      <4> QED
        BY <4>1 DEF Forward
    <3>2. CASE d = Len(base)
      <4>1. base[d] = stack[t][d]
        BY <1>2, <1>4
      <4> QED
        BY <1>1, <3>2, <4>1
    <3> QED
      BY <2>2, <3>1, <3>2
  <2>7. /\ new[d].name = stack[t][d].name /\ new[d].run = stack[t][d].run
        /\ new[d].part > 0 => new[d].at <= Len(Code(new[d])) /\ new[d].part < Len(At(new[d]).path)
    BY <2>1, <2>4, <2>6, ForwardKeeps DEF Inv
  <2>8. d \in Busy(t)' => AtHand(new[d])
    <3>1. CASE d < Len(base)
      <4>1. d \in Busy(t) /\ new[d] = stack[t][d]
        <5>1. d \in 1 .. Len(stack[t]) - 1 /\ new[d] = stack[t][d]
          BY <1>1, <1>2, <1>4, <2>2, <3>1
        <5> QED
          BY <1>2, <5>1, BusyBelow
      <4> QED
        BY <2>4, <4>1
    <3>2. CASE d = Len(base) /\ doing'[t] = "read"
      <4>1. new = stack[t] /\ AtHand(Top(t))
        BY <3>2 DEF GoesOn
      <4> QED
        BY <1>1, <3>2, <4>1 DEF Top
    <3>3. CASE d = Len(base) /\ doing'[t] # "read"
      <4>1. Busy(t)' = 1 .. Len(new) - 1
        BY <3>3 DEF Busy
      <4>2. Len(base) \notin 1 .. Len(base) - 1
        BY <1>2
      <4> QED
        BY <1>1, <3>3, <4>1, <4>2
    <3> QED
      BY <2>2, <3>1, <3>2, <3>3
  <2>9. d > 1 => /\ new[d].name[1] \in Module /\ new[d].run \in 1 .. runs'[new[d].name[1]]
                 /\ new[d].name = NameOf(new[d - 1])
    BY <2>3, <2>4, <2>5, <2>7
  <2> QED
    BY <2>4, <2>7, <2>8, <2>9, FrameOKNext
<1> QED
  BY <1>1, <1>3, <1>4

(* A body begins. *)
LEMMA FramesPush ==
  ASSUME Inv, NEW t \in Thread, script' = script, NEW new, Pushes(t, new), stack'[t] = new,
         runs' \in [Module -> Nat], \A m \in Module : runs'[m] >= runs[m]
  PROVE  stack'[t] # <<>> /\ \A d \in 1 .. Len(stack'[t]) : FrameOK(t, d)'
<1> DEFINE m == Name(t)[1]
           frame == Frame(Name(t), runs'[m])
<1>1. /\ new = Append(stack[t], frame) /\ m \in Module /\ doing[t] = "read"
      /\ runs' = [runs EXCEPT ![m] = @ + 1] /\ doing' = [doing EXCEPT ![t] = "next"]
  BY DEF Pushes
<1>2. /\ stack[t] \in Seq(FrameType) /\ Len(stack[t]) \in Nat \ {0} /\ Name(t) = NameOf(Top(t))
      /\ Name(t) \in Seq(Module \cup Thread \cup Nat) /\ AtHand(Top(t))
  BY <1>1, TopType, ImportAtHand
<1>3. runs'[m] \in Nat /\ runs'[m] \in 1 .. runs'[m]
  <2>1. runs \in [Module -> Nat]
    BY DEF Inv, Types
  <2> HIDE DEF m
  <2>2. runs'[m] = runs[m] + 1 /\ runs[m] \in Nat
    BY <1>1, <2>1
  <2> QED
    BY <2>2
<1>4. frame \in FrameType
  BY <1>2, <1>3, FrameIsFrame
<1>5. /\ new \in Seq(FrameType) /\ Len(new) = Len(stack[t]) + 1 /\ new[Len(stack[t]) + 1] = frame
      /\ \A d \in 1 .. Len(stack[t]) : new[d] = stack[t][d]
  <2> HIDE DEF frame
  <2> QED
    BY <1>1, <1>2, <1>4
<1>6. doing'[t] # "read"
  BY <1>1 DEF Inv, Types
<1>7. Busy(t)' = 1 .. Len(new) - 1
  BY <1>6 DEF Busy
<1>8. ASSUME NEW d \in 1 .. Len(stack[t])
      PROVE  FrameOK(t, d)'
  <2>1. FrameOK(t, d) /\ new[d] = stack[t][d] /\ d \in Nat
    BY <1>2, <1>5 DEF Inv, Frames
  <2>2. d > 1 => new[d - 1] = stack[t][d - 1]
    BY <1>2, <1>5, <1>8
  <2>3. d \in Busy(t)
    <3>1. d \in 1 .. Len(stack[t]) - 0
      BY <1>2, <1>8
    <3> QED
      BY <1>1, <3>1 DEF Busy
  <2>4. /\ stack[t][d].name[1] \in Thread \cup Module
        /\ stack[t][d].part > 0 => /\ stack[t][d].at <= Len(Code(stack[t][d]))
                                   /\ stack[t][d].part < Len(At(stack[t][d]).path)
        /\ d > 1 => /\ stack[t][d].name[1] \in Module
                    /\ stack[t][d].run \in 1 .. runs[stack[t][d].name[1]]
                    /\ stack[t][d].name = NameOf(stack[t][d - 1])
        /\ AtHand(stack[t][d])
    BY <2>1, <2>3 DEF FrameOK
  <2>5. d > 1 => stack[t][d].run \in 1 .. runs'[stack[t][d].name[1]]
    <3>1. runs \in [Module -> Nat]
      BY DEF Inv, Types
    <3> QED
      BY <2>4, <3>1, RunsKeep
  <2> QED
    BY <2>1, <2>2, <2>4, <2>5, FrameOKNext
<1>9. ASSUME NEW n, n = Len(stack[t]) + 1
      PROVE  FrameOK(t, n)'
  <2>1. n - 1 = Len(stack[t]) /\ n \notin 1 .. Len(new) - 1 /\ Len(stack[t]) \in 1 .. Len(stack[t])
    BY <1>2, <1>5, <1>9
  <2>2. stack'[t][n] = frame /\ stack'[t][n - 1] = Top(t)
    BY <1>5, <1>9, <2>1 DEF Top
  <2>3. frame.name = Name(t) /\ frame.run = runs'[m] /\ frame.part = 0
    BY DEF Frame
  <2>4. n \notin Busy(t)'
    BY <1>7, <2>1
  <2>5. ~(frame.part > 0)
    BY <2>3
  <2> HIDE DEF frame
  <2>6. frame.name[1] \in Module /\ frame.run \in 1 .. runs'[frame.name[1]] /\ frame.name = NameOf(Top(t))
    BY <1>1, <1>2, <1>3, <2>3
  <2> QED
    BY <2>2, <2>4, <2>5, <2>6, FrameOKNext
<1>10. \A d \in 1 .. Len(new) : d \in 1 .. Len(stack[t]) \/ d = Len(stack[t]) + 1
  BY <1>2, <1>5
<1>11. new # <<>>
  BY <1>2, <1>5
<1> QED
  BY <1>8, <1>9, <1>10, <1>11

(* The stacks of the other threads stay. *)
LEMMA FramesElsewhere ==
  ASSUME Inv, NEW u \in Thread, script' = script, stack'[u] = stack[u], doing'[u] = doing[u],
         runs' \in [Module -> Nat], \A m \in Module : runs'[m] >= runs[m]
  PROVE  stack'[u] # <<>> /\ \A d \in 1 .. Len(stack'[u]) : FrameOK(u, d)'
<1>1. Busy(u)' = Busy(u)
  BY DEF Busy
<1>2. ASSUME NEW d \in 1 .. Len(stack[u])
      PROVE  FrameOK(u, d)'
  <2>1. FrameOK(u, d)
    BY DEF Inv, Frames
  <2>2. d > 1 => stack[u][d].run \in 1 .. runs'[stack[u][d].name[1]]
    <3>1. runs \in [Module -> Nat]
      BY DEF Inv, Types
    <3> QED
      BY <2>1, <3>1, RunsKeep DEF FrameOK
  <2> QED
    BY <1>1, <2>1, <2>2, FrameOKNext DEF FrameOK
<1> QED
  BY <1>2 DEF Inv, Frames

LEMMA FramesStep ==
  ASSUME Inv, NEW t \in Thread, Step(t)
  PROVE  Frames' /\ stack' \in [Thread -> Seq(FrameType)]
<1>1. script' = script /\ runs' \in [Module -> Nat] /\ \A m \in Module : runs'[m] >= runs[m]
  BY ScriptStays, RunsStep
<1>2. StackStep(t) /\ \A u \in Thread \ {t} : doing'[u] = doing[u]
  BY StepShape
<1>3. PICK new \in Seq(FrameType) :
         /\ stack' = [stack EXCEPT ![t] = new]
         /\ \/ Pushes(t, new)
            \/ GoesOn(t, stack[t], new)
            \/ Len(stack[t]) > 1 /\ GoesOn(t, Front(stack[t]), new)
  BY <1>2 DEF StackStep
<1>4. stack \in [Thread -> Seq(FrameType)]
  BY DEF Inv, Types
<1>5. stack'[t] = new /\ \A u \in Thread \ {t} : stack'[u] = stack[u]
  BY <1>3, <1>4
<1>6. stack'[t] # <<>> /\ \A d \in 1 .. Len(stack'[t]) : FrameOK(t, d)'
  <2>1. CASE Pushes(t, new)
    BY <1>1, <1>5, <2>1, FramesPush
  <2>2. CASE GoesOn(t, stack[t], new)
    BY <1>1, <1>5, <2>2, FramesGoOn
  <2>3. CASE Len(stack[t]) > 1 /\ GoesOn(t, Front(stack[t]), new)
    BY <1>1, <1>5, <2>3, FramesGoOn
  <2> QED
    BY <1>3, <2>1, <2>2, <2>3
<1>7. ASSUME NEW u \in Thread, u # t
      PROVE  stack'[u] # <<>> /\ \A d \in 1 .. Len(stack'[u]) : FrameOK(u, d)'
  BY <1>1, <1>2, <1>5, <1>7, FramesElsewhere
<1>8. Frames'
  BY <1>6, <1>7 DEF Frames
<1> QED
  BY <1>3, <1>4, <1>8

-----------------------------------------------------------------------------
(* The invariants that the runs check follow from Frames and from these.   *)

Rest ==
    /\ \A f \in finished : f[1] \in Module /\ f[2] \in 1 .. runs[f[1]]
    /\ \A n \in DOMAIN cache : <<n[1], cache[n]>> \in finished
    /\ \A n \in DOMAIN globals : <<n[1], globals[n]>> \in finished
    /\ logger \in BOOLEAN
    /\ crashed \in {"no", "null", "overflow"}
    /\ \A t \in Thread : Len(stack[t]) <= MaxDepth + 1

IInv == Inv /\ Thrown /\ Rest

LEMMA NewRun ==
  ASSUME NEW old \in [Module -> Nat], NEW m \in Module, NEW new, new = [old EXCEPT ![m] = @ + 1]
  PROVE  new[m] \in 1 .. new[m]
<1>1. new[m] = old[m] + 1 /\ old[m] \in Nat
  OBVIOUS
<1> QED
  BY <1>1

(* What becomes of cache and finished.                                     *)
LEMMA CacheShape ==
  ASSUME Inv, NEW t \in Thread, Step(t)
  PROVE  \/ cache' = cache /\ finished' = finished
         \/ \E name, run : /\ name[1] \in Module /\ run \in 1 .. runs'[name[1]]
                           /\ Bind(name, run) /\ finished' = finished \cup {<<name[1], run>>}
<1>1. CASE BuiltIn(t)
  <2>1. Importing(t) /\ runs' = [runs EXCEPT ![Name(t)[1]] = @ + 1]
    BY <1>1 DEF BuiltIn
  <2>2. Name(t)[1] \in Module
    BY <2>1, ImportAtHand
  <2>3. runs'[Name(t)[1]] \in 1 .. runs'[Name(t)[1]]
    BY <2>1, <2>2, NewRun DEF Inv, Types
  <2> QED
    BY <1>1, <2>2, <2>3 DEF BuiltIn
<1>2. CASE Return(t)
  <2>1. Top(t).name[1] \in Module /\ Top(t).run \in 1 .. runs[Top(t).name[1]] /\ runs' = runs
    BY <1>2, UnderAtHand DEF Return
  <2> QED
    BY <1>2, <2>1 DEF Return
<1>3. CASE LookUp(t) \/ Search(t) \/ NotFound(t) \/ NullModule(t) \/ Broken(t) \/ Run(t)
           \/ End(t) \/ Throw(t) \/ Catch(t) \/ Fail(t)
  BY <1>3 DEF LookUp, Search, NotFound, NullModule, Broken, Run, End, Throw, Catch, Fail, modules
<1> QED
  BY <1>1, <1>2, <1>3 DEF Step

(* What can be looked up and what has finished are runs that there are,    *)
(* and what can be looked up has finished.                                 *)
LEMMA CacheStep ==
  ASSUME Inv, Rest, NEW t \in Thread, Step(t)
  PROVE  /\ \A n \in DOMAIN cache' : n[1] \in Module /\ cache'[n] \in 1 .. runs'[n[1]]
         /\ \A f \in finished' : f[1] \in Module /\ f[2] \in 1 .. runs'[f[1]]
         /\ \A n \in DOMAIN cache' : <<n[1], cache'[n]>> \in finished'
<1>1. /\ runs \in [Module -> Nat] /\ runs' \in [Module -> Nat]
      /\ \A m \in Module : runs'[m] >= runs[m]
  BY RunsStep DEF Inv, Types
<1>2. /\ \A n \in DOMAIN cache : n[1] \in Module /\ cache[n] \in 1 .. runs'[n[1]]
      /\ \A f \in finished : f[1] \in Module /\ f[2] \in 1 .. runs'[f[1]]
  <2>1. ASSUME NEW n \in DOMAIN cache
        PROVE  n[1] \in Module /\ cache[n] \in 1 .. runs'[n[1]]
    BY <1>1, RunsKeep DEF Inv, Types
  <2>2. ASSUME NEW f \in finished
        PROVE  f[1] \in Module /\ f[2] \in 1 .. runs'[f[1]]
    BY <1>1, RunsKeep DEF Rest
  <2> QED
    BY <2>1, <2>2
<1>3. CASE cache' = cache /\ finished' = finished
  BY <1>2, <1>3 DEF Rest
<1>4. ASSUME NEW name, NEW run, name[1] \in Module, run \in 1 .. runs'[name[1]],
             Bind(name, run), finished' = finished \cup {<<name[1], run>>}
      PROVE  /\ \A n \in DOMAIN cache' : n[1] \in Module /\ cache'[n] \in 1 .. runs'[n[1]]
             /\ \A f \in finished' : f[1] \in Module /\ f[2] \in 1 .. runs'[f[1]]
             /\ \A n \in DOMAIN cache' : <<n[1], cache'[n]>> \in finished'
  <2>1. DOMAIN cache' = DOMAIN cache \cup {name} /\ cache'[name] = run
        /\ \A n \in DOMAIN cache : n # name => cache'[n] = cache[n]
    BY <1>4 DEF Bind
  <2>2. ASSUME NEW n \in DOMAIN cache'
        PROVE  /\ n[1] \in Module /\ cache'[n] \in 1 .. runs'[n[1]]
               /\ <<n[1], cache'[n]>> \in finished'
    <3>1. CASE n = name
      BY <1>4, <2>1, <3>1
    <3>2. CASE n # name
      <4>1. n \in DOMAIN cache /\ cache'[n] = cache[n]
        BY <2>1, <3>2
      <4> QED
        BY <1>2, <1>4, <4>1 DEF Rest
    <3> QED
      BY <3>1, <3>2
  <2>3. ASSUME NEW f \in finished'
        PROVE  f[1] \in Module /\ f[2] \in 1 .. runs'[f[1]]
    BY <1>2, <1>4
  <2> QED
    BY <2>2, <2>3
<1> QED
  BY <1>3, <1>4, CacheShape

(* What a body imports has finished. *)
LEMMA StoresFinished ==
  ASSUME Types, NEW f \in FrameType, f.name[1] \in Thread \cup Module, AtHand(f),
         NEW run, Stores(f, run), f.part = 0 => <<NameOf(f)[1], run>> \in finished',
         finished \subseteq finished', \A n \in DOMAIN globals : <<n[1], globals[n]>> \in finished
  PROVE  \A n \in DOMAIN globals' : <<n[1], globals'[n]>> \in finished'
<1>1. CASE f.part = 0 /\ f.name[1] \in Module
  <2>1. PICK path : path = At(f).path
    OBVIOUS
  <2>2. PICK name : name = <<path[1], f.name[1], f.run>>
    OBVIOUS
  <2>3. globals' = [n \in DOMAIN globals \cup {name} |-> IF n = name THEN run ELSE globals[n]]
    BY <1>1, <2>1, <2>2 DEF Stores, At
  <2>4. <<name[1], run>> \in finished'
    <3>1. NameOf(f) = <<path[1]>>
      BY <1>1, <2>1 DEF NameOf
    <3> QED
      BY <1>1, <2>2, <3>1
  <2> QED
    BY <2>3, <2>4
<1>2. CASE ~(f.part = 0 /\ f.name[1] \in Module)
  BY <1>2 DEF Stores
<1> QED
  BY <1>1, <1>2

LEMMA GlobalsFinished ==
  ASSUME Inv, Rest, NEW t \in Thread, Step(t)
  PROVE  \A n \in DOMAIN globals' : <<n[1], globals'[n]>> \in finished'
<1>1. finished \subseteq finished' /\ \A n \in DOMAIN globals : <<n[1], globals[n]>> \in finished
  BY CacheShape DEF Rest
<1>2. CASE LookUp(t)
  <2>1. Importing(t) /\ Stores(Top(t), RunOf(Name(t))) /\ Known(Name(t))
    BY <1>2 DEF LookUp
  <2>2. /\ AtHand(Top(t)) /\ Name(t) = NameOf(Top(t)) /\ Top(t) \in FrameType
        /\ Top(t).name[1] \in Thread \cup Module
    BY <2>1, ImportAtHand, TopType
  <2>3. ASSUME Top(t).part = 0
        PROVE  <<Name(t)[1], RunOf(Name(t))>> \in finished'
    <3>1. ~IsSub(Name(t))
      BY <2>2, <2>3, NameType DEF Inv
    <3>2. Name(t) \in DOMAIN cache
      BY <2>1, <3>1 DEF Known
    <3> QED
      BY <1>1, <3>2 DEF Rest, RunOf
  <2> QED
    BY <1>1, <2>1, <2>2, <2>3, StoresFinished DEF Inv
<1>3. CASE BuiltIn(t)
  <2>1. /\ Importing(t) /\ Stores(Top(t), runs'[Name(t)[1]])
        /\ <<Name(t)[1], runs'[Name(t)[1]]>> \in finished'
    BY <1>3 DEF BuiltIn
  <2>2. /\ AtHand(Top(t)) /\ Name(t) = NameOf(Top(t)) /\ Top(t) \in FrameType
        /\ Top(t).name[1] \in Thread \cup Module
    BY <2>1, ImportAtHand, TopType
  <2> QED
    BY <1>1, <2>1, <2>2, StoresFinished DEF Inv
<1>4. CASE Return(t)
  <2>1. /\ Len(stack[t]) > 1 /\ Stores(Under(t), Top(t).run)
        /\ <<Top(t).name[1], Top(t).run>> \in finished'
    BY <1>4 DEF Return
  <2>2. /\ AtHand(Under(t)) /\ Top(t).name = NameOf(Under(t)) /\ Under(t) \in FrameType
        /\ Under(t).name[1] \in Thread \cup Module
    BY <2>1, UnderAtHand
  <2> QED
    BY <1>1, <2>1, <2>2, StoresFinished DEF Inv
<1>5. CASE Search(t) \/ NotFound(t) \/ NullModule(t) \/ Broken(t) \/ Run(t)
           \/ End(t) \/ Throw(t) \/ Catch(t) \/ Fail(t)
  <2>1. globals' = globals
    BY <1>5 DEF Search, NotFound, NullModule, Broken, Run, End, Throw, Catch, Fail
  <2> QED
    BY <1>1, <2>1
<1> QED
  BY <1>2, <1>3, <1>4, <1>5 DEF Step

LEMMA GlobalsStep ==
  ASSUME Inv, Rest, NEW t \in Thread, Step(t)
  PROVE  \A n \in DOMAIN globals' : n[1] \in Module /\ globals'[n] \in 1 .. runs'[n[1]]
<1>1. ASSUME NEW n \in DOMAIN globals'
      PROVE  n[1] \in Module /\ globals'[n] \in 1 .. runs'[n[1]]
  <2>1. PICK run : run = globals'[n]
    OBVIOUS
  <2>2. PICK f : f = <<n[1], run>>
    OBVIOUS
  <2>3. f \in finished' /\ f[1] = n[1] /\ f[2] = run
    BY <2>1, <2>2, GlobalsFinished
  <2>4. f[1] \in Module /\ f[2] \in 1 .. runs'[f[1]]
    BY <2>3, CacheStep
  <2> QED
    BY <2>1, <2>3, <2>4
<1> QED
  BY <1>1

LEMMA TypesStep ==
  ASSUME Inv, Rest, NEW t \in Thread, Step(t)
  PROVE  Types'
<1>1. script' \in [Thread -> Seq(Statement)]
  BY ScriptStays DEF Inv, Types
<1> QED
  BY <1>1, RunsStep, FramesStep, StepShape, CacheStep, GlobalsStep DEF Types

(* A step that goes on behind an import throws only what is pending. *)
LEMMA ContinueThrows ==
  ASSUME Inv, NEW t \in Thread, NEW frames, NEW run, NEW pending,
         Continue(t, frames, run, pending)
  PROVE  /\ exc' = [exc EXCEPT ![t] = pending]
         /\ \/ doing' = [doing EXCEPT ![t] = "next"]
            \/ doing' = [doing EXCEPT ![t] = "throw"] /\ pending # "none"
<1> DEFINE top == frames[Len(frames)]
<1>1. CASE top.part + 1 < Len(Code(top)[top.at].path)
  BY <1>1 DEF Continue, Raise, Goto
<1>2. CASE ~(top.part + 1 < Len(Code(top)[top.at].path))
           /\ Code(top)[top.at].within = "finally" /\ pending # "none"
  BY <1>2 DEF Continue, Raise, Goto
<1>3. CASE ~(top.part + 1 < Len(Code(top)[top.at].path))
           /\ ~(Code(top)[top.at].within = "finally" /\ pending # "none")
  BY <1>3 DEF Continue, Raise, Goto
<1> QED
  BY <1>1, <1>2, <1>3

LEMMA ThrownStep ==
  ASSUME Inv, Thrown, NEW t \in Thread, Step(t)
  PROVE  Thrown'
<1>0. exc \in [Thread -> Exceptions] /\ doing \in [Thread -> Doings]
  BY DEF Inv, Types
<1>1. ASSUME NEW x, NEW l, exc' = [exc EXCEPT ![t] = x], doing' = [doing EXCEPT ![t] = l],
             l \in {"throw", "died"} => x # "none"
      PROVE  Thrown'
  BY <1>0, <1>1 DEF Thrown
<1>2. ASSUME NEW frames, NEW run, NEW pending, Continue(t, frames, run, pending)
      PROVE  Thrown'
  <2>1. PICK l \in Doings : /\ exc' = [exc EXCEPT ![t] = pending] /\ doing' = [doing EXCEPT ![t] = l]
                            /\ l \in {"throw", "died"} => pending # "none"
    BY <1>2, ContinueThrows DEF Doings
  <2> QED
    BY <1>1, <2>1
<1>3. CASE LookUp(t)
  BY <1>2, <1>3 DEF LookUp
<1>4. CASE BuiltIn(t)
  BY <1>2, <1>4 DEF BuiltIn
<1>5. CASE Search(t)
  <2>1. doing' = [doing EXCEPT ![t] = "read"] /\ \E x : exc' = [exc EXCEPT ![t] = x]
    BY <1>5 DEF Search, Goto, Raise
  <2> QED
    BY <1>1, <2>1
<1>6. CASE NotFound(t)
  <2>1. CASE IsSub(Name(t))
    <3>1. \E x \in {"ImportError", "KeyError"} : Continue(t, stack[t], 0, x)
      BY <1>6, <2>1 DEF NotFound
    <3> QED
      BY <1>2, <3>1
  <2>2. CASE ~IsSub(Name(t))
    BY <1>1, <1>6, <2>2 DEF NotFound, Raise, Goto
  <2> QED
    BY <2>1, <2>2
<1>7. CASE NullModule(t)
  BY <1>7 DEF NullModule, Thrown
<1>8. CASE Broken(t)
  <2>1. CASE IsSub(Name(t))
    BY <1>2, <1>8, <2>1 DEF Broken
  <2>2. CASE ~IsSub(Name(t))
    BY <1>1, <1>8, <2>2 DEF Broken, Raise, Goto
  <2> QED
    BY <2>1, <2>2
<1>9. CASE Run(t)
  <2>1. exc' = exc /\ (doing' = doing \/ doing' = [doing EXCEPT ![t] = "next"])
    BY <1>9 DEF Run, Goto
  <2> QED
    BY <1>0, <2>1 DEF Thrown
<1>10. CASE Return(t)
  BY <1>2, <1>10 DEF Return
<1>11. CASE End(t)
  <2>1. exc' = exc /\ doing' = [doing EXCEPT ![t] = "ended"]
    BY <1>11 DEF End, Goto
  <2> QED
    BY <1>0, <2>1 DEF Thrown
<1>12. CASE Throw(t)
  BY <1>1, <1>12 DEF Throw, Raise, Goto
<1>13. CASE Catch(t)
  <2>1. exc' = [exc EXCEPT ![t] = "none"] /\ doing' = [doing EXCEPT ![t] = "next"]
    BY <1>13 DEF Catch, Raise, Goto
  <2> QED
    BY <1>1, <2>1
<1>14. CASE Fail(t)
  <2>0. doing[t] = "throw" /\ exc[t] # "none"
    BY <1>14 DEF Fail, Thrown
  <2>1. CASE Len(stack[t]) = 1
    <3>1. exc' = exc /\ doing' = [doing EXCEPT ![t] = "died"]
      BY <1>14, <2>1 DEF Fail, Goto
    <3> QED
      BY <1>0, <2>0, <3>1 DEF Thrown
  <2>2. CASE Len(stack[t]) # 1 /\ IsSub(Top(t).name)
    BY <1>2, <1>14, <2>2 DEF Fail
  <2>3. CASE Len(stack[t]) # 1 /\ ~IsSub(Top(t).name)
    BY <1>14, <2>3 DEF Fail, Thrown
  <2> QED
    BY <2>1, <2>2, <2>3
<1> QED
  BY <1>3, <1>4, <1>5, <1>6, <1>7, <1>8, <1>9, <1>10, <1>11, <1>12, <1>13, <1>14 DEF Step

(* A stack grows by a frame, and never over the edge. *)
LEMMA DepthStep ==
  ASSUME Inv, Rest, NEW t \in Thread, Step(t)
  PROVE  \A u \in Thread : Len(stack'[u]) <= MaxDepth + 1
<1>1. PICK new \in Seq(FrameType) :
         /\ stack' = [stack EXCEPT ![t] = new]
         /\ \/ Pushes(t, new)
            \/ GoesOn(t, stack[t], new)
            \/ Len(stack[t]) > 1 /\ GoesOn(t, Front(stack[t]), new)
  BY StepShape DEF StackStep
<1>2. stack \in [Thread -> Seq(FrameType)]
  BY DEF Inv, Types
<1>3. /\ stack[t] \in Seq(FrameType) /\ Len(stack[t]) \in Nat /\ Len(stack[t]) <= MaxDepth + 1
      /\ MaxDepth \in Nat
  BY <1>2, MaxDepthAssumption DEF Rest
<1>4. Len(new) <= MaxDepth + 1
  <2>1. CASE Pushes(t, new)
    <3>1. Len(new) = Len(stack[t]) + 1 /\ ~(Len(stack[t]) > MaxDepth)
      BY <1>3, <2>1 DEF Pushes
    <3> QED
      BY <1>3, <3>1
  <2>2. CASE GoesOn(t, stack[t], new)
    BY <1>3, <2>2 DEF GoesOn, LastForward
  <2>3. CASE Len(stack[t]) > 1 /\ GoesOn(t, Front(stack[t]), new)
    <3>1. Len(new) = Len(stack[t]) - 1
      BY <2>3, UnderAtHand DEF GoesOn, LastForward
    <3> QED
      BY <1>3, <3>1
  <2> QED
    BY <1>1, <2>1, <2>2, <2>3
<1> QED
  BY <1>1, <1>2, <1>4 DEF Rest

LEMMA FlagsStep ==
  ASSUME Rest, NEW t \in Thread, Step(t)
  PROVE  logger' \in BOOLEAN /\ crashed' \in {"no", "null", "overflow"}
<1>1. logger \in BOOLEAN /\ crashed \in {"no", "null", "overflow"}
  BY DEF Rest
<1>2. CASE Run(t)
  BY <1>1, <1>2 DEF Run
<1>3. CASE LookUp(t) \/ BuiltIn(t) \/ Search(t) \/ NotFound(t) \/ NullModule(t) \/ Broken(t)
           \/ Return(t) \/ End(t) \/ Throw(t) \/ Catch(t) \/ Fail(t)
  BY <1>1, <1>3 DEF LookUp, BuiltIn, Search, NotFound, NullModule, Broken, Return, End, Throw, Catch, Fail
<1> QED
  BY <1>2, <1>3 DEF Step

LEMMA InitInv ==
  Init => IInv
<1> SUFFICES ASSUME Init PROVE IInv
  OBVIOUS
<1>1. script \in [Thread -> Seq(Statement)]
  BY ScriptsAssumption DEF Init
<1>2. /\ cache = [name \in {} |-> 0] /\ globals = [name \in {} |-> 0] /\ runs = [m \in Module |-> 0] /\ finished = {} /\ logger = FALSE
      /\ stack = [t \in Thread |-> <<Frame(<<t>>, 0)>>] /\ exc = [t \in Thread |-> "none"]
      /\ doing = [t \in Thread |-> "next"] /\ crashed = "no"
  BY DEF Init
<1>3. ASSUME NEW t \in Thread
      PROVE  /\ <<Frame(<<t>>, 0)>> \in Seq(FrameType) /\ Len(stack[t]) = 1
             /\ stack[t][1].name[1] = t /\ stack[t][1].part = 0 /\ stack[t] # <<>>
  <2>1. Frame(<<t>>, 0) \in FrameType /\ Frame(<<t>>, 0).name[1] = t /\ Frame(<<t>>, 0).part = 0
    BY DEF Frame, FrameType
  <2>2. stack[t] = <<Frame(<<t>>, 0)>>
    BY <1>2
  <2> HIDE DEF Frame
  <2> QED
    BY <2>1, <2>2
<1>4. exc \in [Thread -> Exceptions] /\ doing \in [Thread -> Doings] /\ stack \in [Thread -> Seq(FrameType)]
  BY <1>2, <1>3 DEF Exceptions, Doings
<1>5. Types
  BY <1>1, <1>2, <1>4 DEF Types
<1>6. ASSUME NEW t \in Thread
      PROVE  stack[t] # <<>> /\ \A d \in 1 .. Len(stack[t]) : FrameOK(t, d)
  <2>1. Len(stack[t]) = 1 /\ stack[t][1].name[1] = t /\ stack[t][1].part = 0 /\ stack[t] # <<>>
    BY <1>3
  <2>2. Busy(t) = {}
    <3>1. doing[t] # "read"
      BY <1>2
    <3> QED
      BY <2>1, <3>1 DEF Busy
  <2>3. FrameOK(t, 1)
    BY <2>1, <2>2 DEF FrameOK
  <2> QED
    BY <2>1, <2>3
<1>7. Thrown
  BY <1>2 DEF Thrown
<1>8. Rest
  <2>1. \A t \in Thread : Len(stack[t]) <= MaxDepth + 1
    <3>1. MaxDepth + 1 >= 1
      BY MaxDepthAssumption
    <3> QED
      BY <1>3, <3>1
  <2> QED
    BY <1>2, <2>1 DEF Rest
<1> QED
  BY <1>5, <1>6, <1>7, <1>8 DEF IInv, Inv, Frames

LEMMA NextInv ==
  IInv /\ [Next]_vars => IInv'
<1> SUFFICES ASSUME IInv, [Next]_vars PROVE IInv'
  OBVIOUS
<1>1. ASSUME NEW t \in Thread, Step(t)
      PROVE  IInv'
  <2>1. Rest'
    BY <1>1, CacheStep, GlobalsFinished, DepthStep, FlagsStep DEF Rest, IInv
  <2>2. Inv' /\ Thrown'
    BY <1>1, TypesStep, FramesStep, ThrownStep DEF Inv, IInv
  <2> QED
    BY <2>1, <2>2 DEF IInv
<1>2. CASE UNCHANGED vars
  <2>1. Types' /\ Thrown' /\ Rest'
    BY <1>2 DEF IInv, Inv, vars, modules, Types, Thrown, Rest
  <2>2. ASSUME NEW u \in Thread
        PROVE  stack'[u] # <<>> /\ \A d \in 1 .. Len(stack'[u]) : FrameOK(u, d)'
    <3>1. script' = script /\ stack'[u] = stack[u] /\ doing'[u] = doing[u]
          /\ runs' = runs /\ runs \in [Module -> Nat]
      BY <1>2 DEF vars, modules, IInv, Inv, Types
    <3>2. \A m \in Module : runs'[m] >= runs[m]
      BY <3>1
    <3> QED
      BY <3>1, <3>2, FramesElsewhere DEF IInv
  <2> QED
    BY <2>1, <2>2 DEF IInv, Inv, Frames
<1> QED
  BY <1>1, <1>2 DEF Next

(* The stacks are those of imports under way, and what can be looked up    *)
(* is of runs that have finished: the invariant that all else follows from. *)
THEOREM Invariant == Spec => []IInv
  BY InitInv, NextInv, PTL DEF Spec

(* No thread sees a module half made, nor one whose body threw             *)
(* (import.c:253): what can be looked up has run to its end, and so has    *)
(* what a body has imported.                                               *)
THEOREM Complete == Spec => []CachedIsComplete
<1>1. ASSUME IInv
      PROVE  CachedIsComplete
  <2>1. /\ \A n \in DOMAIN cache : n[1] \in Module /\ cache[n] \in 1 .. runs[n[1]]
        /\ \A n \in DOMAIN globals : n[1] \in Module /\ globals[n] \in 1 .. runs[n[1]]
        /\ runs \in [Module -> Nat]
        /\ exc \in [Thread -> {"none", "Error", "KeyError", "ImportError", "SyntaxError"}]
        /\ doing \in [Thread -> {"next", "read", "throw", "ended", "died"}]
    BY <1>1 DEF IInv, Inv, Types, Exceptions, Doings
  <2>2. \A t \in Thread : Len(stack[t]) \in 1 .. MaxDepth + 1
    <3>1. ASSUME NEW t \in Thread
          PROVE  Len(stack[t]) \in 1 .. MaxDepth + 1
      <4>1. Len(stack[t]) \in Nat \ {0} /\ Len(stack[t]) <= MaxDepth + 1 /\ MaxDepth \in Nat
        BY <1>1, TopType, MaxDepthAssumption DEF IInv, Rest
      <4> QED
        BY <4>1
    <3> QED
      BY <3>1
  <2>3. TypeOK
    BY <1>1, <2>1, <2>2 DEF TypeOK, IInv, Rest, Thrown
  <2> QED
    BY <1>1, <2>3 DEF CachedIsComplete, IInv, Rest
<1> QED
  BY <1>1, Invariant, PTL

-----------------------------------------------------------------------------
(* A module stays what it is, unless two imports of it overlapped.         *)

(* The depths at which a thread brings a module in, the one of which the   *)
(* file is read included, and the names of these modules.                  *)
Held(t) == 2 .. Len(stack[t]) + (IF doing[t] = "read" THEN 1 ELSE 0)
Brought(t, d) == NameOf(stack[t][d - 1])

(* What is brought in and can be looked up, or is brought in twice, has    *)
(* been noted.                                                             *)
Overlaps ==
    \A t \in Thread : \A d \in Held(t) :
        /\ Place[Brought(t, d)[1]] # "builtin"
        /\ Brought(t, d) \in DOMAIN cache => Brought(t, d) \in overlapped
        /\ \A u \in Thread : \A e \in Held(u) :
              Brought(t, d) = Brought(u, e) /\ (t # u \/ d # e) => Brought(t, d) \in overlapped

(* The top frame is of a module that is brought in.                        *)
LEMMA TopHeld ==
  ASSUME Inv, NEW t \in Thread, Len(stack[t]) > 1
  PROVE  Len(stack[t]) \in Held(t) /\ Brought(t, Len(stack[t])) = Top(t).name
<1>1. Len(stack[t]) \in Nat /\ Brought(t, Len(stack[t])) = NameOf(Under(t))
  BY TopType DEF Brought, Under
<1>2. CASE doing[t] = "read"
  BY <1>1, <1>2, UnderAtHand DEF Held
<1>3. CASE doing[t] # "read"
  <2>1. Len(stack[t]) \in 2 .. Len(stack[t]) + 0
    BY <1>1
  <2> QED
    BY <1>1, <1>3, <2>1, UnderAtHand DEF Held
<1> QED
  BY <1>2, <1>3

(* A body that ends leaves the stack.                                      *)
LEMMA ReturnPops ==
  ASSUME Inv, NEW t \in Thread, Return(t)
  PROVE  Len(stack'[t]) = Len(stack[t]) - 1 /\ doing'[t] # "read"
<1>1. Len(stack[t]) > 1 /\ Continue(t, Front(stack[t]), Top(t).run, exc[t])
  BY DEF Return
<1>2. /\ Front(stack[t]) \in Seq(FrameType) /\ Front(stack[t]) # <<>> /\ Len(Front(stack[t])) = Len(stack[t]) - 1
      /\ Front(stack[t])[Len(Front(stack[t]))].at <= Len(Code(Front(stack[t])[Len(Front(stack[t]))]))
  BY <1>1, UnderAtHand DEF AtHand
<1>3. Top(t).run \in Nat /\ exc[t] \in Exceptions
  BY TopType, PendingType DEF FrameType
<1>4. /\ doing' = [doing EXCEPT ![t] = "next"] \/ doing' = [doing EXCEPT ![t] = "throw"]
      /\ \E new \in Seq(FrameType) : stack' = [stack EXCEPT ![t] = new] /\ LastForward(Front(stack[t]), new)
  BY <1>1, <1>2, <1>3, ContinueForward DEF Inv
<1> QED
  BY <1>2, <1>4 DEF LastForward, Inv, Types

LEMMA BelowLast ==
  ASSUME NEW n \in Nat, NEW d \in 2 .. n
  PROVE  d - 1 \in 1 .. n - 1 /\ d \in Nat /\ d <= n
  OBVIOUS

(* What is brought in after a step was brought in before, or its file is   *)
(* searched now.                                                           *)
LEMMA HeldStep ==
  ASSUME Inv, NEW t \in Thread, Step(t), NEW u \in Thread, NEW d \in Held(u)'
  PROVE  \/ /\ d \in Held(u) /\ Brought(u, d)' = Brought(u, d)
            /\ Return(t) /\ u = t => d # Len(stack[t])
         \/ u = t /\ Search(t) /\ d = Len(stack[t]) + 1 /\ Brought(u, d)' = Name(t)
<1>1. PICK new \in Seq(FrameType) :
         /\ stack' = [stack EXCEPT ![t] = new]
         /\ \/ Pushes(t, new)
            \/ GoesOn(t, stack[t], new)
            \/ Len(stack[t]) > 1 /\ GoesOn(t, Front(stack[t]), new)
  BY StepShape DEF StackStep
<1>2. \A v \in Thread \ {t} : doing'[v] = doing[v]
  BY StepShape
<1>3. /\ stack \in [Thread -> Seq(FrameType)] /\ Len(stack[t]) \in Nat \ {0}
      /\ doing \in [Thread -> Doings]
  BY TopType DEF Inv, Types
<1>4. Brought(u, d)' = NameOf(stack'[u][d - 1])
  BY ScriptStays DEF Brought, NameOf, At, Code
<1>5. CASE u # t
  <2>1. stack'[u] = stack[u] /\ doing'[u] = doing[u]
    BY <1>1, <1>2, <1>3, <1>5
  <2> QED
    BY <1>4, <1>5, <2>1 DEF Held, Brought
<1>6. CASE u = t
  <2>0. stack'[t] = new /\ Len(new) \in Nat
    BY <1>1, <1>3
  <2>1. CASE Pushes(t, new)
    <3>1. /\ Len(new) = Len(stack[t]) + 1 /\ doing'[t] # "read" /\ doing[t] = "read"
          /\ \A e \in 1 .. Len(stack[t]) : new[e] = stack[t][e]
      <4> DEFINE frame == Frame(Name(t), runs'[Name(t)[1]])
      <4>1. new = Append(stack[t], frame) /\ doing' = [doing EXCEPT ![t] = "next"] /\ doing[t] = "read"
        BY <2>1 DEF Pushes
      <4>2. stack[t] \in Seq(FrameType)
        BY <1>3
      <4> HIDE DEF frame
      <4> QED
        BY <1>3, <4>1, <4>2
    <3>2. d \in 2 .. Len(new)
      <4>1. d \in 2 .. Len(new) + 0
        BY <1>6, <2>0, <3>1 DEF Held
      <4> QED
        BY <2>0, <4>1
    <3>3. d \in Held(t) /\ d - 1 \in 1 .. Len(stack[t])
      BY <1>3, <3>1, <3>2 DEF Held
    <3>4. ~Return(t)
      BY <3>1 DEF Return
    <3> QED
      BY <1>4, <1>6, <2>0, <3>1, <3>3, <3>4 DEF Brought
  <2>2. CASE doing'[t] = "read" /\ GoesOn(t, stack[t], new)
    <3>1. new = stack[t] /\ AtHand(Top(t)) /\ (doing[t] = "read" \/ Search(t))
      BY <2>2 DEF GoesOn
    <3>2. d \in 2 .. Len(stack[t]) + 1
      BY <1>6, <2>0, <2>2, <3>1 DEF Held
    <3>3. Brought(u, d)' = Brought(u, d)
      BY <1>4, <1>6, <2>0, <3>1 DEF Brought
    <3>4. ~Return(t)
      BY <2>2, ReturnPops
    <3>5. CASE doing[t] = "read"
      BY <1>6, <3>2, <3>3, <3>4, <3>5 DEF Held
    <3>6. CASE Search(t) /\ d = Len(stack[t]) + 1
      <4>1. Importing(t) /\ d - 1 = Len(stack[t])
        BY <1>3, <3>6 DEF Search
      <4>2. Brought(u, d) = NameOf(Top(t))
        BY <1>6, <4>1 DEF Brought, Top
      <4>3. NameOf(Top(t)) = Name(t)
        BY <4>1, ImportAtHand
      <4> QED
        BY <1>6, <3>3, <3>6, <4>2, <4>3
    <3>7. CASE doing[t] # "read" /\ d # Len(stack[t]) + 1
      <4>1. d \in 2 .. Len(stack[t]) + 0
        BY <1>3, <3>2, <3>7
      <4> QED
        BY <1>6, <3>3, <3>4, <3>7, <4>1 DEF Held
    <3> QED
      BY <3>1, <3>5, <3>6, <3>7
  <2>3. ASSUME NEW base, GoesOn(t, base, new), doing'[t] # "read",
               \/ base = stack[t]
               \/ base = Front(stack[t]) /\ Len(stack[t]) > 1
        PROVE  /\ d \in Held(u) /\ Brought(u, d)' = Brought(u, d)
               /\ Return(t) /\ u = t => d # Len(stack[t])
    <3>1. Len(new) = Len(base) /\ \A e \in 1 .. Len(base) - 1 : new[e] = base[e]
      BY <2>3 DEF GoesOn, LastForward
    <3>2. Len(base) <= Len(stack[t]) /\ \A e \in 1 .. Len(base) : base[e] = stack[t][e]
      <4>1. CASE base = stack[t]
        BY <1>3, <4>1
      <4>2. CASE base = Front(stack[t]) /\ Len(stack[t]) > 1
        <5>1. Len(base) = Len(stack[t]) - 1 /\ \A e \in 1 .. Len(stack[t]) - 1 : base[e] = stack[t][e]
          BY <4>2, UnderAtHand
        <5> QED
          BY <1>3, <5>1
      <4> QED
        BY <2>3, <4>1, <4>2
    <3>3. d \in 2 .. Len(new)
      <4>1. d \in 2 .. Len(new) + 0
        BY <1>6, <2>0, <2>3 DEF Held
      <4> QED
        BY <2>0, <4>1
    <3>4. new[d - 1] = stack[t][d - 1] /\ d \in 2 .. Len(stack[t])
      <4>1. d - 1 \in 1 .. Len(new) - 1 /\ d \in Nat /\ d <= Len(new)
        BY <2>0, <3>3, BelowLast
      <4> QED
        BY <1>3, <2>0, <3>1, <3>2, <3>3, <4>1
    <3>5. d \in Held(t)
      <4>1. CASE doing[t] = "read"
        BY <1>3, <3>4, <4>1 DEF Held
      <4>2. CASE doing[t] # "read"
        <5>1. d \in 2 .. Len(stack[t]) + 0
          BY <1>3, <3>4
        <5> QED
          BY <4>2, <5>1 DEF Held
      <4> QED
        BY <4>1, <4>2
    <3>6. Return(t) => d # Len(stack[t])
      <4>1. Return(t) => Len(new) = Len(stack[t]) - 1
        BY <2>0, ReturnPops
      <4> QED
        BY <1>3, <3>3, <4>1
    <3> QED
      BY <1>4, <1>6, <2>0, <3>4, <3>5, <3>6 DEF Brought
  <2>4. ASSUME Len(stack[t]) > 1, GoesOn(t, Front(stack[t]), new)
        PROVE  doing'[t] # "read"
    <3>1. Len(new) = Len(stack[t]) - 1
      BY <2>4, UnderAtHand DEF GoesOn, LastForward
    <3>2. Len(new) # Len(stack[t])
      BY <1>3, <3>1
    <3> QED
      BY <2>4, <3>2 DEF GoesOn
  <2> QED
    BY <1>1, <2>1, <2>2, <2>3, <2>4
<1> QED
  BY <1>5, <1>6

(* What is brought in already, when a file is searched, is under way.      *)
LEMMA HeldUnderWay ==
  ASSUME Inv, NEW u \in Thread, NEW d \in Held(u)
  PROVE  UnderWay(Brought(u, d))
<1>1. Len(stack[u]) \in Nat \ {0}
  BY TopType
<1>2. CASE d \in 2 .. Len(stack[u])
  <2>1. FrameOK(u, d) /\ d > 1
    BY <1>1, <1>2 DEF Inv, Frames
  <2>2. stack[u][d].name = Brought(u, d)
    BY <2>1 DEF FrameOK, Brought
  <2> QED
    BY <1>2, <2>2 DEF UnderWay
<1>3. CASE d \notin 2 .. Len(stack[u])
  <2>1. doing[u] = "read"
    <3>1. ASSUME doing[u] # "read"
          PROVE  FALSE
      <4>1. d \in 2 .. Len(stack[u]) + 0
        BY <3>1 DEF Held
      <4> QED
        BY <1>1, <1>3, <4>1
    <3> QED
      BY <3>1
  <2>2. d \in 2 .. Len(stack[u]) + 1
    BY <2>1 DEF Held
  <2>3. d - 1 = Len(stack[u])
    BY <1>1, <1>3, <2>2
  <2>4. Brought(u, d) = NameOf(Top(u))
    BY <2>3 DEF Brought, Top
  <2> QED
    BY <2>1, <2>4, ImportAtHand DEF UnderWay
<1> QED
  BY <1>2, <1>3

(* overlapped never shrinks, and what becomes of cache. *)
LEMMA OverlappedStep ==
  ASSUME NEW t \in Thread, Step(t)
  PROVE  overlapped \subseteq overlapped'
<1>1. CASE Search(t)
  BY <1>1 DEF Search
<1>2. CASE LookUp(t) \/ BuiltIn(t) \/ NotFound(t) \/ NullModule(t) \/ Broken(t) \/ Run(t)
           \/ Return(t) \/ End(t) \/ Throw(t) \/ Catch(t) \/ Fail(t)
  BY <1>2 DEF LookUp, BuiltIn, NotFound, NullModule, Broken, Run, Return, End, Throw, Catch, Fail, modules
<1> QED
  BY <1>1, <1>2 DEF Step

LEMMA DomainStep ==
  ASSUME NEW t \in Thread, Step(t)
  PROVE  \/ cache' = cache
         \/ BuiltIn(t) /\ Bind(Name(t), runs'[Name(t)[1]])
         \/ Return(t) /\ Bind(Top(t).name, Top(t).run)
<1>1. CASE BuiltIn(t)
  BY <1>1 DEF BuiltIn
<1>2. CASE Return(t)
  BY <1>2 DEF Return
<1>3. CASE LookUp(t) \/ Search(t) \/ NotFound(t) \/ NullModule(t) \/ Broken(t) \/ Run(t)
           \/ End(t) \/ Throw(t) \/ Catch(t) \/ Fail(t)
  BY <1>3 DEF LookUp, Search, NotFound, NullModule, Broken, Run, End, Throw, Catch, Fail, modules
<1> QED
  BY <1>1, <1>2, <1>3 DEF Step

LEMMA BoundNames ==
  ASSUME NEW name, NEW run, Bind(name, run)
  PROVE  DOMAIN cache' = DOMAIN cache \cup {name} /\ \A n \in DOMAIN cache : n = name \/ cache'[n] = cache[n]
  BY DEF Bind

LEMMA OverlapsStep ==
  ASSUME Inv, Overlaps, NEW t \in Thread, Step(t)
  PROVE  Overlaps'
<1>0. overlapped \subseteq overlapped'
  BY OverlappedStep
<1>1. Search(t) => /\ ~Known(Name(t)) /\ Name(t) \notin DOMAIN cache /\ cache' = cache /\ Place[Name(t)[1]] # "builtin"
                   /\ UnderWay(Name(t)) => Name(t) \in overlapped'
  BY DEF Search, Known
<1>2. ASSUME NEW u \in Thread, NEW d \in Held(u)'
      PROVE  Place[Brought(u, d)'[1]] # "builtin"
  <2>1. \/ d \in Held(u) /\ Brought(u, d)' = Brought(u, d)
        \/ u = t /\ Search(t) /\ d = Len(stack[t]) + 1 /\ Brought(u, d)' = Name(t)
    BY HeldStep
  <2> QED
    BY <1>1, <2>1 DEF Overlaps
<1>3. ASSUME NEW u \in Thread, NEW d \in Held(u)', Brought(u, d)' \in DOMAIN cache'
      PROVE  Brought(u, d)' \in overlapped'
  <2>1. CASE Search(t) /\ Brought(u, d)' = Name(t)
    BY <1>1, <1>3, <2>1
  <2>2. CASE d \in Held(u) /\ Brought(u, d)' = Brought(u, d) /\ (Return(t) /\ u = t => d # Len(stack[t]))
    <3>1. CASE Brought(u, d) \in DOMAIN cache
      BY <1>0, <2>2, <3>1 DEF Overlaps
    <3>2. CASE BuiltIn(t) /\ Brought(u, d) = Name(t)
      <4>1. Place[Brought(u, d)[1]] = "builtin"
        BY <3>2 DEF BuiltIn
      <4> QED
        BY <2>2, <4>1 DEF Overlaps
    <3>3. CASE Return(t) /\ Brought(u, d) = Top(t).name
      <4>1. Len(stack[t]) > 1
        BY <3>3 DEF Return
      <4>2. Len(stack[t]) \in Held(t) /\ Brought(t, Len(stack[t])) = Top(t).name
        BY <4>1, TopHeld
      <4>3. u # t \/ d # Len(stack[t])
        BY <2>2, <3>3
      <4>4. Brought(u, d) \in overlapped
        BY <2>2, <3>3, <4>2, <4>3 DEF Overlaps
      <4> QED
        BY <1>0, <2>2, <4>4
    <3>4. \/ Brought(u, d) \in DOMAIN cache
          \/ BuiltIn(t) /\ Brought(u, d) = Name(t)
          \/ Return(t) /\ Brought(u, d) = Top(t).name
      <4>1. CASE cache' = cache
        BY <1>3, <2>2, <4>1
      <4>2. CASE BuiltIn(t) /\ Bind(Name(t), runs'[Name(t)[1]])
        <5>1. DOMAIN cache' = DOMAIN cache \cup {Name(t)}
          BY <4>2, BoundNames
        <5> QED
          BY <1>3, <2>2, <4>2, <5>1
      <4>3. CASE Return(t) /\ Bind(Top(t).name, Top(t).run)
        <5>1. DOMAIN cache' = DOMAIN cache \cup {Top(t).name}
          BY <4>3, BoundNames
        <5> QED
          BY <1>3, <2>2, <4>3, <5>1
      <4> QED
        BY <4>1, <4>2, <4>3, DomainStep
    <3> QED
      BY <3>1, <3>2, <3>3, <3>4
  <2> QED
    BY <2>1, <2>2, HeldStep
<1>4. ASSUME NEW u \in Thread, NEW d \in Held(u)', NEW v \in Thread, NEW e \in Held(v)',
             Brought(u, d)' = Brought(v, e)', u # v \/ d # e
      PROVE  Brought(u, d)' \in overlapped'
  <2>1. \/ d \in Held(u) /\ Brought(u, d)' = Brought(u, d)
        \/ u = t /\ Search(t) /\ d = Len(stack[t]) + 1 /\ Brought(u, d)' = Name(t)
    BY HeldStep
  <2>2. \/ e \in Held(v) /\ Brought(v, e)' = Brought(v, e)
        \/ v = t /\ Search(t) /\ e = Len(stack[t]) + 1 /\ Brought(v, e)' = Name(t)
    BY HeldStep
  <2>3. CASE /\ d \in Held(u) /\ Brought(u, d)' = Brought(u, d)
             /\ e \in Held(v) /\ Brought(v, e)' = Brought(v, e)
    BY <1>0, <1>4, <2>3 DEF Overlaps
  <2>4. CASE d \in Held(u) /\ Brought(u, d)' = Brought(u, d) /\ Search(t) /\ Brought(v, e)' = Name(t)
    BY <1>1, <1>4, <2>4, HeldUnderWay
  <2>5. CASE e \in Held(v) /\ Brought(v, e)' = Brought(v, e) /\ Search(t) /\ Brought(u, d)' = Name(t)
    BY <1>1, <1>4, <2>5, HeldUnderWay
  <2> QED
    BY <1>4, <2>1, <2>2, <2>3, <2>4, <2>5
<1> QED
  BY <1>2, <1>3, <1>4 DEF Overlaps

LEMMA OverlapsStays ==
  ASSUME Overlaps, UNCHANGED vars
  PROVE  Overlaps'
<1>1. cache' = cache /\ overlapped' = overlapped /\ stack' = stack /\ doing' = doing /\ script' = script
  BY DEF vars, modules
<1>2. ASSUME NEW u, NEW d
      PROVE  Brought(u, d)' = Brought(u, d) /\ Held(u)' = Held(u)
  BY <1>1 DEF Brought, NameOf, At, Code, Held
<1> QED
  BY <1>1, <1>2 DEF Overlaps

LEMMA InitOverlaps ==
  Init => Overlaps
<1> SUFFICES ASSUME Init, NEW t \in Thread PROVE Held(t) = {}
  BY DEF Overlaps
<1>1. stack[t] = <<Frame(<<t>>, 0)>> /\ doing[t] = "next"
  BY DEF Init
<1>2. Len(stack[t]) = 1
  <2> HIDE DEF Frame
  <2> QED
    BY <1>1
<1> QED
  BY <1>1, <1>2 DEF Held

(* Only imports that overlap replace a module that can be looked up        *)
(* (import.c:253): at each step, by the names that are held.               *)
THEOREM Stays == Spec => StaysUnlessOverlapped
<1>1. Init => Overlaps
  BY InitOverlaps
<1>2. IInv /\ Overlaps /\ [Next]_vars => Overlaps'
  BY OverlapsStep, OverlapsStays DEF Next, IInv
<1>3. ASSUME IInv, Overlaps, [Next]_vars
      PROVE  [Kept]_vars
  <2>1. ASSUME NEW t \in Thread, Step(t), NEW n \in DOMAIN cache
        PROVE  n \in DOMAIN cache' /\ (cache'[n] = cache[n] \/ n \in overlapped)
    <3>1. CASE cache' = cache
      BY <2>1, <3>1
    <3>2. CASE BuiltIn(t) /\ Bind(Name(t), runs'[Name(t)[1]])
      <4>1. n # Name(t)
        BY <2>1, <3>2 DEF BuiltIn, Known
      <4> QED
        BY <2>1, <3>2, <4>1, BoundNames
    <3>3. CASE Return(t) /\ Bind(Top(t).name, Top(t).run)
      <4>1. CASE n = Top(t).name
        <5>1. Len(stack[t]) \in Held(t) /\ Brought(t, Len(stack[t])) = n
          BY <1>3, <3>3, <4>1, TopHeld DEF Return, IInv
        <5>2. n \in overlapped
          BY <1>3, <2>1, <5>1 DEF Overlaps
        <5> QED
          BY <2>1, <3>3, <5>2, BoundNames
      <4>2. CASE n # Top(t).name
        BY <2>1, <3>3, <4>2, BoundNames
      <4> QED
        BY <4>1, <4>2
    <3> QED
      BY <2>1, <3>1, <3>2, <3>3, DomainStep
  <2>2. CASE Next /\ ~ UNCHANGED vars
    BY <2>1, <2>2 DEF Next, Kept
  <2> QED
    BY <1>3, <2>2
<1> QED
  BY <1>1, <1>2, <1>3, Invariant, PTL DEF Spec, StaysUnlessOverlapped

-----------------------------------------------------------------------------
(* What has been passed has been imported.                                 *)

Names == DOMAIN cache \cup {n \in DOMAIN globals : IsSub(n)}

SubIn(names, a, b) == (\E n \in names : IsSub(n) /\ n[1] = a /\ n[2] = b) \/ a \in Attribute[b]

Listed(name) == name[1] \in Attribute[name[2]]

(* The parts of a path that a frame has behind it can be looked up. *)
PartIn(f, names) ==
    f.part > 0 =>
        /\ <<At(f).path[1]>> \in names
        /\ f.of # 0 => \A p \in 2 .. f.part : SubIn(names, At(f).path[p], At(f).path[p - 1])

Parts == \A t \in Thread : \A d \in 1 .. Len(stack[t]) : PartIn(stack[t][d], Names)

LEMMA MoreNames ==
  ASSUME NEW f, NEW names, NEW more, names \subseteq more, PartIn(f, names)
  PROVE  PartIn(f, more)
  BY DEF PartIn, SubIn

LEMMA NamesStep ==
  ASSUME NEW t \in Thread, Step(t)
  PROVE  Names \subseteq Names'
<1>1. DOMAIN cache \subseteq DOMAIN cache'
  BY DomainStep, BoundNames
<1>2. DOMAIN globals \subseteq DOMAIN globals'
  <2>1. ASSUME NEW f, NEW run, Stores(f, run) PROVE DOMAIN globals \subseteq DOMAIN globals'
    BY <2>1 DEF Stores
  <2>2. CASE LookUp(t) \/ BuiltIn(t) \/ Return(t)
    BY <2>1, <2>2 DEF LookUp, BuiltIn, Return
  <2>3. CASE Search(t) \/ NotFound(t) \/ NullModule(t) \/ Broken(t) \/ Run(t)
             \/ End(t) \/ Throw(t) \/ Catch(t) \/ Fail(t)
    BY <2>3 DEF Search, NotFound, NullModule, Broken, Run, End, Throw, Catch, Fail
  <2> QED
    BY <2>2, <2>3 DEF Step
<1> QED
  BY <1>1, <1>2 DEF Names

(* Where Continue may lead. *)
NextPart(f, run) == [f EXCEPT !.part = @ + 1, !.of = run]
NextStatement(f) == [f EXCEPT !.at = @ + 1, !.part = 0, !.of = 0]
LeavesLast(t, frames, f) == stack' = [stack EXCEPT ![t] = [frames EXCEPT ![Len(frames)] = f]]

LEMMA ContinueCases ==
  ASSUME NEW t \in Thread, NEW frames, NEW run, NEW pending, NEW f, f = frames[Len(frames)],
         Continue(t, frames, run, pending)
  PROVE  /\ exc' = [exc EXCEPT ![t] = pending]
         /\ \/ f.part + 1 < Len(At(f).path) /\ LeavesLast(t, frames, NextPart(f, run))
            \/ stack' = [stack EXCEPT ![t] = frames]
            \/ ~(f.part + 1 < Len(At(f).path)) /\ LeavesLast(t, frames, NextStatement(f))
<1>1. CASE f.part + 1 < Len(At(f).path)
  BY <1>1 DEF Continue, At, Raise, LeavesLast, NextPart, NextStatement
<1>2. CASE ~(f.part + 1 < Len(At(f).path)) /\ At(f).within = "finally" /\ pending # "none"
  BY <1>2 DEF Continue, At, Raise, LeavesLast, NextPart, NextStatement
<1>3. CASE ~(f.part + 1 < Len(At(f).path)) /\ ~(At(f).within = "finally" /\ pending # "none")
  BY <1>3 DEF Continue, At, Raise, LeavesLast, NextPart, NextStatement
<1> QED
  BY <1>1, <1>2, <1>3

(* One part more of a path can be looked up. *)
LEMMA OnePartMore ==
  ASSUME Types, NEW f \in FrameType, NEW names, f.name[1] \in Thread \cup Module, AtHand(f),
         PartIn(f, names), NameOf(f) \in names \/ (IsSub(NameOf(f)) /\ Listed(NameOf(f)))
  PROVE  /\ <<At(f).path[1]>> \in names
         /\ \A p \in 2 .. f.part + 1 : SubIn(names, At(f).path[p], At(f).path[p - 1])
<1>1. f.part \in Nat /\ (f.part > 0 => f.of # 0)
  BY DEF FrameType, AtHand
<1>2. CASE f.part = 0
  <2>1. ~IsSub(NameOf(f))
    BY <1>2, NameType
  <2>2. <<At(f).path[1]>> \in names
    BY <1>2, <2>1 DEF NameOf
  <2> QED
    BY <1>2, <2>2
<1>3. CASE f.part > 0
  <2>1. <<At(f).path[1]>> \in names /\ \A p \in 2 .. f.part : SubIn(names, At(f).path[p], At(f).path[p - 1])
    BY <1>1, <1>3 DEF PartIn
  <2>2. SubIn(names, At(f).path[f.part + 1], At(f).path[f.part])
    BY <1>3, NameType DEF SubIn, Listed
  <2>3. ASSUME NEW p \in 2 .. f.part + 1
        PROVE  SubIn(names, At(f).path[p], At(f).path[p - 1])
    <3>1. CASE p \in 2 .. f.part
      BY <2>1, <3>1
    <3>2. CASE p = f.part + 1 /\ p - 1 = f.part
      BY <2>2, <3>2
    <3> QED
      BY <1>1, <2>3, <3>1, <3>2
  <2> QED
    BY <2>1, <2>3
<1> QED
  BY <1>1, <1>2, <1>3

LEMMA OneLess ==
  ASSUME NEW n \in Nat, n > 1
  PROVE  n - 1 \in Nat \ {0} /\ n - 1 <= n
  OBVIOUS

LEMMA SameLast ==
  ASSUME NEW S, NEW s \in Seq(S), Len(s) > 0
  PROVE  [s EXCEPT ![Len(s)] = s[Len(s)]] = s
  OBVIOUS

(* A path that is passed to its last part is imported. *)
LEMMA ContinueImports ==
  ASSUME Inv, NEW t \in Thread, NEW frames, NEW f, f = frames[Len(frames)],
         NEW run \in Nat, NEW pending,
         \/ frames = stack[t] /\ (Importing(t) \/ doing[t] = "read")
         \/ frames = Front(stack[t]) /\ Len(stack[t]) > 1,
         Continue(t, frames, run, pending),
         Names \subseteq Names', PartIn(f, Names),
         \/ run # 0 /\ NameOf(f) \in Names'
         \/ run = 0 /\ IsSub(NameOf(f)) /\ (pending # "none" \/ Listed(NameOf(f)))
  PROVE  /\ \E new : /\ stack' = [stack EXCEPT ![t] = new] /\ Len(new) = Len(frames)
                     /\ Len(frames) \in Nat \ {0} /\ Len(frames) <= Len(stack[t])
                     /\ \A d \in 1 .. Len(frames) - 1 : new[d] = stack[t][d]
                     /\ PartIn(new[Len(frames)], Names')
         /\ Passed(t) => Imported(t)
<1>1. /\ frames \in Seq(FrameType) /\ Len(frames) \in Nat \ {0} /\ Len(frames) <= Len(stack[t])
      /\ f = stack[t][Len(frames)] /\ f \in FrameType /\ AtHand(f) /\ f.name[1] \in Thread \cup Module
      /\ \A d \in 1 .. Len(frames) - 1 : frames[d] = stack[t][d]
  <2>1. CASE frames = stack[t] /\ (Importing(t) \/ doing[t] = "read")
    BY <2>1, TopType, ImportAtHand DEF Top
  <2>2. CASE frames = Front(stack[t]) /\ Len(stack[t]) > 1
    <3>1. /\ frames \in Seq(FrameType) /\ Len(frames) = Len(stack[t]) - 1
          /\ \A d \in 1 .. Len(stack[t]) - 1 : frames[d] = stack[t][d]
          /\ f = Under(t) /\ f \in FrameType /\ AtHand(f) /\ f.name[1] \in Thread \cup Module
          /\ Len(stack[t]) \in Nat
      BY <2>2, TopType, UnderAtHand
    <3>2. Len(frames) \in Nat \ {0} /\ Len(frames) <= Len(stack[t])
      BY <2>2, <3>1, OneLess
    <3>3. f = stack[t][Len(frames)]
      BY <3>1 DEF Under
    <3>4. \A d \in 1 .. Len(frames) - 1 : frames[d] = stack[t][d]
      <4>1. ASSUME NEW d \in 1 .. Len(frames) - 1
            PROVE  d \in 1 .. Len(stack[t]) - 1
        BY <3>1, <3>2
      <4> QED
        BY <3>1, <4>1
    <3> QED
      BY <3>1, <3>2, <3>3, <3>4
  <2> QED
    BY <2>1, <2>2
<1>2. stack \in [Thread -> Seq(FrameType)] /\ exc \in [Thread -> Exceptions] /\ Types
  BY DEF Inv, Types
<1>3. PartIn(f, Names')
  BY MoreNames
<1>4. f.part \in Nat /\ f.at \in Nat /\ (f.part > 0 => f.of # 0) /\ f.part < Len(At(f).path)
      /\ At(f).path \in Seq(Module) /\ Len(At(f).path) \in Nat
  BY <1>1, <1>2, PathType DEF FrameType, AtHand
<1>5. IsSub(NameOf(f)) => f.part > 0
  BY <1>1, <1>2, NameType
<1>6. <<At(f).path[1]>> \in Names'
  <2>1. CASE run # 0 /\ NameOf(f) \in Names'
    BY <1>1, <1>2, <1>3, <2>1, OnePartMore
  <2>2. CASE IsSub(NameOf(f))
    BY <1>3, <1>5, <2>2 DEF PartIn
  <2> QED
    BY <2>1, <2>2
<1>7. run # 0 \/ Listed(NameOf(f)) =>
         \A p \in 2 .. f.part + 1 : SubIn(Names', At(f).path[p], At(f).path[p - 1])
  <2>1. run # 0 \/ Listed(NameOf(f)) => NameOf(f) \in Names' \/ (IsSub(NameOf(f)) /\ Listed(NameOf(f)))
    OBVIOUS
  <2> QED
    BY <1>1, <1>2, <1>3, <2>1, OnePartMore
<1>8. ASSUME NEW g, LeavesLast(t, frames, g),
             PartIn(g, Names')
      PROVE  /\ \E new : /\ stack' = [stack EXCEPT ![t] = new] /\ Len(new) = Len(frames)
                         /\ Len(frames) \in Nat \ {0} /\ Len(frames) <= Len(stack[t])
                         /\ \A d \in 1 .. Len(frames) - 1 : new[d] = stack[t][d]
                         /\ PartIn(new[Len(frames)], Names')
             /\ stack'[t][Len(stack'[t])] = g /\ Len(stack'[t]) = Len(frames)
  <2> DEFINE new == [frames EXCEPT ![Len(frames)] = g]
  <2>1. /\ Len(new) = Len(frames) /\ new[Len(frames)] = g
        /\ \A d \in 1 .. Len(frames) - 1 : new[d] = frames[d]
    BY <1>1
  <2>2. stack'[t] = new
    BY <1>2, <1>8 DEF LeavesLast
  <2>3. stack' = [stack EXCEPT ![t] = new]
    BY <1>8 DEF LeavesLast
  <2> HIDE DEF new
  <2>4. PartIn(new[Len(frames)], Names')
    BY <1>8, <2>1
  <2>5. \A d \in 1 .. Len(frames) - 1 : new[d] = stack[t][d]
    BY <1>1, <2>1
  <2> QED
    BY <1>1, <2>1, <2>2, <2>3, <2>4, <2>5
<1>12. ASSUME Len(stack'[t]) = Len(frames), stack'[t][Len(stack'[t])].at = f.at
       PROVE  ~Passed(t)
  <2>1. ~(f.at > f.at)
    BY <1>4
  <2> QED
    BY <1>1, <1>12, <2>1 DEF Passed
<1>9. CASE f.part + 1 < Len(At(f).path) /\ LeavesLast(t, frames, NextPart(f, run))
  <2> DEFINE g == NextPart(f, run)
  <2>1. g.part = f.part + 1 /\ g.of = run /\ g.at = f.at /\ g.name = f.name
    BY <1>1 DEF FrameType, NextPart
  <2>2. At(g) = At(f)
    BY <2>1 DEF At, Code
  <2> HIDE DEF g
  <2>3. PartIn(g, Names')
    BY <1>6, <1>7, <2>1, <2>2 DEF PartIn
  <2>4. LeavesLast(t, frames, g)
    BY <1>9 DEF g
  <2>5. ~Passed(t)
    BY <1>8, <1>12, <2>1, <2>3, <2>4
  <2> QED
    BY <1>8, <2>3, <2>4, <2>5
<1>10. CASE stack' = [stack EXCEPT ![t] = frames]
  <2>1. LeavesLast(t, frames, f)
    <3>1. Len(frames) > 0
      BY <1>1
    <3>2. [frames EXCEPT ![Len(frames)] = frames[Len(frames)]] = frames
      BY <1>1, <3>1, SameLast
    <3> QED
      BY <1>10, <3>2 DEF LeavesLast
  <2>2. ~Passed(t)
    BY <1>3, <1>8, <1>12, <2>1
  <2> QED
    BY <1>3, <1>8, <2>1, <2>2
<1>11. CASE /\ ~(f.part + 1 < Len(At(f).path)) /\ LeavesLast(t, frames, NextStatement(f))
            /\ exc' = [exc EXCEPT ![t] = pending]
  <2> DEFINE g == NextStatement(f)
             path == At(f).path
  <2>1. g.part = 0
    BY <1>1 DEF FrameType, NextStatement
  <2>2. PartIn(g, Names')
    BY <2>1 DEF PartIn
  <2>3. Len(stack'[t]) = Len(frames)
    BY <1>8, <1>11, <2>2
  <2>4. path # <<>> /\ Len(path) = f.part + 1
    BY <1>4, <1>11
  <2>5. exc'[t] = pending
    BY <1>2, <1>11
  <2>6. ASSUME NEW p \in 2 .. Len(path)
        PROVE  exc'[t] # "none" \/ SubIn(Names', path[p], path[p - 1])
    BY <1>7, <2>4, <2>5
  <2>7. Code(stack[t][Len(stack'[t])])[stack[t][Len(stack'[t])].at].path = path
    BY <1>1, <2>3 DEF At
  <2> HIDE DEF path
  <2>8. ASSUME NEW p \in 2 .. Len(path), SubIn(Names', path[p], path[p - 1])
        PROVE  \/ \E n \in DOMAIN cache' \cup DOMAIN globals' :
                     IsSub(n) /\ n[1] = path[p] /\ n[2] = path[p - 1]
               \/ path[p] \in Attribute[path[p - 1]]
    BY <2>8 DEF SubIn, Names
  <2>9. <<path[1]>> \in DOMAIN cache'
    <3>1. ~IsSub(<<path[1]>>)
      BY DEF IsSub
    <3> QED
      BY <1>6, <3>1 DEF Names, path
  <2>10. Imported(t)
    BY <2>4, <2>6, <2>7, <2>8, <2>9 DEF Imported
  <2> QED
    BY <1>8, <1>11, <2>2, <2>10
<1> QED
  BY <1>9, <1>10, <1>11, ContinueCases

(* What a step of a thread must do, for what follows. *)
Goes(t) ==
    /\ \A d \in 1 .. Len(stack'[t]) : PartIn(stack'[t][d], Names')
    /\ Passed(t) => Imported(t)

LEMMA StackGoes ==
  ASSUME Inv, Parts, NEW t \in Thread, Names \subseteq Names', stack'[t] = stack[t]
  PROVE  Goes(t)
<1>1. /\ stack[t] \in Seq(FrameType) /\ Len(stack[t]) \in Nat \ {0}
      /\ Top(t) \in FrameType
  BY TopType
<1>2. ~(Top(t).at > Top(t).at)
  BY <1>1 DEF FrameType
<1>3. ~Passed(t)
  BY <1>2 DEF Passed, Top
<1>4. \A d \in 1 .. Len(stack[t]) : PartIn(stack[t][d], Names')
  BY MoreNames DEF Parts
<1> QED
  BY <1>3, <1>4 DEF Goes

LEMMA ContinueGoes ==
  ASSUME Inv, Parts, NEW t \in Thread, Step(t), NEW frames, NEW run \in Nat, NEW pending,
         \/ frames = stack[t] /\ (Importing(t) \/ doing[t] = "read") /\ NameOf(frames[Len(frames)]) = Name(t)
         \/ /\ frames = Front(stack[t]) /\ Len(stack[t]) > 1
            /\ NameOf(frames[Len(frames)]) = Top(t).name,
         Continue(t, frames, run, pending),
         \/ run # 0 /\ NameOf(frames[Len(frames)]) \in Names'
         \/ /\ run = 0 /\ IsSub(NameOf(frames[Len(frames)]))
            /\ pending # "none" \/ Listed(NameOf(frames[Len(frames)]))
  PROVE  Goes(t)
<1> DEFINE f == frames[Len(frames)]
<1>0. \/ frames = stack[t] /\ (Importing(t) \/ doing[t] = "read")
      \/ frames = Front(stack[t]) /\ Len(stack[t]) > 1
  OBVIOUS
<1>1. \E d \in 1 .. Len(stack[t]) : f = stack[t][d]
  <2>1. CASE frames = stack[t]
    BY <2>1, TopType
  <2>2. CASE frames = Front(stack[t]) /\ Len(stack[t]) > 1
    <3>1. f = stack[t][Len(stack[t]) - 1] /\ Len(stack[t]) \in Nat
      BY <2>2, UnderAtHand, TopType DEF Under
    <3>2. Len(stack[t]) - 1 \in 1 .. Len(stack[t])
      BY <2>2, <3>1
    <3> QED
      BY <3>1, <3>2
  <2> QED
    BY <1>0, <2>1, <2>2
<1>2. PartIn(f, Names)
  BY <1>1 DEF Parts
<1> HIDE DEF f
<1>3. f = frames[Len(frames)]
  BY DEF f
<1>4. \/ run # 0 /\ NameOf(f) \in Names'
      \/ run = 0 /\ IsSub(NameOf(f)) /\ (pending # "none" \/ Listed(NameOf(f)))
  BY <1>3
<1>5. Names \subseteq Names'
  BY NamesStep
<1>6. /\ \E new : /\ stack' = [stack EXCEPT ![t] = new] /\ Len(new) = Len(frames)
                  /\ Len(frames) \in Nat \ {0} /\ Len(frames) <= Len(stack[t])
                  /\ \A d \in 1 .. Len(frames) - 1 : new[d] = stack[t][d]
                  /\ PartIn(new[Len(frames)], Names')
      /\ Passed(t) => Imported(t)
  BY <1>0, <1>2, <1>3, <1>4, <1>5, ContinueImports
<1>7. PICK new : /\ stack' = [stack EXCEPT ![t] = new] /\ Len(new) = Len(frames)
                 /\ Len(frames) \in Nat \ {0} /\ Len(frames) <= Len(stack[t])
                 /\ \A d \in 1 .. Len(frames) - 1 : new[d] = stack[t][d]
                 /\ PartIn(new[Len(frames)], Names')
  BY <1>6
<1>8. stack'[t] = new
  BY <1>7 DEF Inv, Types
<1>9. Len(stack[t]) \in Nat
  BY TopType
<1>10. ASSUME NEW d \in 1 .. Len(new)
       PROVE  PartIn(new[d], Names')
  <2>1. CASE d = Len(frames)
    BY <1>7, <2>1
  <2>2. CASE d # Len(frames)
    <3>1. d \in 1 .. Len(frames) - 1 /\ d \in 1 .. Len(stack[t])
      BY <1>7, <1>9, <1>10, <2>2
    <3>2. new[d] = stack[t][d] /\ PartIn(stack[t][d], Names)
      BY <1>7, <3>1 DEF Parts
    <3> QED
      BY <1>5, <3>2, MoreNames
  <2> QED
    BY <2>1, <2>2
<1> QED
  BY <1>6, <1>8, <1>10 DEF Goes

LEMMA StepGoes ==
  ASSUME Inv, Parts, NEW t \in Thread, Step(t)
  PROVE  Goes(t)
<1>0. /\ stack \in [Thread -> Seq(FrameType)] /\ stack[t] \in Seq(FrameType)
      /\ Len(stack[t]) \in Nat \ {0}
  BY TopType DEF Inv, Types
<1>1. \A d \in 1 .. Len(stack[t]) : PartIn(stack[t][d], Names')
  BY NamesStep, MoreNames DEF Parts
<1>2. Importing(t) \/ doing[t] = "read" => NameOf(stack[t][Len(stack[t])]) = Name(t)
  BY ImportAtHand DEF Top
<1>3. Len(stack[t]) > 1 => NameOf(Front(stack[t])[Len(Front(stack[t]))]) = Top(t).name
  BY UnderAtHand
<1>4. CASE LookUp(t)
  <2>1. Importing(t) /\ Known(Name(t)) /\ Continue(t, stack[t], RunOf(Name(t)), Pending(t))
    BY <1>4 DEF LookUp
  <2>2. RunOf(Name(t)) \in Nat
    BY RunOfType
  <2>3. CASE Name(t) \in DOMAIN cache \cup DOMAIN globals
    <3>1. RunOf(Name(t)) # 0 /\ Name(t) \in Names'
      BY <2>1, <2>3, RunOfType, NamesStep DEF Known, Names
    <3> QED
      BY <1>2, <2>1, <2>2, <3>1, ContinueGoes
  <2>4. CASE Name(t) \notin DOMAIN cache \cup DOMAIN globals
    <3>1. RunOf(Name(t)) = 0 /\ IsSub(Name(t)) /\ Listed(Name(t))
      BY <2>1, <2>4 DEF Known, RunOf, Listed
    <3> QED
      BY <1>2, <2>1, <2>2, <3>1, ContinueGoes
  <2> QED
    BY <2>3, <2>4
<1>5. CASE BuiltIn(t)
  <2>1. /\ Importing(t) /\ Bind(Name(t), runs'[Name(t)[1]])
        /\ runs' = [runs EXCEPT ![Name(t)[1]] = @ + 1]
        /\ Continue(t, stack[t], runs'[Name(t)[1]], Pending(t))
    BY <1>5 DEF BuiltIn
  <2>2. Name(t) \in Names'
    BY <2>1, BoundNames DEF Names
  <2>3. runs'[Name(t)[1]] \in Nat /\ runs'[Name(t)[1]] # 0
    <3>1. Name(t)[1] \in Module
      BY <2>1, ImportAtHand
    <3>2. runs'[Name(t)[1]] \in 1 .. runs'[Name(t)[1]] /\ runs'[Name(t)[1]] \in Nat
      BY <2>1, <3>1, NewRun, RunsStep DEF Inv, Types
    <3> QED
      BY <3>2
  <2> QED
    BY <1>2, <2>1, <2>2, <2>3, ContinueGoes
<1>6. CASE NotFound(t) /\ IsSub(Name(t))
  <2>1. PICK x \in {"ImportError", "KeyError"} : Importing(t) /\ Continue(t, stack[t], 0, x)
    BY <1>6 DEF NotFound
  <2> QED
    BY <1>2, <1>6, <2>1, ContinueGoes
<1>7. CASE Broken(t) /\ IsSub(Name(t))
  <2>1. doing[t] = "read" /\ Continue(t, stack[t], 0, "ImportError")
    BY <1>7 DEF Broken
  <2> QED
    BY <1>2, <1>7, <2>1, ContinueGoes
<1>8. CASE Return(t)
  <2>1. /\ Len(stack[t]) > 1 /\ Continue(t, Front(stack[t]), Top(t).run, exc[t])
        /\ Bind(Top(t).name, Top(t).run)
    BY <1>8 DEF Return
  <2>2. Top(t).name \in Names'
    BY <2>1, BoundNames DEF Names
  <2>3. Top(t).run \in Nat /\ Top(t).run # 0
    <3>1. Top(t).run \in 1 .. runs[Top(t).name[1]] /\ runs[Top(t).name[1]] \in Nat
      BY <2>1, UnderAtHand DEF Inv, Types
    <3> QED
      BY <3>1
  <2> QED
    BY <1>3, <2>1, <2>2, <2>3, ContinueGoes
<1>9. CASE Fail(t) /\ Len(stack[t]) # 1 /\ IsSub(Top(t).name)
  <2>1. Len(stack[t]) > 1 /\ Continue(t, Front(stack[t]), 0, "ImportError")
    BY <1>0, <1>9, OneOrMore DEF Fail
  <2> QED
    BY <1>3, <1>9, <2>1, ContinueGoes
<1>10. CASE \/ Search(t) \/ (NotFound(t) /\ ~IsSub(Name(t))) \/ NullModule(t)
            \/ (Broken(t) /\ ~IsSub(Name(t))) \/ (Run(t) /\ Len(stack[t]) > MaxDepth)
            \/ End(t) \/ Throw(t) \/ (Fail(t) /\ Len(stack[t]) = 1)
  <2>1. stack' = stack
    BY <1>10 DEF Search, NotFound, NullModule, Broken, Run, End, Throw, Fail
  <2> QED
    BY <2>1, NamesStep, StackGoes
<1>11. CASE Run(t) /\ ~(Len(stack[t]) > MaxDepth)
  <2> DEFINE frame == Frame(Name(t), runs'[Name(t)[1]])
  <2>1. stack' = [stack EXCEPT ![t] = Append(stack[t], frame)]
    BY <1>11 DEF Run
  <2>2. frame.part = 0
    BY DEF Frame
  <2> HIDE DEF frame
  <2>3. PartIn(frame, Names')
    BY <2>2 DEF PartIn
  <2>4. stack'[t] = Append(stack[t], frame)
    BY <1>0, <2>1
  <2>5. Len(stack'[t]) = Len(stack[t]) + 1
    BY <1>0, <2>4
  <2>6. ~Passed(t)
    <3>1. ~(Len(stack[t]) + 1 <= Len(stack[t]))
      BY <1>0
    <3> QED
      BY <2>5, <3>1 DEF Passed
  <2>7. ASSUME NEW d \in 1 .. Len(stack'[t])
        PROVE  PartIn(stack'[t][d], Names')
    <3>1. CASE d = Len(stack[t]) + 1
      <4>1. stack'[t][d] = frame
        BY <1>0, <2>4, <3>1
      <4> QED
        BY <2>3, <4>1
    <3>2. CASE d \in 1 .. Len(stack[t])
      <4>1. stack'[t][d] = stack[t][d]
        BY <1>0, <2>4, <3>2
      <4> QED
        BY <1>1, <3>2, <4>1
    <3>3. d = Len(stack[t]) + 1 \/ d \in 1 .. Len(stack[t])
      BY <1>0, <2>5, <2>7
    <3> QED
      BY <3>1, <3>2, <3>3
  <2> QED
    BY <2>6, <2>7 DEF Goes
<1>12. CASE Catch(t)
  <2> DEFINE g == [Top(t) EXCEPT !.at = @ + 1, !.part = 0, !.of = 0]
  <2>1. doing[t] = "throw" /\ stack' = [stack EXCEPT ![t] = [stack[t] EXCEPT ![Len(stack[t])] = g]]
    BY <1>12 DEF Catch, Replace
  <2>2. g.part = 0
    BY TopType DEF FrameType
  <2> HIDE DEF g
  <2>3. PartIn(g, Names')
    BY <2>2 DEF PartIn
  <2>4. stack'[t] = [stack[t] EXCEPT ![Len(stack[t])] = g]
    BY <1>0, <2>1
  <2>5. /\ Len(stack'[t]) = Len(stack[t]) /\ stack'[t][Len(stack[t])] = g
        /\ \A d \in 1 .. Len(stack[t]) : d # Len(stack[t]) => stack'[t][d] = stack[t][d]
    BY <1>0, <2>4
  <2>6. ~Passed(t)
    BY <2>1, <2>5 DEF Passed
  <2>7. ASSUME NEW d \in 1 .. Len(stack[t])
        PROVE  PartIn(stack'[t][d], Names')
    BY <1>1, <2>3, <2>5
  <2> QED
    BY <2>5, <2>6, <2>7 DEF Goes
<1>13. CASE Fail(t) /\ Len(stack[t]) # 1 /\ ~IsSub(Top(t).name)
  <2>1. stack' = [stack EXCEPT ![t] = Front(stack[t])] /\ Len(stack[t]) > 1
    BY <1>0, <1>13, OneOrMore DEF Fail
  <2>2. stack'[t] = Front(stack[t])
    BY <1>0, <2>1
  <2>3. /\ Len(stack'[t]) = Len(stack[t]) - 1
        /\ \A d \in 1 .. Len(stack[t]) - 1 : stack'[t][d] = stack[t][d]
    BY <2>1, <2>2, UnderAtHand
  <2>4. ~Passed(t)
    <3>1. Len(stack[t]) - 1 \in 1 .. Len(stack[t]) - 1
      BY <1>0, <2>1
    <3>2. stack'[t][Len(stack'[t])] = stack[t][Len(stack[t]) - 1]
      BY <2>3, <3>1
    <3>3. Under(t) \in FrameType
      BY <2>1, UnderAtHand
    <3>4. ~(Under(t).at > Under(t).at)
      BY <3>3 DEF FrameType
    <3> QED
      BY <2>3, <3>2, <3>4 DEF Passed, Under
  <2>5. ASSUME NEW d \in 1 .. Len(stack[t]) - 1
        PROVE  PartIn(stack'[t][d], Names')
    <3>1. d \in 1 .. Len(stack[t])
      BY <1>0
    <3> QED
      BY <1>1, <2>3, <3>1
  <2> QED
    BY <2>3, <2>4, <2>5 DEF Goes
<1> QED
  BY <1>4, <1>5, <1>6, <1>7, <1>8, <1>9, <1>10, <1>11, <1>12, <1>13 DEF Step

LEMMA PartsStep ==
  ASSUME Inv, Parts, NEW t \in Thread, Step(t)
  PROVE  Parts' /\ PassedImported
<1>1. Goes(t) /\ script' = script
  BY StepGoes, ScriptStays
<1>2. ASSUME NEW u \in Thread, u # t
      PROVE  Goes(u)
  <2>1. stack'[u] = stack[u]
    BY <1>2, StepShape DEF StackStep, Inv, Types
  <2> QED
    BY <2>1, NamesStep, StackGoes
<1>3. ASSUME NEW u \in Thread, NEW d \in 1 .. Len(stack'[u])
      PROVE  PartIn(stack[u][d], Names)'
  <2>1. PartIn(stack'[u][d], Names')
    BY <1>1, <1>2, <1>3 DEF Goes
  <2> QED
    BY <1>1, <2>1 DEF PartIn, At, Code
<1> QED
  BY <1>1, <1>2, <1>3 DEF Parts, PassedImported, Goes

(* An import statement that is passed, other than by its catch, has        *)
(* imported its path, unless it has left an exception pending (vm.c:696).  *)
THEOREM Passing == Spec => PassedIsImported
<1>1. Init => Parts
  <2> SUFFICES ASSUME Init, NEW t \in Thread, NEW d \in 1 .. Len(stack[t])
               PROVE  PartIn(stack[t][d], Names)
    BY DEF Parts
  <2>1. stack[t] = <<Frame(<<t>>, 0)>> /\ Frame(<<t>>, 0).part = 0
    BY DEF Init, Frame
  <2>2. stack[t][d].part = 0
    <3> HIDE DEF Frame
    <3> QED
      BY <2>1
  <2> QED
    BY <2>2 DEF PartIn
<1>2. IInv /\ Parts /\ [Next]_vars => Parts' /\ [PassedImported]_vars
  <2> SUFFICES ASSUME IInv, Parts, [Next]_vars PROVE Parts' /\ [PassedImported]_vars
    OBVIOUS
  <2>1. CASE UNCHANGED vars
    <3>1. UNCHANGED <<script, stack, cache, globals>> /\ [PassedImported]_vars
      BY <2>1 DEF vars, modules
    <3>2. ASSUME NEW t \in Thread, NEW d \in 1 .. Len(stack[t])
          PROVE  PartIn(stack[t][d], Names)'
      BY <3>1 DEF Parts, PartIn, Names, At, Code
    <3>3. Parts'
      BY <3>1, <3>2 DEF Parts
    <3> QED
      BY <3>1, <3>3
  <2>2. ASSUME NEW t \in Thread, Step(t)
        PROVE  Parts' /\ PassedImported
    BY <2>2, PartsStep DEF IInv
  <2> QED
    BY <2>1, <2>2 DEF Next
<1> QED
  BY <1>1, <1>2, Invariant, PTL DEF Spec, PassedIsImported
=============================================================================
