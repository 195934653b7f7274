------------------------ MODULE InterpreterProofs ------------------------
(***************************************************************************)
(* Proofs about Interpreter, for any scripts and any limits: Update        *)
(* executes the commands in the order of the script, whatever interrupts   *)
(* it, unless it is stopped by a requested scene or by loop_limit between  *)
(* a YieldRepeat and the test that sets the index back.                    *)
(*                                                                         *)
(* The invariant says what the loop relies on and nowhere tests: where its *)
(* index may be, that a script's own message is known to it, that a page   *)
(* that should turn has a refresh pending, and that what it has executed   *)
(* is counted.                                                             *)
(***************************************************************************)
EXTENDS Interpreter, SequenceTheorems, TLAPS

Frames == [r : Routines, i : Int]

Typed ==
  /\ main \in BOOLEAN /\ flag \in BOOLEAN /\ needRefresh \in BOOLEAN
  /\ stack \in Seq(Frames) /\ executed \in Nat

InLoop ==
  pc = "loop" => /\ stack # <<>> /\ executed <= loopCount
                 /\ async = "repeat" => Top.i > 1

MessageKnown == message = "own" /\ ~main => show
PageCurrent  == needRefresh \/ page = PageFor[flag]

IInv == TypeOK /\ Typed /\ InLoop /\ MessageKnown /\ PageCurrent

(* The finding of InterpreterRepeat: the command that is to be repeated is  *)
(* skipped because another test stops the loop first.                      *)
Skips == pc = "loop" /\ async = "repeat" /\ (AtLimit \/ AtScene)

-----------------------------------------------------------------------------
(* Stacks of frames *)

Inside(s) == /\ s \in Seq(Frames) /\ Len(s) <= CallLimit + 1
             /\ \A n \in 1 .. Len(s) : s[n].i \in 1 .. Len(Code[s[n].r]) + 1
TopOf(s)  == s[Len(s)]

LEMMA Limits == CallLimit \in Nat \ {0} /\ LoopLimit \in Nat \ {0}
  BY Zenon, InterpreterAssumption DEF InterpreterAssumption

(* The top frame is a frame.                                               *)
LEMMA TopIsFrame ==
  ASSUME NEW s \in Seq(Frames), s # <<>>
  PROVE  /\ Len(s) \in Nat \ {0}
         /\ TopOf(s) \in Frames /\ TopOf(s).r \in Routines /\ TopOf(s).i \in Int
  <1>1. Len(s) \in Nat \ {0}
    OBVIOUS
  <1>2. TopOf(s) \in Frames
    BY <1>1 DEF TopOf
  <1>3. QED
    BY <1>1, <1>2 DEF Frames

(* Setting the index of the top frame *)
LEMMA IndexSet ==
  ASSUME NEW s \in Seq(Frames), s # <<>>, NEW i \in Int
  PROVE  /\ Order!Goto(s, i) = [s EXCEPT ![Len(s)] = [r |-> TopOf(s).r, i |-> i]]
         /\ Order!Goto(s, i) \in Seq(Frames) /\ Len(Order!Goto(s, i)) = Len(s)
         /\ Order!Goto(s, i) # <<>>
         /\ TopOf(Order!Goto(s, i)).r = TopOf(s).r
         /\ TopOf(Order!Goto(s, i)).i = i
         /\ Order!Goto(s, i)[Len(s)] = [r |-> TopOf(s).r, i |-> i]
         /\ \A n \in 1 .. Len(s) - 1 : Order!Goto(s, i)[n] = s[n]
  <1> DEFINE f == [r |-> TopOf(s).r, i |-> i]
             t == Order!Goto(s, i)
  <1>1. Len(s) \in Nat \ {0} /\ TopOf(s) \in Frames /\ f \in Frames
    BY TopIsFrame DEF Frames
  <1>2. t = [s EXCEPT ![Len(s)] = f]
    <2>1. [TopOf(s) EXCEPT !.i = i] = f
      BY <1>1 DEF Frames
    <2>2. QED
      BY <2>1 DEF TopOf, Order!Goto
  <1> HIDE DEF t
  <1>3. t \in Seq(Frames) /\ Len(t) = Len(s) /\ t[Len(s)] = f
    BY <1>1, <1>2
  <1>4. \A n \in 1 .. Len(s) - 1 : t[n] = s[n]
    BY <1>1, <1>2
  <1>5. t # <<>> /\ TopOf(t) = f
    BY <1>1, <1>3 DEF TopOf
  <1>6. TopOf(t).r = TopOf(s).r /\ TopOf(t).i = i
    BY <1>5
  <1>7. QED
    BY <1>2, <1>3, <1>4, <1>5, <1>6 DEF t

LEMMA IndexSetInside ==
  ASSUME NEW s, Inside(s), s # <<>>, NEW i \in 1 .. Len(Code[TopOf(s).r]) + 1
  PROVE  /\ Inside(Order!Goto(s, i)) /\ Order!Goto(s, i) # <<>>
         /\ TopOf(Order!Goto(s, i)).i = i
  <1> DEFINE t == Order!Goto(s, i)
  <1>1. i \in Int /\ s \in Seq(Frames) /\ Len(s) \in Nat \ {0} /\ TopOf(s).r \in Routines
    BY TopIsFrame, ScriptsAssumption DEF Inside
  <1>2. /\ t \in Seq(Frames) /\ Len(t) = Len(s) /\ t # <<>>
        /\ TopOf(t).r = TopOf(s).r /\ TopOf(t).i = i
        /\ \A n \in 1 .. Len(s) - 1 : t[n] = s[n]
    BY <1>1, IndexSet
  <1> HIDE DEF t
  <1>3. ASSUME NEW n \in 1 .. Len(t)
        PROVE  t[n].i \in 1 .. Len(Code[t[n].r]) + 1
    <2>1. CASE n = Len(s)
      BY <1>2, <2>1 DEF TopOf
    <2>2. CASE n \in 1 .. Len(s) - 1
      BY <1>1, <1>2, <2>2 DEF Inside
    <2>3. QED
      BY <1>1, <1>2, <1>3, <2>1, <2>2
  <1>4. Inside(t) /\ t # <<>> /\ TopOf(t).i = i
    BY <1>2, <1>3 DEF Inside
  <1>5. QED
    BY <1>4 DEF t

LEMMA PushInside ==
  ASSUME NEW s, Inside(s), Len(s) <= CallLimit, NEW q \in Routines
  PROVE  /\ Inside(Append(s, [r |-> q, i |-> 1]))
         /\ Append(s, [r |-> q, i |-> 1]) # <<>>
  <1> DEFINE f == [r |-> q, i |-> 1]
             t == Append(s, f)
  <1>1. f \in Frames /\ s \in Seq(Frames) /\ f.i \in 1 .. Len(Code[f.r]) + 1
    BY ScriptsAssumption DEF Frames, Inside
  <1>2. /\ t \in Seq(Frames) /\ Len(t) = Len(s) + 1 /\ t[Len(s) + 1] = f
        /\ Len(s) \in Nat /\ \A n \in 1 .. Len(s) : t[n] = s[n]
    BY <1>1
  <1> HIDE DEF f, t
  <1>3. ASSUME NEW n \in 1 .. Len(t)
        PROVE  t[n].i \in 1 .. Len(Code[t[n].r]) + 1
    <2>1. CASE n = Len(s) + 1
      BY <1>1, <1>2, <2>1
    <2>2. CASE n \in 1 .. Len(s)
      BY <1>2, <2>2 DEF Inside
    <2>3. QED
      BY <1>2, <1>3, <2>1, <2>2
  <1>4. Inside(t) /\ t # <<>>
    BY Limits, <1>2, <1>3 DEF Inside
  <1>5. QED
    BY <1>4 DEF f, t

LEMMA DropInside ==
  ASSUME NEW s, Inside(s), s # <<>>
  PROVE  /\ Inside(SubSeq(s, 1, Len(s) - 1))
         /\ Len(SubSeq(s, 1, Len(s) - 1)) = Len(s) - 1
  <1> DEFINE t == SubSeq(s, 1, Len(s) - 1)
  <1>1. s \in Seq(Frames) /\ Len(s) \in Nat \ {0}
    BY DEF Inside
  <1>2. t \in Seq(Frames) /\ Len(t) = Len(s) - 1 /\ \A n \in 1 .. Len(t) : t[n] = s[n]
    <2>1. \A n \in 1 .. Len(s) - 1 : s[n] \in Frames
      BY <1>1
    <2>2. /\ t \in Seq(Frames)
          /\ Len(t) = IF 1 <= Len(s) - 1 THEN Len(s) - 1 - 1 + 1 ELSE 0
          /\ \A n \in 1 .. Len(s) - 1 - 1 + 1 : t[n] = s[1 + n - 1]
      BY <1>1, <2>1, SubSeqProperties
    <2> HIDE DEF t
    <2>3. Len(t) = Len(s) - 1
      <3>1. Len(t) = IF 1 <= Len(s) - 1 THEN Len(s) - 1 - 1 + 1 ELSE 0
        BY <2>2
      <3>2. CASE Len(s) = 1
        BY <3>1, <3>2
      <3>3. CASE Len(s) > 1
        BY <1>1, <3>1, <3>3
      <3>4. Len(s) = 1 \/ Len(s) > 1
        BY <1>1
      <3>5. QED
        BY <3>2, <3>3, <3>4
    <2>4. ASSUME NEW n \in 1 .. Len(t)
          PROVE  t[n] = s[n]
      <3>1. n \in 1 .. Len(s) - 1 - 1 + 1 /\ 1 + n - 1 = n
        BY <1>1, <2>3
      <3>2. t[n] = s[1 + n - 1]
        BY <2>2, <3>1
      <3>3. QED
        BY <3>1, <3>2
    <2>5. QED
      BY <2>2, <2>3, <2>4
  <1> HIDE DEF t
  <1>3. Inside(t)
    <2>1. CallLimit \in Nat /\ Len(s) <= CallLimit + 1
      BY Limits DEF Inside
    <2>2. Len(t) <= CallLimit + 1
      BY <1>1, <1>2, <2>1
    <2>3. ASSUME NEW n \in 1 .. Len(t)
          PROVE  t[n].i \in 1 .. Len(Code[t[n].r]) + 1
      <3>1. n \in 1 .. Len(s)
        BY <1>1, <1>2
      <3>2. s[n].i \in 1 .. Len(Code[s[n].r]) + 1
        BY <3>1 DEF Inside
      <3>3. QED
        BY <1>2, <3>2
    <2>4. QED
      BY <1>2, <2>2, <2>3 DEF Inside
  <1>4. QED
    BY <1>2, <1>3 DEF t

-----------------------------------------------------------------------------
(* The invariant *)

LEMMA StackInside == IInv => Inside(stack)
  BY DEF IInv, TypeOK, Typed, Inside

LEMMA PagesAreRoutines == \A b \in BOOLEAN : PageFor[b] \in Routines
  BY InterpreterAssumption DEF InterpreterAssumption

LEMMA EmptyInside == Inside(<<>>)
  BY Limits DEF Inside

LEMMA Initially == Init => IInv
  <1> SUFFICES ASSUME Init PROVE IInv
    OBVIOUS
  <1>1. Inside(stack)
    BY EmptyInside DEF Init
  <1>2. page \in Routines
    BY PagesAreRoutines DEF Init
  <1>3. TypeOK
    BY <1>1, <1>2, Limits DEF Init, TypeOK, Inside
  <1>4. Typed /\ InLoop /\ MessageKnown /\ PageCurrent
    BY <1>1 DEF Init, Typed, Inside, InLoop, MessageKnown, PageCurrent
  <1>5. QED
    BY <1>3, <1>4 DEF IInv

(* Leaving the loop, with a stack that is sound                            *)
LEMMA LeaveKeeps ==
  ASSUME IInv, pc = "loop", NEW s, NEW w, NEW sh, Leave(s, w, sh),
         Inside(s), message = "own" /\ ~main => sh
  PROVE  IInv'
  <1> USE DEF IInv, Leave, Refresh
  <1>1. page' \in Routines /\ PageCurrent'
    BY PagesAreRoutines DEF TypeOK, Typed, PageCurrent
  <1>2. Inside(stack')
    <2>1. CASE Turns /\ ~main
      BY <2>1, EmptyInside
    <2>2. CASE ~(Turns /\ ~main)
      <3>1. stack' = s
        BY <2>2
      <3>2. QED
        BY <3>1
    <2>3. QED
      BY <2>1, <2>2
  <1>3. TypeOK' /\ Typed'
    BY <1>1, <1>2 DEF TypeOK, Typed, Inside
  <1>4. InLoop' /\ MessageKnown'
    BY DEF InLoop, MessageKnown, TypeOK
  <1>5. QED
    BY <1>1, <1>3, <1>4

(* Going on with the next iteration                                        *)
GoesOn ==
  /\ Goes /\ Iterated /\ pc' = pc
  /\ Inside(stack') /\ stack' # <<>>
  /\ executed' \in {executed, executed + 1}
  /\ \/ needRefresh' = FALSE /\ flag' = flag
     \/ needRefresh' = TRUE /\ flag' = ~flag
  /\ async' \in {"none", "yield", "repeat"}
  /\ async' = "repeat" => TopOf(stack').i > 1
  /\ \/ message' = message /\ show' = FALSE
     \/ message' = "own" /\ show' = TRUE

LEMMA GoesOnKeeps ==
  ASSUME IInv, GoesOn
  PROVE  IInv'
  <1> USE DEF IInv, GoesOn, Iterated
  <1>1. pc = "loop" /\ loopCount \in 0 .. LoopLimit /\ loopCount < LoopLimit
    BY Limits DEF Goes, Running, Free, AtLimit, TypeOK
  <1>2. page' \in Routines /\ PageCurrent'
    BY PagesAreRoutines DEF TypeOK, Typed, PageCurrent
  <1>3. loopCount' \in 0 .. LoopLimit /\ executed' \in Nat /\ executed' <= loopCount'
    BY <1>1, Limits DEF InLoop, Typed
  <1>4. TypeOK'
    BY <1>1, <1>2, <1>3, Limits DEF TypeOK, Inside
  <1>5. Typed'
    <2>1. flag' \in BOOLEAN /\ main' \in BOOLEAN /\ needRefresh' \in BOOLEAN
      BY Zenon DEF Typed
    <2>2. QED
      BY <1>3, <2>1 DEF Typed, Inside
  <1>6. InLoop'
    BY <1>1, <1>3 DEF InLoop, Top, TopOf
  <1>7. MessageKnown'
    BY DEF MessageKnown, Goes, Running, Talking
  <1>8. QED
    BY <1>2, <1>4, <1>5, <1>6, <1>7

(* The top frame while commands are executed, and what becomes of it       *)
LEMMA TopInside ==
  ASSUME IInv, pc = "loop"
  PROVE  /\ Inside(stack) /\ stack \in Seq(Frames) /\ stack # <<>> /\ Top = TopOf(stack)
         /\ Top.r \in Routines /\ Top.i \in 1 .. Len(Code[Top.r]) + 1
         /\ Len(Code[Top.r]) \in Nat /\ Len(stack) \in Nat \ {0}
  <1>1. Inside(stack) /\ stack \in Seq(Frames) /\ stack # <<>> /\ Top = TopOf(stack)
    BY StackInside DEF IInv, InLoop, Inside, Top, TopOf
  <1>2. Len(stack) \in Nat \ {0}
    BY <1>1
  <1>3. Top.i \in 1 .. Len(Code[Top.r]) + 1
    BY <1>1, <1>2 DEF Inside, Top
  <1>4. QED
    BY <1>1, <1>2, <1>3, TopIsFrame, ScriptsAssumption

LEMMA IncrementedIsPast == \A s : Incremented(s) = Order!Past(s)
  BY DEF Incremented, Order!Past, Order!Goto

LEMMA NextInside ==
  ASSUME IInv, pc = "loop", ~Done
  PROVE  /\ Inside(Incremented(stack)) /\ Incremented(stack) # <<>>
         /\ TopOf(Incremented(stack)).i > 1
         /\ Len(Incremented(stack)) = Len(stack)
  <1>1. Top.i + 1 \in 1 .. Len(Code[Top.r]) + 1 /\ Top.i + 1 \in Int
    BY TopInside DEF Done
  <1>2. Incremented(stack) = Order!Goto(stack, Top.i + 1)
    BY IncrementedIsPast DEF Order!Past, Top
  <1>3. /\ Inside(Incremented(stack)) /\ Incremented(stack) # <<>>
        /\ TopOf(Incremented(stack)).i = Top.i + 1
    BY <1>1, <1>2, TopInside, IndexSetInside
  <1>4. Len(Incremented(stack)) = Len(stack)
    BY <1>1, <1>2, TopInside, IndexSet
  <1>5. QED
    BY <1>1, <1>3, <1>4, TopInside

LEMMA Arguments ==
  ASSUME IInv, pc = "loop", ~Done
  PROVE  /\ Command.op \in {"jump", "if"} =>
              LET s == [stack EXCEPT ![Len(stack)].i = Command.arg] IN
              Inside(s) /\ s # <<>>
         /\ Command.op = "call" => Command.arg \in Routines
  <1>1. Top.i \in 1 .. Len(Code[Top.r])
    BY TopInside DEF Done
  <1>2. /\ Command.op \in {"jump", "if"} => Command.arg \in 1 .. Len(Code[Top.r]) + 1
        /\ Command.op = "call" => Command.arg \in Routines
    BY <1>1, TopInside, ScriptsAssumption DEF Command
  <1>3. ASSUME Command.op \in {"jump", "if"}
        PROVE  Inside(Order!Goto(stack, Command.arg)) /\ Order!Goto(stack, Command.arg) # <<>>
    BY <1>2, <1>3, TopInside, IndexSetInside
  <1>4. QED
    BY <1>2, <1>3 DEF Order!Goto

LEMMA CallInside ==
  ASSUME IInv, pc = "loop", ~Done, Command.op = "call", Len(stack) <= CallLimit
  PROVE  Inside(Called(Command.arg)) /\ Called(Command.arg) # <<>>
  BY NextInside, Arguments, PushInside DEF Called

LEMMA EndInside ==
  ASSUME IInv, pc = "loop"
  PROVE  LET s == [stack EXCEPT ![Len(stack)].i = Len(Code[Top.r]) + 1] IN
         Inside(s) /\ s # <<>>
  <1>1. Len(Code[Top.r]) + 1 \in 1 .. Len(Code[Top.r]) + 1
    BY TopInside
  <1>2. /\ Inside(Order!Goto(stack, Len(Code[Top.r]) + 1))
        /\ Order!Goto(stack, Len(Code[Top.r]) + 1) # <<>>
    BY <1>1, TopInside, IndexSetInside
  <1>3. QED
    BY <1>2 DEF Order!Goto

LEMMA BackInside ==
  ASSUME IInv, pc = "loop", async = "repeat"
  PROVE  Inside(StepBack)
  <1>1. Top.i - 1 \in 1 .. Len(Code[Top.r]) + 1 /\ Top.i - 1 \in Int
    BY TopInside DEF IInv, InLoop
  <1>2. StepBack = Order!Goto(stack, Top.i - 1)
    BY DEF StepBack, Order!Goto, Top
  <1>3. QED
    BY <1>1, <1>2, TopInside, IndexSetInside

-----------------------------------------------------------------------------
(* Every step keeps the invariant *)

(* What a command leaves to be shown: that the loop goes on, or is left.   *)
LEMMA CommandsKeep ==
  ASSUME IInv, Commands
  PROVE  IInv'
  <1>1. ASSUME NEW ops, Execute(ops)
        PROVE  /\ pc = "loop" /\ ~Done /\ Goes /\ async = "none" /\ Command.op \in ops
               /\ executed' \in {executed, executed + 1}
    BY <1>1 DEF Execute, Goes, Running, Free, AtAsync
  <1>2. CASE Plain
    BY <1>1, <1>2, NextInside, GoesOnKeeps DEF Plain, Continue, GoesOn, IInv, TypeOK
  <1>3. CASE Wait
    BY <1>1, <1>3, NextInside, GoesOnKeeps DEF Wait, Continue, GoesOn, IInv, TypeOK
  <1>4. CASE Jump
    <2>1. Inside(stack') /\ stack' # <<>>
      BY <1>1, <1>4, Arguments DEF Jump, Continue
    <2>2. GoesOn
      BY <1>1, <1>4, <2>1 DEF Jump, Continue, GoesOn
    <2>3. QED
      BY <2>2, GoesOnKeeps
  <1>5. CASE ConditionalBranch
    <2>1. Inside(stack') /\ stack' # <<>>
      BY <1>1, <1>5, NextInside, Arguments DEF ConditionalBranch, Continue
    <2>2. GoesOn
      BY <1>1, <1>5, <2>1 DEF ConditionalBranch, Continue, GoesOn
    <2>3. QED
      BY <2>2, GoesOnKeeps
  <1>6. CASE EndEventProcessing
    <2>1. Inside(stack') /\ stack' # <<>>
      BY <1>1, <1>6, EndInside DEF EndEventProcessing, Continue
    <2>2. GoesOn
      BY <1>1, <1>6, <2>1 DEF EndEventProcessing, Continue, GoesOn
    <2>3. QED
      BY <2>2, GoesOnKeeps
  <1>7. CASE CallEvent
    <2>1. Inside(stack') /\ stack' # <<>>
      BY <1>1, <1>7, CallInside DEF CallEvent, Continue
    <2>2. GoesOn
      BY <1>1, <1>7, <2>1 DEF CallEvent, Continue, GoesOn
    <2>3. QED
      BY <2>2, GoesOnKeeps
  <1>8. CASE CallTooDeep
    <2>1. executed' \in Nat /\ executed' <= loopCount + 1
      BY <1>1, <1>8 DEF CallTooDeep, IInv, TypeOK, Typed, InLoop
    <2>2. QED
      BY <1>8, <2>1 DEF CallTooDeep, script, IInv, TypeOK, Typed, InLoop, MessageKnown,
                        PageCurrent
  <1>9. CASE ControlSwitches
    BY <1>1, <1>9, NextInside, GoesOnKeeps
    DEF ControlSwitches, Continue, GoesOn, IInv, TypeOK
  <1>10. CASE Yield
    BY <1>1, <1>10, NextInside, GoesOnKeeps DEF Yield, Continue, GoesOn, IInv, TypeOK
  <1>11. CASE Fetch
    BY <1>1, <1>11, NextInside, GoesOnKeeps DEF Fetch, Continue, GoesOn, IInv, TypeOK
  <1>12. CASE ShowMessage
    BY <1>1, <1>12, NextInside, GoesOnKeeps DEF ShowMessage, Continue, GoesOn, IInv, TypeOK
  <1>13. CASE Refused
    <2>1. message = "own" /\ ~main => FALSE
      BY <1>13 DEF Refused, Goes, Running, Talking, IInv, MessageKnown
    <2>2. QED
      BY <1>13, <2>1, StackInside, LeaveKeeps DEF Refused, Goes, Running, Free
  <1>14. CASE OpenScene
    <2>1. Inside(stack')
      BY <1>1, <1>14, NextInside DEF OpenScene
    <2>2. executed' \in Nat /\ executed' <= loopCount' + 1
      BY <1>1, <1>14 DEF OpenScene, IInv, TypeOK, Typed, InLoop
    <2>3. page' \in Routines /\ PageCurrent'
      BY <1>14, PagesAreRoutines DEF OpenScene, IInv, TypeOK, Typed, PageCurrent
    <2>4. TypeOK' /\ Typed'
      BY <1>14, <2>1, <2>2, <2>3 DEF OpenScene, IInv, TypeOK, Typed, Inside
    <2>5. QED
      BY <1>14, <2>3, <2>4 DEF OpenScene, IInv, InLoop, MessageKnown
  <1>15. QED
    BY <1>2, <1>3, <1>4, <1>5, <1>6, <1>7, <1>8, <1>9, <1>10, <1>11, <1>12, <1>13,
       <1>14 DEF Commands

LEMMA StopsKeep ==
  ASSUME IInv, Stops
  PROVE  IInv'
  <1>1. message = "own" /\ ~main => show
    BY DEF IInv, MessageKnown
  <1>2. CASE LimitStop
    BY <1>1, <1>2, StackInside, LeaveKeeps DEF LimitStop
  <1>3. CASE SceneStop
    BY <1>1, <1>3, StackInside, LeaveKeeps DEF SceneStop
  <1>4. CASE AsyncStop
    <2>1. CASE async = "repeat"
      BY <1>1, <1>4, <2>1, BackInside, LeaveKeeps DEF AsyncStop
    <2>2. CASE async # "repeat"
      BY <1>1, <1>4, <2>2, StackInside, LeaveKeeps DEF AsyncStop
    <2>3. QED
      BY <2>1, <2>2
  <1>5. CASE MessageStop
    BY <1>1, <1>5, StackInside, LeaveKeeps DEF MessageStop, Free
  <1>6. CASE WaitStop
    BY <1>1, <1>6, StackInside, LeaveKeeps DEF WaitStop, Free, Talking
  <1>7. CASE PageStop
    BY <1>1, <1>7, StackInside, LeaveKeeps DEF PageStop, Running, Free, Talking
  <1>8. QED
    BY <1>2, <1>3, <1>4, <1>5, <1>6, <1>7 DEF Stops

LEMMA ReturnedInside ==
  ASSUME IInv, pc = "loop"
  PROVE  Inside(Order!Returned(stack))
  <1>1. 1 \in 1 .. Len(Code[TopOf(stack).r]) + 1 /\ Inside(stack) /\ stack # <<>>
    BY TopInside
  <1>2. Inside(Order!Goto(stack, 1))
    BY <1>1, IndexSetInside
  <1>3. Inside(Order!Drop(stack))
    BY <1>1, DropInside DEF Order!Drop
  <1>4. QED
    BY <1>2, <1>3 DEF Order!Returned

LEMMA FinishFrameKeeps ==
  ASSUME IInv, FinishFrame
  PROVE  IInv'
  <1>1. Goes /\ pc = "loop" /\ async = "none"
    BY DEF FinishFrame, Goes, Running, Free, AtAsync
  <1>2. CASE Len(stack) > 1
    <2>1. Inside(Order!Drop(stack)) /\ Len(Order!Drop(stack)) = Len(stack) - 1
      BY <1>1, TopInside, DropInside DEF Order!Drop
    <2>2. Len(Order!Drop(stack)) # 0
      BY <1>1, <1>2, <2>1, TopInside
    <2>3. Order!Drop(stack) # <<>>
      BY <2>2
    <2>4. GoesOn
      BY <1>1, <1>2, <2>1, <2>3 DEF FinishFrame, GoesOn
    <2>5. QED
      BY <2>4, GoesOnKeeps
  <1>3. CASE ~(Len(stack) > 1)
    <2>1. Leave(Order!Returned(stack), 0, FALSE)
      BY <1>3 DEF FinishFrame
    <2>2. ~(message = "own" /\ ~main)
      BY <1>1 DEF Goes, Running, Talking, IInv, MessageKnown
    <2>3. QED
      BY <1>1, <2>1, <2>2, ReturnedInside, LeaveKeeps
  <1>4. QED
    BY <1>2, <1>3

LEMMA EnterKeeps ==
  ASSUME IInv, Enter
  PROVE  IInv'
  <1> USE DEF Enter, IInv
  <1>1. Inside(stack') /\ stack' # <<>>
    <2>1. CASE stack = <<>>
      <3>1. Inside(Append(<<>>, [r |-> page, i |-> 1]))
        <4>1. Len(<<>>) <= CallLimit
          BY Limits
        <4>2. QED
          BY <4>1, EmptyInside, PushInside DEF TypeOK
      <3>2. stack' = Append(<<>>, [r |-> page, i |-> 1])
        BY <2>1
      <3>3. stack' # <<>>
        BY <2>1
      <3>4. QED
        BY <3>1, <3>2, <3>3
    <2>2. CASE stack # <<>>
      BY <2>2, StackInside
    <2>3. QED
      BY <2>1, <2>2
  <1>2. loopCount' \in 0 .. LoopLimit
    BY Limits DEF TypeOK
  <1>3. TypeOK' /\ Typed'
    BY <1>1, <1>2 DEF TypeOK, Typed, Inside
  <1>4. InLoop'
    BY <1>1, <1>2 DEF InLoop
  <1>5. MessageKnown' /\ PageCurrent'
    BY DEF MessageKnown, PageCurrent
  <1>6. QED
    BY <1>3, <1>4, <1>5

LEMMA OthersKeep ==
  ASSUME IInv, Intrude \/ CloseMessage \/ ChangeScene \/ PictureArrives
  PROVE  IInv'
  <1>1. /\ pc = "idle" /\ UNCHANGED <<main, wait, loopCount, pc, executed, page, stack, show,
                                     async>>
        /\ \/ UNCHANGED <<flag, needRefresh>>
           \/ flag' = ~flag /\ needRefresh' = TRUE
        /\ message' \in {message, "none", "other"}
    BY DEF Intrude, CloseMessage, ChangeScene, PictureArrives, Between
  <1>2. flag' \in BOOLEAN /\ needRefresh' \in BOOLEAN /\ main' \in BOOLEAN
    BY <1>1, Zenon DEF IInv, Typed
  <1>3. QED
    BY <1>1, <1>2 DEF IInv, TypeOK, Typed, InLoop, MessageKnown, PageCurrent

LEMMA RefreshElsewhereKeeps ==
  ASSUME IInv, RefreshElsewhere
  PROVE  IInv'
  <1> USE DEF IInv, RefreshElsewhere, Refresh
  <1>1. page' \in Routines /\ PageCurrent'
    BY PagesAreRoutines DEF TypeOK, Typed, PageCurrent
  <1>2. Inside(stack')
    <2>1. CASE Turns /\ ~main
      BY <2>1, EmptyInside
    <2>2. CASE ~(Turns /\ ~main)
      BY <2>2, StackInside
    <2>3. QED
      BY <2>1, <2>2
  <1>3. TypeOK' /\ Typed'
    BY <1>1, <1>2 DEF TypeOK, Typed, Inside
  <1>4. InLoop' /\ MessageKnown'
    BY DEF InLoop, MessageKnown, TypeOK
  <1>5. QED
    BY <1>1, <1>3, <1>4

LEMMA Inductive == IInv /\ [Next]_vars => IInv'
  <1> SUFFICES ASSUME IInv, [Next]_vars PROVE IInv'
    OBVIOUS
  <1>1. CASE UNCHANGED vars
    BY <1>1 DEF vars, script, IInv, TypeOK, Typed, InLoop, Top, MessageKnown, PageCurrent
  <1>2. QED
    BY <1>1, EnterKeeps, StopsKeep, FinishFrameKeeps, CommandsKeep, OthersKeep,
       RefreshElsewhereKeeps DEF Next, Update, Ended

LEMMA SpecIInv == Spec => []IInv
  BY Initially, Inductive, PTL DEF Spec

-----------------------------------------------------------------------------
(* Every step is a step of Script, or none *)

LEMMA NothingOwed == pc # "loop" \/ async # "repeat" => AsScript = stack
  BY DEF AsScript

(* The page may turn behind a script that goes on, or that is held up.     *)
LEMMA LeaveRefines ==
  ASSUME NEW s, NEW w, NEW sh, Leave(s, w, sh), AsScript = s
  PROVE  [Order!Next]_Order!vars
  <1> USE DEF Leave, Refresh
  <1>1. AsScript' = stack'
    BY NothingOwed DEF AsScript
  <1>2. CASE Turns /\ ~main
    BY <1>1, <1>2 DEF Turns, Order!Next, Order!TurnPage
  <1>3. CASE ~(Turns /\ ~main)
    <2>1. AsScript' = AsScript /\ UNCHANGED <<main, flag, message, loaded>>
      BY <1>1, <1>3
    <2>2. CASE page' = page
      BY <2>1, <2>2 DEF Order!vars
    <2>3. CASE page' # page
      <3>1. main /\ page' = PageFor[flag] /\ page # PageFor[flag]
        BY <1>3, <2>3 DEF Turns
      <3>2. QED
        BY <2>1, <3>1 DEF Order!Next, Order!TurnPage
    <2>4. QED
      BY <2>2, <2>3
  <1>4. QED
    BY <1>2, <1>3

(* Past the tests of the loop Script may execute the command, too.         *)
Ready ==
  /\ AsScript = stack /\ async = "none"
  /\ message # "own" /\ (main => message = "none")
  /\ ~main => page = PageFor[flag]

LEMMA GoesReady ==
  ASSUME IInv, Goes
  PROVE  Ready
  BY NothingOwed DEF Goes, Running, Free, AtAsync, Talking, Turns, IInv, MessageKnown,
                     PageCurrent, Ready

LEMMA PageTurnsBehind ==
  ASSUME IInv, Goes, page' = IF needRefresh THEN PageFor[flag] ELSE page
  PROVE  Order!PageMayTurn
  BY DEF Goes, Turns, IInv, PageCurrent, Order!PageMayTurn

(* A command that does what Script says it does                            *)
LEMMA StepRefines ==
  ASSUME IInv, Goes, ~Done,
         AsScript' = Order!After(AsScript),
         page' = IF needRefresh THEN PageFor[flag] ELSE page,
         UNCHANGED <<main, loaded>>,
         Command.op = "fetch" => loaded,
         Command.op = "say" => message = "none",
         Command.op = "call" => Len(stack) <= CallLimit,
         message' = IF Command.op = "say" THEN "own" ELSE message,
         flag' = IF Command.op = "flip" THEN ~flag ELSE flag
  PROVE  Order!Next
  <1>1. Ready /\ Order!PageMayTurn /\ stack # <<>>
    BY GoesReady, PageTurnsBehind, TopInside DEF Goes, Running, Free
  <1>2. AsScript = stack /\ Order!Top = Top
    BY <1>1 DEF Ready, Order!Top, Top
  <1>3. ~Order!Done(Order!Top) /\ Order!Command(Order!Top) = Command
    BY <1>2 DEF Order!Done, Order!Command, Done, Command
  <1>4. Order!Step
    BY <1>1, <1>2, <1>3 DEF Order!Step, Ready
  <1>5. QED
    BY <1>4 DEF Order!Next

(* What Script makes of the stack, in Interpreter's words                   *)
LEMMA AfterIs ==
  /\ Command.op \in {"plain", "wait", "flip", "yield", "fetch", "say", "menu"}
       => Order!After(stack) = Incremented(stack)
  /\ Command.op = "jump"
       => Order!After(stack) = [stack EXCEPT ![Len(stack)].i = Command.arg]
  /\ Command.op = "if"
       => Order!After(stack) = IF flag THEN Incremented(stack)
                               ELSE [stack EXCEPT ![Len(stack)].i = Command.arg]
  /\ Command.op = "end"
       => Order!After(stack) = [stack EXCEPT ![Len(stack)].i = Len(Code[Top.r]) + 1]
  /\ Command.op = "call" => Order!After(stack) = Called(Command.arg)
  <1> USE IncrementedIsPast DEF Order!After, Order!Command, Command, Top
  <1>1. Command.op \in {"plain", "wait", "flip", "yield", "fetch", "say", "menu"}
          => Order!After(stack) = Incremented(stack)
    OBVIOUS
  <1>2. Command.op = "jump"
          => Order!After(stack) = [stack EXCEPT ![Len(stack)].i = Command.arg]
    BY DEF Order!Goto
  <1>3. Command.op = "if"
          => Order!After(stack) = IF flag THEN Incremented(stack)
                                  ELSE [stack EXCEPT ![Len(stack)].i = Command.arg]
    BY DEF Order!Goto
  <1>4. Command.op = "end"
          => Order!After(stack) = [stack EXCEPT ![Len(stack)].i = Len(Code[Top.r]) + 1]
    BY DEF Order!Goto
  <1>5. Command.op = "call" => Order!After(stack) = Called(Command.arg)
    BY DEF Called, Order!Entry
  <1>6. QED
    BY <1>1, <1>2, <1>3, <1>4, <1>5

(* Setting the index back undoes the increment.                            *)
LEMMA BackAgain ==
  ASSUME NEW s \in Seq(Frames), s # <<>>
  PROVE  LET t == Incremented(s) IN [t EXCEPT ![Len(t)].i = @ - 1] = s
  <1> DEFINE t == Order!Goto(s, TopOf(s).i + 1)
             u == Order!Goto(t, TopOf(s).i)
  <1>1. /\ Len(s) \in Nat \ {0} /\ TopOf(s) \in Frames /\ TopOf(s).i \in Int
        /\ TopOf(s).i + 1 \in Int /\ TopOf(s).i + 1 - 1 = TopOf(s).i
    BY TopIsFrame
  <1>2. /\ t \in Seq(Frames) /\ t # <<>> /\ Len(t) = Len(s)
        /\ TopOf(t).r = TopOf(s).r /\ TopOf(t).i = TopOf(s).i + 1
        /\ \A n \in 1 .. Len(s) - 1 : t[n] = s[n]
    BY <1>1, IndexSet
  <1> HIDE DEF t
  <1>3. /\ u \in Seq(Frames) /\ Len(u) = Len(t)
        /\ u[Len(t)] = [r |-> TopOf(t).r, i |-> TopOf(s).i]
        /\ \A n \in 1 .. Len(t) - 1 : u[n] = t[n]
    BY <1>1, <1>2, IndexSet
  <1> HIDE DEF u
  <1>4. u[Len(s)] = s[Len(s)]
    <2>1. TopOf(s) = [r |-> TopOf(s).r, i |-> TopOf(s).i]
      BY <1>1 DEF Frames
    <2>2. QED
      BY <1>2, <1>3, <2>1 DEF TopOf
  <1>5. \A n \in 1 .. Len(s) : u[n] = s[n]
    BY <1>1, <1>2, <1>3, <1>4
  <1>6. u = s
    BY <1>2, <1>3, <1>5
  <1>7. u = [t EXCEPT ![Len(t)].i = TopOf(t).i - 1]
    <2>1. TopOf(t).i - 1 = TopOf(s).i
      BY <1>1, <1>2
    <2>2. QED
      BY <2>1 DEF u, Order!Goto
  <1>8. t = Incremented(s)
    BY IncrementedIsPast DEF t, Order!Past, TopOf
  <1>9. QED
    BY <1>6, <1>7, <1>8 DEF TopOf

LEMMA FetchAgain ==
  ASSUME IInv, Fetch, ~loaded
  PROVE  [Order!Next]_Order!vars
  <1> USE DEF Fetch, Execute, Continue, Iterated
  <1>1. Ready /\ Order!PageMayTurn /\ stack # <<>> /\ pc = "loop"
    BY GoesReady, PageTurnsBehind, TopInside DEF Goes, Running, Free
  <1>2. AsScript' = stack
    <2>1. AsScript' = StepBack'
      BY <1>1 DEF AsScript
    <2>2. StepBack' = stack
      BY <1>1, TopInside, BackAgain DEF StepBack
    <2>3. QED
      BY <2>1, <2>2
  <1>3. AsScript' = AsScript /\ UNCHANGED <<main, flag, message, loaded>>
    BY <1>1, <1>2 DEF Ready
  <1>4. CASE page' = page
    BY <1>3, <1>4 DEF Order!vars
  <1>5. CASE page' # page
    BY <1>1, <1>3, <1>5 DEF Order!Next, Order!TurnPage, Order!PageMayTurn
  <1>6. QED
    BY <1>4, <1>5

LEMMA CommandsRefine ==
  ASSUME IInv, Commands
  PROVE  [Order!Next]_Order!vars
  <1> USE DEF Execute, Continue, Iterated
  <1>1. ASSUME Goes
        PROVE  AsScript = stack /\ async = "none"
    BY <1>1, GoesReady DEF Ready
  <1>2. CASE Plain
    <2>1. AsScript' = Order!After(AsScript)
      BY <1>1, <1>2, AfterIs, NothingOwed DEF Plain, AsScript
    <2>2. QED
      BY <1>2, <2>1, StepRefines DEF Plain
  <1>3. CASE Wait
    <2>1. AsScript' = Order!After(AsScript)
      BY <1>1, <1>3, AfterIs DEF Wait, AsScript
    <2>2. QED
      BY <1>3, <2>1, StepRefines DEF Wait
  <1>4. CASE Jump
    <2>1. AsScript' = Order!After(AsScript)
      BY <1>1, <1>4, AfterIs DEF Jump, AsScript
    <2>2. QED
      BY <1>4, <2>1, StepRefines DEF Jump
  <1>5. CASE ConditionalBranch
    <2>1. AsScript' = Order!After(AsScript)
      BY <1>1, <1>5, AfterIs DEF ConditionalBranch, AsScript
    <2>2. QED
      BY <1>5, <2>1, StepRefines DEF ConditionalBranch
  <1>6. CASE EndEventProcessing
    <2>1. AsScript' = Order!After(AsScript)
      BY <1>1, <1>6, AfterIs DEF EndEventProcessing, AsScript
    <2>2. QED
      BY <1>6, <2>1, StepRefines DEF EndEventProcessing
  <1>7. CASE CallEvent
    <2>1. AsScript' = Order!After(AsScript)
      BY <1>1, <1>7, AfterIs DEF CallEvent, AsScript
    <2>2. QED
      BY <1>7, <2>1, StepRefines DEF CallEvent
  <1>8. CASE CallTooDeep
    <2>1. AsScript' = AsScript
      BY <1>1, <1>8 DEF CallTooDeep, AsScript, script
    <2>2. QED
      BY <1>8, <2>1 DEF CallTooDeep, script, Order!vars
  <1>9. CASE ControlSwitches
    <2>1. AsScript' = Order!After(AsScript)
      BY <1>1, <1>9, AfterIs DEF ControlSwitches, AsScript
    <2>2. QED
      BY <1>9, <2>1, StepRefines DEF ControlSwitches
  <1>10. CASE Yield
    <2>1. AsScript' = Order!After(AsScript)
      BY <1>1, <1>10, AfterIs DEF Yield, AsScript
    <2>2. QED
      BY <1>10, <2>1, StepRefines DEF Yield
  <1>11. CASE Fetch /\ loaded
    <2>1. AsScript' = Order!After(AsScript)
      BY <1>1, <1>11, AfterIs DEF Fetch, AsScript
    <2>2. QED
      BY <1>11, <2>1, StepRefines DEF Fetch
  <1>12. CASE ShowMessage
    <2>1. AsScript' = Order!After(AsScript)
      BY <1>1, <1>12, AfterIs DEF ShowMessage, AsScript
    <2>2. QED
      BY <1>12, <2>1, StepRefines DEF ShowMessage
  <1>13. CASE Refused
    BY <1>1, <1>13, LeaveRefines DEF Refused
  <1>14. CASE OpenScene
    <2>1. AsScript' = Order!After(AsScript)
      BY <1>1, <1>14, AfterIs DEF OpenScene, AsScript
    <2>2. QED
      BY <1>14, <2>1, StepRefines DEF OpenScene
  <1>15. QED
    BY <1>2, <1>3, <1>4, <1>5, <1>6, <1>7, <1>8, <1>9, <1>10, <1>11, <1>12, <1>13,
       <1>14, FetchAgain DEF Commands

LEMMA StopsRefine ==
  ASSUME IInv, Stops, ~Skips
  PROVE  [Order!Next]_Order!vars
  <1>1. CASE LimitStop
    BY <1>1, NothingOwed, LeaveRefines DEF LimitStop, Skips
  <1>2. CASE SceneStop
    BY <1>2, NothingOwed, LeaveRefines DEF SceneStop, Skips
  <1>3. CASE AsyncStop
    BY <1>3, LeaveRefines DEF AsyncStop, AsScript
  <1>4. CASE MessageStop
    BY <1>4, NothingOwed, LeaveRefines DEF MessageStop, Free, AtAsync
  <1>5. CASE WaitStop
    BY <1>5, NothingOwed, LeaveRefines DEF WaitStop, Free, AtAsync
  <1>6. CASE PageStop
    BY <1>6, NothingOwed, LeaveRefines DEF PageStop, Running, Free, AtAsync
  <1>7. QED
    BY <1>1, <1>2, <1>3, <1>4, <1>5, <1>6 DEF Stops

LEMMA FinishFrameRefines ==
  ASSUME IInv, FinishFrame
  PROVE  [Order!Next]_Order!vars
  <1> USE DEF FinishFrame
  <1>1. Ready /\ stack # <<>> /\ Done /\ Len(stack) \in Nat \ {0}
    BY GoesReady, TopInside DEF Goes, Running, Free
  <1>2. AsScript = stack /\ Order!Top = Top /\ Order!Done(Order!Top)
    BY <1>1 DEF Ready, Order!Top, Top, Order!Done, Done
  <1>3. AsScript' = stack'
    BY <1>1 DEF AsScript, Ready, Leave
  <1>4. CASE Len(stack) > 1
    <2>1. stack' = Order!Returned(stack)
      BY <1>1, <1>4 DEF Order!Returned
    <2>2. Order!PageMayTurn /\ UNCHANGED <<main, flag, message, loaded>>
      BY <1>4, PageTurnsBehind DEF Iterated
    <2>3. Order!Return
      BY <1>1, <1>2, <1>3, <2>1, <2>2 DEF Order!Return
    <2>4. QED
      BY <2>3 DEF Order!Next
  <1>5. CASE ~(Len(stack) > 1)
    <2>1. Leave(Order!Returned(stack), 0, FALSE)
      BY <1>5
    <2>2. /\ stack' = Order!Returned(stack)
          /\ page' = IF needRefresh THEN PageFor[flag] ELSE page
          /\ UNCHANGED <<main, flag, message, loaded>>
      BY <2>1 DEF Leave, Refresh, Goes
    <2>3. Order!PageMayTurn
      BY <2>2, PageTurnsBehind
    <2>4. Order!Return
      BY <1>1, <1>2, <1>3, <2>2, <2>3 DEF Order!Return
    <2>5. QED
      BY <2>4 DEF Order!Next
  <1>6. QED
    BY <1>4, <1>5

LEMMA OthersRefine ==
  ASSUME Enter \/ Intrude \/ CloseMessage \/ ChangeScene \/ PictureArrives
           \/ RefreshElsewhere
  PROVE  [Order!Next]_Order!vars
  <1>1. AsScript = stack /\ AsScript' = stack'
    BY DEF AsScript, Enter, Intrude, CloseMessage, ChangeScene, PictureArrives,
           RefreshElsewhere, Between
  <1>2. CASE Enter
    <2>1. CASE stack = <<>>
      BY <1>1, <1>2, <2>1 DEF Enter, Order!Next, Order!Start, Order!Entry
    <2>2. CASE stack # <<>>
      BY <1>1, <1>2, <2>2 DEF Enter, Order!vars
    <2>3. QED
      BY <2>1, <2>2
  <1>3. CASE Intrude
    BY <1>1, <1>3 DEF Intrude, Between, Order!Next, Order!Surroundings, Order!vars
  <1>4. CASE CloseMessage
    BY <1>1, <1>4 DEF CloseMessage, Between, Order!Next, Order!Surroundings
  <1>5. CASE ChangeScene
    BY <1>1, <1>5 DEF ChangeScene, Between, Order!vars
  <1>6. CASE PictureArrives
    BY <1>1, <1>6 DEF PictureArrives, Between, Order!Next, Order!Surroundings
  <1>7. CASE RefreshElsewhere
    <2> USE <1>7 DEF RefreshElsewhere, Refresh
    <2>1. CASE Turns
      BY <1>1, <2>1 DEF Turns, Order!Next, Order!TurnPage
    <2>2. CASE ~Turns
      BY <1>1, <2>2 DEF Turns, Order!vars
    <2>3. QED
      BY <2>1, <2>2
  <1>8. QED
    BY <1>2, <1>3, <1>4, <1>5, <1>6, <1>7

LEMMA NextRefines == IInv /\ ~Skips /\ [Next]_vars => [Order!Next]_Order!vars
  <1> SUFFICES ASSUME IInv, ~Skips, [Next]_vars PROVE [Order!Next]_Order!vars
    OBVIOUS
  <1>1. CASE UNCHANGED vars
    BY <1>1 DEF vars, script, AsScript, StepBack, Order!vars
  <1>2. QED
    BY <1>1, StopsRefine, FinishFrameRefines, CommandsRefine, OthersRefine
    DEF Next, Update, Ended

-----------------------------------------------------------------------------

(* An Update returns after loop_limit iterations at most, the call stack   *)
(* has at most call_stack_limit + 1 frames, and no index ever points       *)
(* outside its script (Game_Interpreter::Update, Push,                     *)
(* GetActiveFrame).                                                        *)
THEOREM UpdateIsBounded == Spec => []TypeOK
  BY SpecIInv, PTL DEF IInv

(* While a scene is requested an update executes one command at most.      *)
THEOREM OneCommandOnly == Spec => OneCommandForScene
  <1>1. IInv /\ [Next]_vars => [executed' > executed /\ requested => executed = 0]_vars
    <2> SUFFICES ASSUME IInv, Next, executed' > executed, requested
                 PROVE  executed = 0
      OBVIOUS
    <2>1. executed \in Nat /\ loopCount \in Nat
      BY Limits DEF IInv, Typed, TypeOK
    <2>2. Goes
      <3>1. executed' # executed /\ executed' # 0
        BY <2>1
      <3>2. ~Enter
        BY <3>1 DEF Enter
      <3>3. ~Stops /\ ~Refused
        BY <3>1 DEF Stops, LimitStop, SceneStop, AsyncStop, MessageStop, WaitStop,
                    PageStop, Refused, Leave
      <3>4. ~(Intrude \/ CloseMessage \/ ChangeScene \/ PictureArrives
                \/ RefreshElsewhere \/ Ended)
        BY <3>1 DEF Intrude, CloseMessage, ChangeScene, PictureArrives,
                    RefreshElsewhere, Between, Ended, vars
      <3>5. FinishFrame \/ Commands
        BY <3>2, <3>3, <3>4 DEF Next, Update
      <3>6. QED
        BY <3>3, <3>5 DEF FinishFrame, Commands, Plain, Wait, Jump, ConditionalBranch,
             EndEventProcessing, CallEvent, CallTooDeep, ControlSwitches, Yield, Fetch,
             ShowMessage, OpenScene, Execute
    <2>3. pc = "loop" /\ ~(loopCount > 0)
      BY <2>2 DEF Goes, Running, Free, AtScene
    <2>4. QED
      BY <2>1, <2>3 DEF IInv, InLoop
  <1>2. QED
    BY <1>1, SpecIInv, PTL DEF Spec, OneCommandForScene

(* Budgets, yields, waits, messages, page changes, calls and returns never *)
(* change the order of a script's commands, repeat one or leave one out:   *)
(* Update implements Script, as long as it does not skip a command that    *)
(* is to be repeated (game_interpreter.cpp:370 tests for a scene before    *)
(* the index is set back at :378).                                         *)
THEOREM CommandsInOrder == Spec /\ []~Skips => ImplementsScript
  <1>1. Init => Order!Init
    BY DEF Init, Order!Init, AsScript
  <1>2. QED
    BY <1>1, NextRefines, SpecIInv, PTL DEF Spec, ImplementsScript, Order!ScriptSpec
=============================================================================
