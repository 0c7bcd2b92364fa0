--------------------------- MODULE HandlersProofs ---------------------------
(***************************************************************************)
(* The theorems about property accesses, for every pair of classes that    *)
(* DeclaredAssumption allows, every set of magic methods, any number of    *)
(* threads and any depth of calls.                                         *)
(***************************************************************************)
EXTENDS Handlers, TLAPS

\* The code that can be on a stack.
Frames ==
  [kind : {"magic", "hook", "code"}, scope : Scopes, op : Operations \cup {"call"},
   name : Names \cup {Nothing}, info : Declared \cup {Dynamic},
   self : BOOLEAN]

\* The magic methods in progress on a stack.
Calls(s) == {<<f.op, f.name>> : f \in {g \in Range(s) : g.kind = "magic"}}

MagicFrame(op, n) == Frame("magic", "child", op, n, Dynamic, TRUE)

\* A hook is one of a declared property.
OfDeclared(f) == f.kind = "hook" => f.info \in Declared

\* The frames of magic methods differ in what they are called for only, and none is
\* there twice.
StackFits(s) ==
  /\ s \in Seq(Frames)
  /\ \A i \in DOMAIN s : s[i].kind = "magic" =>
       s[i].op \in Operations /\ s[i].name \in Names
         /\ s[i] = MagicFrame(s[i].op, s[i].name)
  /\ \A i, j \in DOMAIN s : s[i].kind = "magic" /\ s[i] = s[j] => i = j
  /\ \A i \in DOMAIN s : OfDeclared(s[i])

\* The guards of each thread are those of the magic methods on its stack.
StacksFit ==
  /\ stack \in [Threads -> Seq(Frames)]
  /\ guards \in [Threads -> SUBSET (Operations \X Names)]
  /\ \A t \in Threads : StackFits(stack[t]) /\ guards[t] = Calls(stack[t])

\* Every slot holds what may be stored in it.
StoreFits == store \in [Slots -> {"int", "string", Nothing}] /\ TypesKept

\* The inductive invariant.  GuardsMatchCalls needs the shape of the frames of
\* magic methods, from which it follows that the frame a method returns from is
\* the only one with its guard; the other three are inductive once the slots are
\* known to be those of the class.
IInv ==
  magic \in SUBSET Operations /\ StacksFit /\ StoreFits /\ PrivateStays /\ HooksRespected

\* A stack with a frame on top.
LEMMA PushSeq ==
  ASSUME NEW F, NEW s \in Seq(F), NEW f \in F
  PROVE  /\ <<f>> \o s \in Seq(F)
         /\ Len(<<f>> \o s) = Len(s) + 1
         /\ DOMAIN (<<f>> \o s) = 1..Len(s) + 1
         /\ (<<f>> \o s)[1] = f
         /\ \A i \in 1..Len(s) : (<<f>> \o s)[i + 1] = s[i]
  OBVIOUS

\* A stack without its top frame.
LEMMA PopSeq ==
  ASSUME NEW F, NEW s \in Seq(F), s # <<>>
  PROVE  /\ Head(s) = s[1] /\ 1 \in DOMAIN s
         /\ Tail(s) \in Seq(F)
         /\ DOMAIN Tail(s) = 1..Len(s) - 1
         /\ \A i \in 1..Len(s) - 1 : i + 1 \in DOMAIN s /\ Tail(s)[i] = s[i + 1]
  OBVIOUS

\* What is in a stack with a frame on top, by index.
LEMMA PushIndex ==
  ASSUME NEW F, NEW s \in Seq(F), NEW f \in F, NEW i \in DOMAIN (<<f>> \o s)
  PROVE  \/ i = 1 /\ (<<f>> \o s)[i] = f
         \/ \E j \in DOMAIN s : i = j + 1 /\ (<<f>> \o s)[i] = s[j]
<1>1. i \in 1..Len(s) + 1 /\ DOMAIN s = 1..Len(s) /\ Len(s) \in Nat
  BY PushSeq
<1>2. CASE i = 1
  BY <1>2, PushSeq
<1>3. CASE i # 1
  <2>1. i - 1 \in 1..Len(s) /\ i = (i - 1) + 1
    BY <1>1, <1>3
  <2>2. (<<f>> \o s)[(i - 1) + 1] = s[i - 1]
    BY <2>1, PushSeq
  <2> QED
    BY <1>1, <2>1, <2>2
<1> QED
  BY <1>2, <1>3, Zenon

\* What is in a stack with a frame on top.
LEMMA PushRange ==
  ASSUME NEW F, NEW s \in Seq(F), NEW f \in F
  PROVE  Range(<<f>> \o s) = Range(s) \cup {f}
<1>1. ASSUME NEW x \in Range(<<f>> \o s) PROVE x \in Range(s) \cup {f}
  <2>1. PICK i \in DOMAIN (<<f>> \o s) : x = (<<f>> \o s)[i]
    BY <1>1, Zenon DEF Range
  <2>2. \/ i = 1 /\ (<<f>> \o s)[i] = f
        \/ \E j \in DOMAIN s : i = j + 1 /\ (<<f>> \o s)[i] = s[j]
    BY PushIndex
  <2> QED
    BY <2>1, <2>2, Zenon DEF Range
<1>2. f \in Range(<<f>> \o s)
  <2>1. 1 \in DOMAIN (<<f>> \o s) /\ (<<f>> \o s)[1] = f
    BY PushSeq
  <2> QED
    BY <2>1, Zenon DEF Range
<1>3. ASSUME NEW x \in Range(s) PROVE x \in Range(<<f>> \o s)
  <2>1. PICK i \in DOMAIN s : x = s[i]
    BY <1>3, Zenon DEF Range
  <2>2. i + 1 \in DOMAIN (<<f>> \o s) /\ (<<f>> \o s)[i + 1] = s[i]
    BY <2>1, PushSeq
  <2> QED
    BY <2>1, <2>2, Zenon DEF Range
<1> QED
  BY <1>1, <1>2, <1>3

\* A frame that is no magic method's, or a magic method's that is not there yet,
\* can go on top.
LEMMA PushFits ==
  ASSUME NEW s, StackFits(s), NEW f \in Frames, OfDeclared(f),
         f.kind = "magic" => /\ f.op \in Operations /\ f.name \in Names
                             /\ <<f.op, f.name>> \notin Calls(s)
                             /\ f = MagicFrame(f.op, f.name)
  PROVE  StackFits(<<f>> \o s)
<1> DEFINE u == <<f>> \o s
<1>1. s \in Seq(Frames) /\ u \in Seq(Frames)
  BY PushSeq DEF StackFits
<1>2. \A i \in DOMAIN u :
        (i = 1 /\ u[i] = f) \/ \E j \in DOMAIN s : i = j + 1 /\ u[i] = s[j]
  BY <1>1, PushIndex
<1>3. ASSUME f.kind = "magic" PROVE \A j \in DOMAIN s : s[j] # f
  BY <1>3, Zenon DEF Calls, Range
<1> HIDE DEF u
<1>4. \A i \in DOMAIN u : u[i].kind = "magic" =>
       u[i].op \in Operations /\ u[i].name \in Names
         /\ u[i] = MagicFrame(u[i].op, u[i].name)
  BY <1>2, Zenon DEF StackFits
<1>5. \A i, j \in DOMAIN u : u[i].kind = "magic" /\ u[i] = u[j] => i = j
  BY <1>2, <1>3 DEF StackFits
<1>6. \A i \in DOMAIN u : OfDeclared(u[i])
  BY <1>2, Zenon DEF StackFits
<1> QED
  BY <1>1, <1>4, <1>5, <1>6, Zenon DEF StackFits, u

\* What is in a stack is the top frame and the rest.
LEMMA PopRange ==
  ASSUME NEW F, NEW s \in Seq(F), s # <<>>
  PROVE  Range(s) = Range(Tail(s)) \cup {Head(s)}
<1>1. Tail(s) \in Seq(F) /\ Head(s) \in F /\ s = <<Head(s)>> \o Tail(s)
  OBVIOUS
<1> DEFINE h == Head(s)
           u == Tail(s)
<1> HIDE DEF h, u
<1>2. u \in Seq(F) /\ h \in F
  BY <1>1, Zenon DEF h, u
<1>3. Range(<<h>> \o u) = Range(u) \cup {h}
  BY ONLY <1>2, PushRange
<1> QED
  BY <1>1, <1>3, Zenon DEF h, u

\* Without its top frame a stack still fits, and the frame of a magic method was
\* there once only.
LEMMA PopFits ==
  ASSUME NEW s, StackFits(s), s # <<>>
  PROVE  /\ StackFits(Tail(s))
         /\ Head(s).kind = "magic" => \A g \in Range(Tail(s)) : g # Head(s)
<1> DEFINE u == Tail(s)
<1>1. /\ s \in Seq(Frames) /\ u \in Seq(Frames) /\ Head(s) = s[1] /\ 1 \in DOMAIN s
  BY PopSeq DEF StackFits
<1>2. \A i \in DOMAIN u :
        i \in Nat /\ i # 0 /\ i + 1 # 1 /\ i + 1 \in DOMAIN s /\ u[i] = s[i + 1]
  BY <1>1, PopSeq
<1> HIDE DEF u
<1>3. \A i, j \in DOMAIN u : i + 1 = j + 1 => i = j
  BY <1>2
<1>4. StackFits(u)
  <2>1. \A i \in DOMAIN u : u[i].kind = "magic" =>
       u[i].op \in Operations /\ u[i].name \in Names
         /\ u[i] = MagicFrame(u[i].op, u[i].name)
    BY <1>2, Zenon DEF StackFits
  <2>2. \A i, j \in DOMAIN u : u[i].kind = "magic" /\ u[i] = u[j] => i + 1 = j + 1
    BY <1>2, Zenon DEF StackFits
  <2>3. \A i \in DOMAIN u : OfDeclared(u[i])
    BY <1>2, Zenon DEF StackFits
  <2> QED
    BY <1>1, <1>3, <2>1, <2>2, <2>3, Zenon DEF StackFits
<1>5. Head(s).kind = "magic" => \A g \in Range(u) : g # Head(s)
  BY <1>1, <1>2 DEF StackFits, Range
<1> QED
  BY <1>4, <1>5, Zenon DEF u

-----------------------------------------------------------------------------
\* What zend_get_property_info finds is a property of that name that the code may use.
LEMMA InfoFound ==
  ASSUME NEW n \in Names, NEW scope \in Scopes
  PROVE  \/ Info[n][scope] \in {Dynamic, Wrong}
         \/ /\ Info[n][scope] \in Declared /\ Info[n][scope].name = n
            /\ Accessible(Info[n][scope], scope)
<1> DEFINE of(class) == {d \in Declared : d.name = n /\ d.class = class}
           hidden == {d \in of("parent") : d.access = "private"}
           found == IF scope = "parent" /\ hidden # {} THEN hidden
                    ELSE IF of("child") # {} THEN of("child") ELSE of("parent") \ hidden
           d == CHOOSE e \in found : TRUE
<1>1. Info[n][scope] = Lookup(n, scope)
  BY Zenon DEF Info
<1>2. CASE found = {}
  BY <1>1, <1>2, Zenon DEF Lookup
<1>3. CASE found # {}
  <2>1. d \in found
    BY <1>3, Zenon
  <2>2. \A e \in found : e \in Declared /\ e.name = n
    BY Zenon
  <2>3. Info[n][scope] = IF Accessible(d, scope) THEN d ELSE Wrong
    BY <1>1, <1>3, Zenon DEF Lookup
  <2> HIDE DEF d, found
  <2> QED
    BY <2>1, <2>2, <2>3, Zenon
<1> QED
  BY <1>2, <1>3, Zenon

\* The name of a property leads to a slot of the store: that of the declared
\* property found, or that of a dynamic one.
LEMMA SlotIn ==
  ASSUME NEW n \in Names, NEW scope \in Scopes, Info[n][scope] # Wrong
  PROVE  /\ Slot(n, Info[n][scope]) \in Slots
         /\ Slot(n, Info[n][scope]) \in Declared =>
              Slot(n, Info[n][scope]) = Info[n][scope] /\ ~Info[n][scope].static
         /\ Slot(n, Info[n][scope]) \in Names =>
              Slot(n, Info[n][scope]) = n /\ Info[n][scope] \notin Slots
<1> DEFINE info == Info[n][scope]
<1>1. info = Dynamic \/ info \in Declared
  <2>1. info \in {Dynamic, Wrong} \/ info \in Declared
    BY InfoFound, Zenon
  <2> QED
    BY <2>1, Zenon
<1>2. CASE info = Dynamic
  BY <1>2, DeclaredAssumption DEF Slot, Slots
<1>3. CASE info \in Declared /\ info.static
  BY <1>3, DeclaredAssumption DEF Slot, Slots
<1>4. CASE info \in Declared /\ ~info.static
  <2>1. info # Dynamic /\ info \notin Names
    BY <1>4, DeclaredAssumption
  <2> QED
    BY <1>4, <2>1, Zenon DEF Slot, Slots
<1> QED
  BY <1>1, <1>2, <1>3, <1>4, Zenon

\* Calling a magic method, which sets its guard, or any other code, which sets
\* none, keeps guards and stack in step.
LEMMA Enters ==
  ASSUME IInv, NEW t \in Threads, NEW f \in Frames, Enter(t, f),
         OfDeclared(f),
         \/ f.kind # "magic" /\ guards' = guards
         \/ /\ f.kind = "magic" /\ f.op \in Operations /\ f.name \in Names
            /\ f = MagicFrame(f.op, f.name)
            /\ <<f.op, f.name>> \notin guards[t]
            /\ guards' = [guards EXCEPT ![t] = @ \cup {<<f.op, f.name>>}]
  PROVE  StacksFit'
<1>1. StackFits(stack[t]) /\ guards[t] = Calls(stack[t]) /\ stack[t] \in Seq(Frames)
  BY Zenon DEF IInv, StacksFit, StackFits
<1>2. StackFits(<<f>> \o stack[t])
  BY <1>1, PushFits, Zenon
<1>3. Range(<<f>> \o stack[t]) = Range(stack[t]) \cup {f}
  BY <1>1, PushRange
<1>4. Calls(<<f>> \o stack[t]) = guards'[t]
  BY <1>1, <1>3 DEF Calls, IInv, StacksFit
<1>5. \A u \in Threads : StackFits(stack'[u]) /\ guards'[u] = Calls(stack'[u])
  BY <1>2, <1>4 DEF IInv, StacksFit, Enter
<1>6. <<f>> \o stack[t] \in Seq(Frames)
  BY <1>1, PushSeq
<1>7. stack' \in [Threads -> Seq(Frames)]
  BY <1>6 DEF IInv, StacksFit, Enter
<1>8. guards' \in [Threads -> SUBSET (Operations \X Names)]
  BY DEF IInv, StacksFit
<1> QED
  BY <1>5, <1>7, <1>8, Zenon DEF StacksFit

\* Returning from a magic method, which clears its guard, or from any other
\* code, keeps guards and stack in step.
LEMMA Returns == ASSUME IInv, NEW t \in Threads, Return(t) PROVE StacksFit'
<1> DEFINE s == stack[t]
           f == Head(s)
<1>1. StackFits(s) /\ guards[t] = Calls(s) /\ s \in Seq(Frames) /\ s # <<>>
  BY Zenon DEF IInv, StacksFit, StackFits, Return
<1>2. StackFits(Tail(s)) /\ (f.kind = "magic" => \A g \in Range(Tail(s)) : g # f)
  BY <1>1, PopFits, Zenon
<1>3. Range(s) = Range(Tail(s)) \cup {f}
  BY <1>1, PopRange
<1>4. f = s[1] /\ 1 \in DOMAIN s
  BY <1>1, PopSeq
<1>5. ASSUME f.kind = "magic"
      PROVE  /\ guards' \in [Threads -> SUBSET (Operations \X Names)]
             /\ guards'[t] = Calls(Tail(s))
             /\ \A u \in Threads \ {t} : guards'[u] = guards[u]
  <2>1. Calls(s) = Calls(Tail(s)) \cup {<<f.op, f.name>>}
    BY <1>3, <1>5, Zenon DEF Calls
  <2>2. ASSUME NEW g \in Range(Tail(s)), g.kind = "magic",
               <<g.op, g.name>> = <<f.op, f.name>>
        PROVE  FALSE
    <3>1. f = MagicFrame(f.op, f.name)
      BY <1>1, <1>4, <1>5, Zenon DEF StackFits
    <3>2. g = MagicFrame(g.op, g.name)
      BY <1>2, <2>2, Zenon DEF StackFits, Range
    <3>3. g.op = f.op /\ g.name = f.name
      BY <2>2, Zenon
    <3> QED
      BY <1>2, <1>5, <3>1, <3>2, <3>3, Zenon
  <2>3. Calls(Tail(s)) = Calls(s) \ {<<f.op, f.name>>}
    BY <2>1, <2>2, Zenon DEF Calls
  <2>4. guards' = [guards EXCEPT ![t] = @ \ {<<f.op, f.name>>}]
    BY <1>5, Zenon DEF Return, Top
  <2> QED
    BY <1>1, <2>3, <2>4 DEF IInv, StacksFit
<1>6. ASSUME f.kind # "magic"
      PROVE  /\ guards' \in [Threads -> SUBSET (Operations \X Names)]
             /\ guards'[t] = Calls(Tail(s))
             /\ \A u \in Threads \ {t} : guards'[u] = guards[u]
  <2>1. {g \in Range(s) : g.kind = "magic"} = {g \in Range(Tail(s)) : g.kind = "magic"}
    BY <1>3, <1>6
  <2>2. guards' = guards
    BY <1>6, Zenon DEF Return, Top
  <2> QED
    BY <1>1, <2>1, <2>2, Zenon DEF Calls, IInv, StacksFit
<1>7. /\ guards' \in [Threads -> SUBSET (Operations \X Names)]
      /\ guards'[t] = Calls(Tail(s))
      /\ \A u \in Threads \ {t} : guards'[u] = guards[u]
  BY <1>5, <1>6, Zenon
<1>8. stack' = [stack EXCEPT ![t] = Tail(s)] /\ Tail(s) \in Seq(Frames)
  BY <1>2, Zenon DEF Return, StackFits
<1> HIDE DEF s, f
<1>9. /\ stack' \in [Threads -> Seq(Frames)] /\ stack'[t] = Tail(s)
      /\ \A u \in Threads \ {t} : stack'[u] = stack[u]
  BY <1>8 DEF IInv, StacksFit
<1> QED
  BY <1>2, <1>7, <1>9, Zenon DEF IInv, StacksFit

\* A step that only changes the code that runs.
LEMMA NoAccess ==
  ASSUME IInv, StacksFit', UNCHANGED <<magic, store>>, touched' = Nothing
  PROVE  IInv'
  BY Zenon DEF IInv, StoreFits, TypesKept, PrivateStays, HooksRespected

\* An access that throws changes nothing.
LEMMA FailStep == ASSUME IInv, Fail, UNCHANGED magic PROVE IInv'
<1>1. StacksFit'
  BY Zenon DEF IInv, StacksFit, Fail
<1> QED
  BY <1>1, NoAccess, Zenon DEF Fail

\* The thread calls a function.
LEMMA CallStep ==
  ASSUME IInv, NEW t \in Threads, NEW scope \in Scopes, Call(t, scope), UNCHANGED magic
  PROVE  IInv'
<1> DEFINE f == Frame("code", scope, "call", Nothing, Dynamic, TRUE)
<1>1. f \in Frames /\ f.kind \notin {"magic", "hook"}
  BY DEF Frame, Frames
<1>2. StacksFit'
  BY <1>1, Enters, Zenon DEF Call, OfDeclared
<1> QED
  BY <1>2, NoAccess, Zenon DEF Call

\* The thread returns from the innermost code.
LEMMA ReturnStep ==
  ASSUME IInv, NEW t \in Threads, Return(t), UNCHANGED magic
  PROVE  IInv'
  BY Returns, NoAccess, Zenon DEF Return

\* An access that calls the magic method, because its guard is clear.
LEMMA CallMagicStep ==
  ASSUME IInv, NEW t \in Threads, NEW op, NEW n \in Names, CallMagic(t, op, n),
         UNCHANGED magic
  PROVE  IInv'
<1> DEFINE f == MagicFrame(op, n)
<1>1. op \in Operations
  BY Zenon DEF IInv, CallMagic, CallsMagic
<1>2. f \in Frames /\ f.kind = "magic" /\ f.kind # "hook" /\ f.op = op /\ f.name = n
  BY <1>1 DEF MagicFrame, Frame, Frames, Scopes
<1>3. StacksFit'
  BY <1>1, <1>2, Enters, Zenon DEF CallMagic, CallsMagic, OfDeclared, MagicFrame
<1> QED
  BY <1>3, NoAccess, Zenon DEF CallMagic

\* The frame of a hook of a declared property goes on top.
LEMMA HookEnters ==
  ASSUME IInv, NEW t \in Threads, NEW d \in Declared, NEW hook \in {"get", "set"},
         NEW self \in BOOLEAN, guards' = guards,
         Enter(t, Frame("hook", d.class, hook, d.name, d, self))
  PROVE  StacksFit'
<1> DEFINE f == Frame("hook", d.class, hook, d.name, d, self)
<1>1. d.class \in Scopes /\ d.name \in Names /\ hook \in Operations
  BY DeclaredAssumption DEF Scopes, Operations
<1>2. f \in Frames /\ f.kind = "hook" /\ f.kind # "magic" /\ f.info = d
  BY <1>1 DEF Frame, Frames
<1> HIDE DEF f
<1> QED
  BY <1>2, Enters, Zenon DEF f, OfDeclared

\* The code that runs is a frame.
LEMMA TopFits ==
  ASSUME IInv, NEW t \in Threads, stack[t] # <<>>
  PROVE  /\ Top(t) \in Frames /\ Top(t).scope \in Scopes
         /\ Top(t).kind = "hook" => Top(t).info \in Declared
<1>1. StackFits(stack[t]) /\ stack[t] \in Seq(Frames)
  BY Zenon DEF IInv, StacksFit, StackFits
<1>2. Top(t) = stack[t][1] /\ 1 \in DOMAIN stack[t] /\ Top(t) \in Frames
  BY <1>1, PopSeq DEF Top
<1>3. Top(t).scope \in Scopes
  BY <1>2 DEF Frames
<1> QED
  BY <1>1, <1>2, <1>3, Zenon DEF StackFits, OfDeclared

\* A prototype is a declared property.
LEMMA PrototypeIn == ASSUME NEW d \in Declared PROVE Prototype[d] \in Declared
  BY Zenon DEF Prototype

\* An access that calls the hook of the property, because it does not come from
\* a hook of that property.
LEMMA CallHookStep ==
  ASSUME IInv, NEW t \in Threads, NEW n \in Names, NEW scope \in Scopes,
         NEW hook \in {"get", "set"},
         CallsHook(t, Info[n][scope], hook), CallHook(t, Info[n][scope], hook),
         UNCHANGED magic
  PROVE  IInv'
<1> DEFINE info == Info[n][scope]
<1>1. info \in Declared
  BY InfoFound, Zenon DEF CallsHook, Hooked
<1>2. StacksFit'
  BY <1>1, HookEnters, Zenon DEF CallHook
<1> QED
  BY <1>2, NoAccess, Zenon DEF CallHook

\* A hook of another object is called.
LEMMA CallOtherStep ==
  ASSUME IInv, NEW t \in Threads, NEW d \in Declared, NEW hook \in {"get", "set"},
         CallOther(t, d, hook), UNCHANGED magic
  PROVE  IInv'
<1>1. StacksFit'
  BY HookEnters, Zenon DEF CallOther
<1> QED
  BY <1>1, NoAccess, Zenon DEF CallOther

\* A hook calls the one it overrides.
LEMMA CallParentStep ==
  ASSUME IInv, NEW t \in Threads, stack[t] # <<>>, CallParent(t), UNCHANGED magic
  PROVE  IInv'
<1> DEFINE f == Top(t)
           d == Prototype[f.info]
           g == [f EXCEPT !.scope = d.class, !.info = d]
<1>1. f \in Frames /\ f.kind = "hook" /\ f.info \in Declared
  BY TopFits, Zenon DEF CallParent
<1>2. d \in Declared
  BY <1>1, PrototypeIn, Zenon
<1>3. d.class \in Scopes
  BY <1>2, DeclaredAssumption DEF Scopes
<1> HIDE DEF f, d
<1>4. g \in Frames /\ g.kind = "hook" /\ g.kind # "magic" /\ g.info = d
  BY <1>1, <1>2, <1>3 DEF Frames
<1>5. Enter(t, g) /\ guards' = guards /\ store' = store /\ touched' = Nothing
  BY Zenon DEF CallParent, f, d
<1> HIDE DEF g
<1>6. StacksFit'
  BY <1>2, <1>4, <1>5, Enters, Zenon DEF OfDeclared
<1> QED
  BY <1>5, <1>6, NoAccess, Zenon

\* What may be stored in a slot.
Allowed(s) == {Nothing, "int"} \cup IF s \in Declared /\ s.typed THEN {} ELSE {"string"}

\* An access that reaches the store: it is to the slot of the property that the
\* code may use, around no hook of it, and stores an allowed value.
LEMMA AccessStep ==
  ASSUME IInv, NEW t \in Threads, NEW n \in Names, NEW op, NEW v, UNCHANGED magic,
         Top(t).scope \in Scopes,
         Info[n][Top(t).scope] # Wrong,
         Access(t, op, Slot(n, Info[n][Top(t).scope]), v),
         v \in Allowed(Slot(n, Info[n][Top(t).scope])),
         Hooked(Info[n][Top(t).scope]) =>
           /\ ~Info[n][Top(t).scope].virtual /\ op # "unset"
           /\ (IF op = "set" THEN "set" ELSE "get") \in Info[n][Top(t).scope].hooks =>
                InHook(t, Info[n][Top(t).scope])
  PROVE  IInv'
<1> DEFINE code == Top(t)
           info == Info[n][code.scope]
           s == Slot(n, info)
<1>1. /\ s \in Slots
      /\ s \in Declared => s = info /\ ~info.static
      /\ s \in Names => s = n /\ info \notin Slots
  BY SlotIn, Zenon
<1>2. /\ touched' = [slot |-> s, op |-> op, code |-> code]
      /\ store' = [store EXCEPT ![s] = v]
  BY Zenon DEF Access
<1>3. touched'.slot = s /\ touched'.op = op /\ touched'.code = code
  BY <1>2
<1>4. StacksFit'
  BY Zenon DEF IInv, StacksFit, Access
<1>5. StoreFits'
  <2>1. v \in {"int", "string", Nothing}
    BY DEF Allowed
  <2>2. store' \in [Slots -> {"int", "string", Nothing}]
    BY <1>1, <1>2, <2>1 DEF IInv, StoreFits
  <2>3. \A r \in Slots : store[r] \in Allowed(r)
    BY Zenon DEF IInv, StoreFits, TypesKept, Allowed
  <2>4. \A r \in Slots : store'[r] \in Allowed(r)
    BY <1>1, <1>2, <2>3 DEF IInv, StoreFits
  <2> QED
    BY <2>2, <2>4, Zenon DEF StoreFits, TypesKept, Allowed
<1>6. PrivateStays'
  <2>1. s \in Declared => Accessible(s, code.scope)
    <3>1. info \in {Dynamic, Wrong} \/ (info \in Declared /\ Accessible(info, code.scope))
      BY InfoFound, Zenon
    <3>2. ASSUME s \in Declared
          PROVE  info = s /\ info \in Declared /\ info \notin {Dynamic, Wrong}
      BY <1>1, <3>2, DeclaredAssumption
    <3> QED
      BY <3>1, <3>2, Zenon
  <2>2. s \in Declared /\ s.access = "private" => code.scope = s.class
    BY <2>1 DEF Accessible
  <2>3. s \in Names => Info[s][code.scope] \notin Slots
    BY <1>1, Zenon
  <2> QED
    BY <1>3, <2>2, <2>3, Zenon DEF PrivateStays
<1>7. HooksRespected'
  <2>1. ASSUME s \in Declared, s.hooks # {} PROVE Hooked(info) /\ s = info
    BY <1>1, <2>1, DeclaredAssumption, Zenon DEF Hooked
  <2> QED
    BY <1>3, <2>1, Zenon DEF HooksRespected, InHook
<1> QED
  BY <1>4, <1>5, <1>6, <1>7, Zenon DEF IInv

-----------------------------------------------------------------------------
(* The handlers.                                                                *)

\* The stored value is read, which leaves the store as it is.
LEMMA ReadAllowed ==
  ASSUME IInv, NEW n \in Names, NEW scope \in Scopes, Info[n][scope] # Wrong
  PROVE  store[Slot(n, Info[n][scope])] \in Allowed(Slot(n, Info[n][scope]))
<1>1. Slot(n, Info[n][scope]) \in Slots
  BY SlotIn, Zenon
<1> QED
  BY <1>1, Zenon DEF IInv, StoreFits, TypesKept, Allowed

\* pmmpthread_read_property.
LEMMA ReadPropertyStep ==
  ASSUME IInv, NEW t \in Threads, NEW n \in Names, stack[t] # <<>>,
         ReadProperty(t, n), UNCHANGED magic
  PROVE  IInv'
<1> DEFINE info == Info[n][Top(t).scope]
           s == Slot(n, info)
<1>0. Top(t).scope \in Scopes
  BY TopFits, Zenon
<1>1. CASE CallMagic(t, "get", n)
  BY <1>1, CallMagicStep, Zenon
<1>2. CASE CallsHook(t, info, "get") /\ CallHook(t, info, "get")
  BY <1>2, <1>0, CallHookStep, Zenon
<1>3. CASE Fail
  BY <1>3, FailStep, Zenon
<1>4. CASE /\ ~CallsHook(t, info, "get")
           /\ info # Wrong
           /\ Backed(info)
           /\ Access(t, "get", s, store[s])
  BY <1>4, ReadAllowed, <1>0, AccessStep, Zenon DEF CallsHook, Backed
<1> QED
  BY <1>1, <1>2, <1>3, <1>4, Zenon DEF ReadProperty

\* pmmpthread_has_property.
LEMMA HasPropertyStep ==
  ASSUME IInv, NEW t \in Threads, NEW n \in Names, NEW exists \in BOOLEAN,
         stack[t] # <<>>, HasProperty(t, n, exists), UNCHANGED magic
  PROVE  IInv'
<1> DEFINE info == Info[n][Top(t).scope]
           s == Slot(n, info)
<1>0. Top(t).scope \in Scopes
  BY TopFits, Zenon
<1>1. CASE CallMagic(t, "isset", n)
  BY <1>1, CallMagicStep, Zenon
<1>2. CASE CallsHook(t, info, "get") /\ CallHook(t, info, "get")
  BY <1>2, <1>0, CallHookStep, Zenon
<1>3. CASE Fail
  BY <1>3, FailStep, Zenon
<1>4. CASE /\ ~CallsHook(t, info, "get")
           /\ info # Wrong
           /\ Backed(info)
           /\ Access(t, "isset", s, store[s])
  BY <1>4, ReadAllowed, <1>0, AccessStep, Zenon DEF CallsHook, Backed
<1> QED
  BY <1>1, <1>2, <1>3, <1>4, Zenon DEF HasProperty

\* pmmpthread_unset_property.
LEMMA UnsetPropertyStep ==
  ASSUME IInv, NEW t \in Threads, NEW n \in Names, stack[t] # <<>>,
         UnsetProperty(t, n), UNCHANGED magic
  PROVE  IInv'
<1> DEFINE info == Info[n][Top(t).scope]
           s == Slot(n, info)
<1>0. Top(t).scope \in Scopes
  BY TopFits, Zenon
<1>1. CASE CallMagic(t, "unset", n)
  BY <1>1, CallMagicStep, Zenon
<1>2. CASE Fail
  BY <1>2, FailStep, Zenon
<1>3. CASE info # Wrong /\ ~Hooked(info) /\ Access(t, "unset", s, Nothing)
  <2>1. Nothing \in Allowed(s)
    BY Zenon DEF Allowed
  <2> QED
    BY <1>3, <2>1, <1>0, AccessStep, Zenon
<1> QED
  BY <1>1, <1>2, <1>3, Zenon DEF UnsetProperty

\* pmmpthread_write_property.
LEMMA WritePropertyStep ==
  ASSUME IInv, NEW t \in Threads, NEW n \in Names, NEW v \in Values,
         stack[t] # <<>>, WriteProperty(t, n, v), UNCHANGED magic
  PROVE  IInv'
<1> DEFINE info == Info[n][Top(t).scope]
           s == Slot(n, info)
<1>0. Top(t).scope \in Scopes
  BY TopFits, Zenon
<1>1. CASE CallMagic(t, "set", n)
  BY <1>1, CallMagicStep, Zenon
<1>2. CASE CallsHook(t, info, "set") /\ CallHook(t, info, "set")
  BY <1>2, <1>0, CallHookStep, Zenon
<1>3. CASE Fail
  BY <1>3, FailStep, Zenon
<1>4. CASE ~CallsHook(t, info, "set") /\ info # Wrong /\ Backed(info) /\ Storable(v)
             /\ Access(t, "set", s, Coerced(info, v))
  <2>1. s \in Declared => s = info /\ ~info.static /\ info # Dynamic
    BY <1>0, <1>4, SlotIn, DeclaredAssumption
  <2>2. v \in {"int", "string"}
    BY <1>4 DEF Storable, Values
  <2>3. Coerced(info, v) \in Allowed(s)
    BY <2>1, <2>2 DEF Coerced, Typed, Allowed
  <2> QED
    BY <1>4, <2>3, <1>0, AccessStep, Zenon DEF CallsHook, Backed
<1> QED
  BY <1>1, <1>2, <1>3, <1>4, Zenon DEF WriteProperty

\* At first no code runs and nothing is stored.
LEMMA InitInv == Init => IInv
<1> SUFFICES ASSUME Init PROVE IInv
  OBVIOUS
<1>1. StackFits(<<>>) /\ Calls(<<>>) = {}
  BY DEF StackFits, Calls, Range
<1>2. StacksFit
  BY <1>1 DEF Init, StacksFit
<1>3. StoreFits /\ PrivateStays /\ HooksRespected
  BY Zenon DEF Init, StoreFits, TypesKept, PrivateStays, HooksRespected
<1>4. magic \in SUBSET Operations
  BY DeclaredAssumption, Zenon DEF Init
<1> QED
  BY <1>2, <1>3, <1>4, Zenon DEF IInv

\* Every access, call and return of every thread keeps the inductive invariant.
THEOREM HandlersInductive == Spec => []IInv
<1>1. IInv /\ [Next]_vars => IInv'
  <2> SUFFICES ASSUME IInv, [Next]_vars PROVE IInv'
    OBVIOUS
  <2>1. CASE UNCHANGED vars
    BY <2>1, Zenon
    DEF vars, IInv, StacksFit, StoreFits, TypesKept, PrivateStays,
        HooksRespected
  <2>2. CASE Next
    BY <2>2, CallStep, CallOtherStep, CallParentStep, ReturnStep, ReadPropertyStep, WritePropertyStep,
       HasPropertyStep, UnsetPropertyStep, Zenon
    DEF Next, Step
  <2> QED
    BY <2>1, <2>2, Zenon
<1> QED
  BY <1>1, InitInv, PTL DEF Spec

\* For every class and every nesting of magic methods, the guards of a thread
\* (zend_get_property_guard in handlers.c) are set exactly while their methods run.
THEOREM GuardsAlwaysMatch == Spec => []GuardsMatchCalls
<1>1. IInv => GuardsMatchCalls
  BY Zenon DEF IInv, StacksFit, StackFits, Calls, GuardsMatchCalls
<1> QED
  BY <1>1, HandlersInductive, PTL

\* For every class, a typed property of a thread-safe object never holds a value
\* that its type forbids, and no slot one that threads may not share.
THEOREM TypesAlwaysKept == Spec => []TypesKept
<1>1. IInv => TypesKept
  BY Zenon DEF IInv, StoreFits
<1> QED
  BY <1>1, HandlersInductive, PTL

\* For every pair of classes, a private property is touched only by the code of
\* the class that declares it, and a dynamic one never stands in for a declared
\* one.
THEOREM PrivateAlwaysStays == Spec => []PrivateStays
<1>1. IInv => PrivateStays
  BY Zenon DEF IInv
<1> QED
  BY <1>1, HandlersInductive, PTL

\* For every class with hooked properties, the stored value is reached around a
\* hook from the hooks of that property only, a virtual property has none, and
\* none is unset.
THEOREM HooksAlwaysRespected == Spec => []HooksRespected
<1>1. IInv => HooksRespected
  BY Zenon DEF IInv
<1> QED
  BY <1>1, HandlersInductive, PTL
=============================================================================
