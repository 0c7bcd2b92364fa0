------------------------------ MODULE Handlers ------------------------------
(* What a property access of a thread-safe object does (src/handlers.c): call   *)
(* a magic method, call a property hook, touch the shared store, or fail.       *)
(* Magic methods and hooks are user code, which accesses properties again: each *)
(* thread has a stack of the code it is in.  The object's class is a child of a *)
(* parent class, and code runs in the scope of one of them or outside.          *)
EXTENDS Naturals, Sequences, Functions

CONSTANTS
  Threads,
  Names,      \* of properties
  Declared,   \* the properties that the two classes declare
  Magic,      \* sets of operations: the magic methods that the class may have
  MaxDepth,   \* bound on the calls in each other
  Dynamic, Wrong,   \* what zend_get_property_info returns besides a declared property
  Nothing

Scopes == {"outside", "parent", "child"}

Operations == {"get", "set", "isset", "unset"}

\* A number; a string, which may look like one; and what no thread may share.
Values == {"int", "string", "unsafe"}

\* Of a property: whether it is typed (int), virtual, static, and the hooks it has.
ASSUME DeclaredAssumption ==
  /\ Declared \subseteq
       [name : Names, class : {"parent", "child"}, access : {"private", "protected", "public"},
        set : {"private", "public"}, typed : BOOLEAN, virtual : BOOLEAN, static : BOOLEAN,
        hooks : SUBSET {"get", "set"}]
  /\ \A d, e \in Declared : d.name = e.name /\ d.class = e.class => d = e
  /\ \A d \in Declared : d.virtual => d.hooks # {}
  /\ Names \cap Declared = {} /\ Dynamic # Wrong
  /\ {Dynamic, Wrong, Nothing} \cap (Names \cup Declared) = {}
  /\ Magic \subseteq SUBSET Operations /\ MaxDepth \in Nat

\* Mutant of Slot: the name as it is.
SlotPlain(n, info) == n

\* A slot of the store: that of a declared property, or of a name.
Slot(n, info) == IF info # Dynamic /\ ~info.static THEN info ELSE n

Slots == Names \cup {d \in Declared : ~d.static}

VARIABLES
  magic,    \* the operations the class has a magic method for
  stack,    \* of each thread: the code it is in, the innermost first
  guards,   \* of each thread's connection: the magic methods in progress, by name
  store,    \* the shared properties
  touched   \* the last access to the store: by which operation, in which code

vars == <<magic, stack, guards, store, touched>>

\* self: of this object, not of another one of its class.
Frame(kind, scope, op, n, info, self) ==
  [kind |-> kind, scope |-> scope, op |-> op, name |-> n, info |-> info, self |-> self]

Init ==
  /\ magic \in Magic
  /\ stack = [t \in Threads |-> <<>>]
  /\ guards = [t \in Threads |-> {}]
  /\ store = [s \in Slots |-> Nothing]
  /\ touched = Nothing

Top(t) == Head(stack[t])

\* May code of this scope use the declared property d?
Accessible(d, scope) ==
  \/ d.access = "public"
  \/ d.access = "protected" /\ scope # "outside"
  \/ d.access = "private" /\ scope = d.class

\* zend_get_property_info.  A private property of the parent shadows the child's in the
\* parent's own code, and does not exist elsewhere.
Lookup(n, scope) ==
  LET of(class) == {d \in Declared : d.name = n /\ d.class = class}
      hidden == {d \in of("parent") : d.access = "private"}
      found == IF scope = "parent" /\ hidden # {} THEN hidden
               ELSE IF of("child") # {} THEN of("child") ELSE of("parent") \ hidden
  IN IF found = {} THEN Dynamic
     ELSE LET d == CHOOSE e \in found : TRUE
          IN IF Accessible(d, scope) THEN d ELSE Wrong

Info == [n \in Names |-> [scope \in Scopes |-> Lookup(n, scope)]]

-----------------------------------------------------------------------------
(* The parts of an access.                                                      *)

\* The magic method is called unless it is in progress for this name.
CallsMagic(t, op, n) == op \in magic /\ <<op, n>> \notin guards[t]

Enter(t, frame) ==
  /\ Len(stack[t]) < MaxDepth
  /\ stack' = [stack EXCEPT ![t] = <<frame>> \o @]

CallMagic(t, op, n) ==
  /\ CallsMagic(t, op, n)
  /\ Enter(t, Frame("magic", "child", op, n, Dynamic, TRUE))
  /\ guards' = [guards EXCEPT ![t] = @ \cup {<<op, n>>}]
  /\ touched' = Nothing
  /\ UNCHANGED store

\* Hooked properties, before they are looked at any closer.
Hooked(info) == info \notin {Dynamic, Wrong} /\ ~info.static /\ info.hooks # {}

\* The property that this one redeclares, if any.
Prototype ==
  [d \in Declared |->
     LET of == {e \in Declared : e.name = d.name /\ e.class = "parent" /\ e.access # "private"}
     IN IF d.class = "child" /\ of # {} THEN CHOOSE e \in of : TRUE ELSE d]

\* Mutant of InHook: a hook of any object of the class.
InHookAnywhere(t, info) ==
  Top(t).kind = "hook" /\ Prototype[Top(t).info] = Prototype[info]

\* The code that runs is a hook of this very property, or of the one that it redeclares,
\* of this very object (zend_is_in_hook, zend_should_call_hook).
InHook(t, info) ==
  Top(t).kind = "hook" /\ Top(t).self /\ Prototype[Top(t).info] = Prototype[info]

CallsHook(t, info, hook) == Hooked(info) /\ hook \in info.hooks /\ ~InHook(t, info)

CallHook(t, info, hook) ==
  /\ Enter(t, Frame("hook", info.class, hook, info.name, info, TRUE))
  /\ touched' = Nothing
  /\ UNCHANGED <<guards, store>>

\* Without a hook to call there is no access to a virtual property.
Backed(info) == Hooked(info) => ~info.virtual

\* The store is accessed, and left with value v in slot s.
Access(t, op, s, v) ==
  /\ touched' = [slot |-> s, op |-> op, code |-> Top(t)]
  /\ store' = [store EXCEPT ![s] = v]
  /\ UNCHANGED <<stack, guards>>

\* An error, or an answer that needs no access.
Fail == touched' = Nothing /\ UNCHANGED <<stack, guards, store>>

-----------------------------------------------------------------------------
(* The handlers.                                                                *)

ReadProperty(t, n) ==
  LET info == Info[n][Top(t).scope] IN
  \/ CallMagic(t, "get", n)
  \/ /\ ~CallsMagic(t, "get", n)
     /\ \/ CallsHook(t, info, "get") /\ CallHook(t, info, "get")
        \/ /\ ~CallsHook(t, info, "get")
           /\ IF info = Wrong \/ ~Backed(info) THEN Fail
              ELSE LET s == Slot(n, info) IN Access(t, "get", s, store[s])

Typed(info) == info # Dynamic /\ ~info.static /\ info.typed

\* Mutant of Coerced: the value that was given is stored.
CoercedNot(info, v) == v

\* zend_verify_property_type: what a typed property takes is an int, or becomes one.
Coerced(info, v) == IF Typed(info) THEN "int" ELSE v

Storable(v) == v # "unsafe"

MaySet(info, scope) == info.set = "private" => scope = info.class

WriteProperty(t, n, v) ==
  LET info == Info[n][Top(t).scope] IN
  \/ CallMagic(t, "set", n)
  \/ /\ ~CallsMagic(t, "set", n)
     /\ \/ /\ CallsHook(t, info, "set")
           /\ IF MaySet(info, Top(t).scope) THEN CallHook(t, info, "set") ELSE Fail
        \/ /\ ~CallsHook(t, info, "set")
           /\ IF info = Wrong \/ ~Backed(info) \/ ~Storable(v) THEN Fail
              ELSE \/ Access(t, "set", Slot(n, info), Coerced(info, v))
                   \/ Typed(info) /\ v # "int" /\ Fail

\* exists: property_exists rather than isset or empty.
HasProperty(t, n, exists) ==
  LET info == Info[n][Top(t).scope] IN
  \/ CallMagic(t, "isset", n)
  \/ /\ ~CallsMagic(t, "isset", n)
     /\ IF Hooked(info) /\ exists THEN Fail
        ELSE \/ CallsHook(t, info, "get") /\ CallHook(t, info, "get")
             \/ /\ ~CallsHook(t, info, "get")
                /\ IF info = Wrong \/ ~Backed(info) THEN Fail
                   ELSE LET s == Slot(n, info) IN Access(t, "isset", s, store[s])

UnsetProperty(t, n) ==
  LET info == Info[n][Top(t).scope] IN
  \/ CallMagic(t, "unset", n)
  \/ /\ ~CallsMagic(t, "unset", n)
     /\ IF info = Wrong \/ Hooked(info) THEN Fail
        ELSE Access(t, "unset", Slot(n, info), Nothing)

-----------------------------------------------------------------------------
(* User code.                                                                   *)

\* A function or a method is called; from inside a magic method or a hook as well.
Call(t, scope) ==
  /\ Enter(t, Frame("code", scope, "call", Nothing, Dynamic, TRUE))
  /\ touched' = Nothing
  /\ UNCHANGED <<guards, store>>

\* The code accesses another object of the class, and a hook is called for that one.
CallOther(t, info, hook) ==
  /\ Hooked(info) /\ hook \in info.hooks
  /\ Enter(t, Frame("hook", info.class, hook, info.name, info, FALSE))
  /\ touched' = Nothing
  /\ UNCHANGED <<guards, store>>

\* A hook calls that of the property it redeclares: parent::$name::get().
CallParent(t) ==
  LET f == Top(t)
      d == Prototype[f.info]
  IN /\ f.kind = "hook" /\ d # f.info /\ f.op \in d.hooks
     /\ Enter(t, [f EXCEPT !.scope = d.class, !.info = d])
     /\ touched' = Nothing
     /\ UNCHANGED <<guards, store>>

\* Mutant of Return: the guard of __isset is left set.
ReturnGuarded(t) ==
  LET f == Top(t) IN
  /\ stack[t] # <<>>
  /\ stack' = [stack EXCEPT ![t] = Tail(@)]
  /\ guards' = IF f.kind = "magic" /\ f.op # "isset"
               THEN [guards EXCEPT ![t] = @ \ {<<f.op, f.name>>}] ELSE guards
  /\ touched' = Nothing
  /\ UNCHANGED store

\* The code returns, or throws.
Return(t) ==
  LET f == Top(t) IN
  /\ stack[t] # <<>>
  /\ stack' = [stack EXCEPT ![t] = Tail(@)]
  /\ guards' = IF f.kind = "magic" THEN [guards EXCEPT ![t] = @ \ {<<f.op, f.name>>}] ELSE guards
  /\ touched' = Nothing
  /\ UNCHANGED store

Step ==
  \E t \in Threads :
    \/ \E scope \in Scopes : Call(t, scope)
    \/ \E d \in Declared, hook \in {"get", "set"} : CallOther(t, d, hook)
    \/ Return(t)
    \/ stack[t] # <<>> /\ CallParent(t)
    \/ /\ stack[t] # <<>>
       /\ \E n \in Names :
            \/ ReadProperty(t, n) \/ UnsetProperty(t, n)
            \/ \E v \in Values : WriteProperty(t, n, v)
            \/ \E exists \in BOOLEAN : HasProperty(t, n, exists)

Next == Step /\ UNCHANGED magic

Spec == Init /\ [][Next]_vars

-----------------------------------------------------------------------------
\* The types of stacks, guards and store.
TypeOK ==
  /\ \A t \in Threads : Len(stack[t]) <= MaxDepth /\ guards[t] \subseteq Operations \X Names
  /\ store \in [Slots -> {"int", "string", Nothing}]
  /\ touched # Nothing => touched.slot \in Slots

\* A guard is set exactly while its magic method is on the stack of this thread, however the
\* methods nest: the next access from outside calls it again, an access from inside does not.
GuardsMatchCalls ==
  \A t \in Threads :
    /\ guards[t] = {<<f.op, f.name>> : f \in {g \in Range(stack[t]) : g.kind = "magic"}}
    /\ \A i, j \in DOMAIN stack[t] :
         stack[t][i].kind = "magic" /\ stack[t][i] = stack[t][j] => i = j

\* Whatever code runs, a typed property holds nothing but what its type allows, and no slot
\* holds what threads may not share (zend_verify_property_type, pmmpthread_store_save_zval).
TypesKept ==
  \A s \in Slots :
    store[s] \in {Nothing, "int"} \cup IF s \in Declared /\ s.typed THEN {} ELSE {"string"}

\* A private property is touched by the code of its class only, another property of the same
\* name in the hierarchy is never taken for it, and neither is a dynamic one.
PrivateStays ==
  touched # Nothing =>
    /\ touched.slot \in Declared /\ touched.slot.access = "private"
         => touched.code.scope = touched.slot.class
    /\ touched.slot \in Names => Info[touched.slot][touched.code.scope] \notin Slots

\* The stored value of a hooked property is reached around a hook only from the hooks that
\* the object itself has for that property, its own or the redeclared one's, never from the
\* same hook of another object; a virtual property has no stored value; none can be unset.
HooksRespected ==
  touched # Nothing /\ touched.slot \in Declared /\ touched.slot.hooks # {} =>
    LET hook == IF touched.op = "set" THEN "set" ELSE "get" IN
    /\ ~touched.slot.virtual
    /\ touched.op # "unset"
    /\ hook \in touched.slot.hooks =>
         /\ touched.code.kind = "hook" /\ touched.code.self
         /\ Prototype[touched.code.info] = Prototype[touched.slot]
=============================================================================
