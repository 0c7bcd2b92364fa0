------------------------------ MODULE Prepare ------------------------------
(* The class table of a new thread (src/prepare.c, src/copy.c).  The thread     *)
(* copies the classes of its creator when it starts, and single classes later,  *)
(* when an object of a class it does not know reaches it.  Copying a class      *)
(* calls itself for the classes that it refers to; the stack holds the calls    *)
(* that are not finished.  It runs under the globals lock.                      *)
EXTENDS Naturals, Sequences, FiniteSets, Functions

CONSTANTS
  Classes,      \* the user classes of the creator
  Parent,       \* of each class, or None
  Interfaces,   \* the interfaces that a class names itself, and those that they extend
  Enums,
  Values,       \* the enums whose cases are defaults or static values of a class
  Constants,    \* the enums whose cases are constants of a class
  Static,       \* the classes that declare a static property
  Traits,       \* the classes that use a trait
  Anonymous,    \* may not be linked yet in the creator
  Immutable,    \* shared by all threads, with everything they refer to
  Types,        \* the classes that the properties of an immutable class name as types
  Globals,      \* of the global constants that are cases, the enums: a thread may inherit them
  ThreadClass,  \* the class of the thread object
  None,
  Ordered       \* whether a class with a case of an enum comes after those it refers to, except
                \* for those that lead back to it

\* The classes that c refers to.
RefersTo(c) == ({Parent[c]} \ {None}) \cup Interfaces[c] \cup Values[c] \cup Constants[c]

\* What PHP guarantees of its classes, and two cases that are left out: an anonymous class with
\* traits, and an immutable class that is not linked.  No class is its own ancestor; interfaces
\* and enums have no parent; nothing can name an anonymous class.
ASSUME ClassesAssumption ==
  /\ Cardinality(Classes) \in Nat /\ None \notin Classes \cup (Classes \X Nat)
  /\ Parent \in [Classes -> Classes \cup {None}]
  /\ Interfaces \in [Classes -> SUBSET Classes]
  /\ Values \in [Classes -> SUBSET Enums] /\ Constants \in [Classes -> SUBSET Enums]
  /\ Types \in [Classes -> SUBSET Classes]
  /\ (Enums \cup Static \cup Traits \cup Anonymous \cup Immutable) \subseteq Classes
  /\ Globals \in Seq(Enums)
  /\ \A S \in SUBSET Classes : S # {} => \E c \in S : Parent[c] \notin S
  /\ \A c \in Classes : \A i \in Interfaces[c] :
       Parent[i] = None /\ Interfaces[i] \subseteq Interfaces[c]
  /\ \A c \in Enums : Parent[c] = None
  /\ \A c \in Immutable : (RefersTo(c) \cup Types[c]) \subseteq Immutable
  /\ \A c \in Classes : RefersTo(c) \cap Anonymous = {}
  /\ Anonymous \cap (Traits \cup Immutable \cup Enums) = {}
  /\ ThreadClass \in Classes \ Enums

\* A class entry: the creator's own, or the n-th copy of this thread.  There is only one
\* entry of an immutable class.
Creators(c) == <<c, 0>>

\* Bound on the copies of one class; no call may ever need more (Terminates).
MaxCopies == 2

Copies == Classes \X (1 .. MaxCopies)

\* A class and its ancestors.
Lineage[c \in Classes] ==
  IF Parent[c] = None THEN <<c>> ELSE <<c>> \o Lineage[Parent[c]]

\* The classes that declare the static slots of a class, its ancestors' slots first.
Statics[c \in Classes] ==
  (IF Parent[c] = None THEN <<>> ELSE Statics[Parent[c]]) \o
  (IF c \in Static THEN <<c>> ELSE <<>>)

\* What copying c looks up, by itself or by way of other classes.
Reach ==
  [c \in Classes |->
    {d \in Classes : \A S \in SUBSET Classes :
       /\ c \in S
       /\ \A x \in S : (RefersTo(x) \cup IF x \in Immutable THEN Types[x] ELSE {}) \subseteq S
       => d \in S}]

\* Copying c looks up c again before c is entered: by way of its parent or an interface, as an
\* interface does whose constant is a case of the enum that implements it.
LeadsBack(c) ==
  /\ c \notin Immutable
  /\ \E d \in ({Parent[c]} \ {None}) \cup Interfaces[c] : c \in Reach[d]

\* The classes that have, or inherit, a case of an enum.
UsesCases(c) ==
  \E d \in Range(Lineage[c]) : \E i \in Interfaces[d] \cup {d} : Values[i] \cup Constants[i] # {}

VARIABLES
  order,     \* the creator's class table, when the thread inherits it
  linked,    \* the classes that are linked in the creator
  inherit,   \* whether the thread inherits classes (INHERIT_CLASSES)
  phase,     \* of the thread: what it starts with, and then "run"
  rest,      \* what is left to do in this phase
  table,     \* the thread's class table
  entries,   \* its classes in the order they were added
  copies,    \* how many copies of a class were made
  ent,       \* the copies
  scope,     \* the scope of a class's methods: its own, and those of its traits
  stack,     \* the calls in progress, the innermost one first
  failed     \* a case of an enum could not be restored

vars == <<order, linked, inherit, phase, rest, table, entries, copies, ent, scope, stack, failed>>

\* A copy before anything is filled in: whether it is linked, the entries it refers to, itself
\* and its ancestors, the holder of each static slot, and the classes whose methods and whose
\* constants it has, an enum's cases among its constants.
Blank == [linked |-> FALSE, refs |-> {}, line |-> <<>>, statics |-> <<>>, methods |-> {},
          constants |-> {}]

\* What the creator's entry of class c has by now: of a class that is not linked, only its own.
Seen(c) == IF c \in linked THEN Range(Lineage[c]) ELSE {c}

SeenInterfaces(c) == IF c \in linked THEN UNION {Interfaces[d] : d \in Seen(c)} ELSE {}

SeenValues(c) == UNION {Values[d] : d \in Seen(c)}

SeenStatics(c) ==
  IF c \in linked THEN Statics[c] ELSE IF c \in Static THEN <<c>> ELSE <<>>

-----------------------------------------------------------------------------
\* The orders of a set of classes.
Orders[S \in SUBSET Classes] ==
  IF S = {} THEN {<<>>} ELSE UNION {{Append(o, c) : o \in Orders[S \ {c}]} : c \in S}

\* In a class table that is in order, the first class of such a pair comes first.
Precedes ==
  {p \in Classes \X Classes :
    LET d == p[1] c == p[2] IN
    /\ UsesCases(c) /\ d \in RefersTo(c)
    /\ ~(d \in Interfaces[c] /\ c \in Reach[d])}

InOrder(o) == \A j \in DOMAIN o : \A i \in 1 .. j - 1 : <<o[j], o[i]>> \notin Precedes

Init ==
  /\ inherit \in BOOLEAN
  /\ order \in IF inherit THEN {o \in Orders[Classes] : Ordered => InOrder(o)} ELSE {<<>>}
  /\ linked = Classes \ Anonymous
  /\ phase = "constants"
  /\ rest \in {<<>>, Globals}
  /\ table = [c \in Classes |-> None]
  /\ entries = <<>>
  /\ copies = [c \in Classes |-> 0]
  /\ ent = [e \in Copies |-> Blank]
  /\ scope = [c \in Classes |-> [own |-> None, trait |-> None]]
  /\ stack = <<>>
  /\ failed = FALSE

\* A call that copies, completes or late-binds the entry e of class c, and the classes it
\* still has to look up at this stage.
Frame(kind, c, e, late, stage, todo) ==
  [kind |-> kind, c |-> c, e |-> e, late |-> late, stage |-> stage, todo |-> todo]

Top == Head(stack)

\* What completing an entry looks up.
Supertypes(c) ==
  IF c \in linked THEN ({Parent[c]} \ {None}) \cup SeenInterfaces(c) ELSE {}

-----------------------------------------------------------------------------
(* pmmpthread_create_entry: c is looked up, and the call for it starts.         *)

\* An anonymous class that was copied unlinked, and is linked by now.
Relink(c) ==
  /\ table[c] # None /\ table[c] # Creators(c)
  /\ c \in Anonymous \cap linked
  /\ ~ent[table[c]].linked

\* Mutant of Known: an entry is taken when its constants are there, too.
KnownComplete(c) ==
  /\ table[c] # None /\ ~Relink(c)
  /\ c \notin Immutable => c \in ent[table[c]].constants

Known(c) == table[c] # None /\ ~Relink(c)

Calls(frame) == stack' = <<frame>> \o stack

Update(c, late) ==
  /\ Relink(c)
  /\ ent' = [ent EXCEPT ![table[c]].linked = TRUE]
  /\ Calls(Frame("update", c, table[c], late, "complete", Supertypes(c)))
  /\ UNCHANGED <<table, entries, copies>>

\* Mutant of Share: what it refers to comes first.
ShareLast(c, late) ==
  /\ table[c] = None
  /\ c \in Immutable
  /\ Calls(Frame("share", c, Creators(c), late, "share", Supertypes(c) \cup Types[c]))
  /\ UNCHANGED <<table, entries, copies, ent>>

\* An immutable class is entered first; what it refers to follows.
Share(c, late) ==
  /\ table[c] = None
  /\ c \in Immutable
  /\ table' = [table EXCEPT ![c] = Creators(c)]
  /\ entries' = Append(entries, c)
  /\ Calls(Frame("share", c, Creators(c), late, "share", Supertypes(c) \cup Types[c]))
  /\ UNCHANGED <<copies, ent>>

\* Any other class is entered when its copy is complete.
Copy(c, late) ==
  LET e == <<c, copies[c] + 1>> IN
  /\ table[c] = None
  /\ c \notin Immutable
  /\ e \in Copies
  /\ copies' = [copies EXCEPT ![c] = @ + 1]
  /\ ent' = [ent EXCEPT ![e] = [Blank EXCEPT !.linked = c \in linked, !.line = <<e>>]]
  /\ Calls(Frame("copy", c, e, late, "complete", Supertypes(c)))
  /\ UNCHANGED <<table, entries>>

CreateEntry(c, late) == Update(c, late) \/ Share(c, late) \/ Copy(c, late)

-----------------------------------------------------------------------------
(* A class that was looked up, for the innermost call.                          *)

Shared(e) == e = Creators(e[1])

\* An entry and its ancestors.
Line(e) ==
  IF Shared(e) THEN [i \in DOMAIN Lineage[e[1]] |-> Creators(Lineage[e[1]][i])] ELSE ent[e].line

\* resolve_enum_reference looks for the case among the constants of the entry.
HasCases(e) == Shared(e) \/ e[1] \in ent[e].constants

\* The classes with constants that entry e of class c does not have yet.
NewConstants(c, e) == (Seen(c) \cup SeenInterfaces(c)) \ ent[e].constants

NewCases(c, e) == UNION {Constants[d] : d \in NewConstants(c, e)}

NeedsCases(f, d) ==
  \/ f.stage = "values" /\ d \in SeenValues(f.c)
  \/ f.stage = "constants" /\ d \in NewCases(f.c, f.e)

\* Mutant of Scoped: the methods that come from traits are left out.
ScopedOwn(d, r) == [scope[d] EXCEPT !.own = r]

\* The methods of class d, and those of its traits that were copied, get their scope.
Scoped(d, r) == [own |-> r, trait |-> IF scope[d].trait = None THEN None ELSE r]

\* The innermost of the calls s gets entry r for class d: a parent, an interface, the class
\* that declares a property or a constant, the scope of a method, the enum of a value.  An enum
\* has its own cases by the time it meets one: they come first among its constants.
Returned(s, d, r) ==
  LET f == Head(s) IN
  /\ stack' = [s EXCEPT ![1].todo = @ \ {d}]
  /\ ent' = IF f.kind = "share" THEN ent
            ELSE [ent EXCEPT ![f.e].refs = @ \cup {r},
                             ![f.e].line = IF f.stage = "complete" /\ d = Parent[f.c]
                                           THEN <<f.e>> \o Line(r) ELSE @]
  /\ scope' = IF f.stage = "scopes" THEN [scope EXCEPT ![d] = Scoped(d, r)] ELSE scope
  /\ failed' = (failed \/ (NeedsCases(f, d) /\ r # f.e /\ ~HasCases(r)))

\* Mutant of LateBinds: what is looked up is left to the late bindings of the context.
LateBindsNever(f) == FALSE

\* What is looked up is late-bound at once, except for what a shared class refers to.
LateBinds(f) == f.kind = "share" => f.late

LookUp(d) ==
  /\ stack # <<>>
  /\ d \in Top.todo
  /\ \/ /\ Known(d)
        /\ Returned(stack, d, table[d])
        /\ UNCHANGED <<table, entries, copies>>
     \/ /\ CreateEntry(d, LateBinds(Top))
        /\ UNCHANGED <<scope, failed>>
  /\ UNCHANGED <<order, linked, inherit, phase, rest>>

-----------------------------------------------------------------------------
(* The stages of a call.                                                        *)

Stage(stage, todo) == stack' = [stack EXCEPT ![1].stage = stage, ![1].todo = todo]

StageDone(stage) == stack # <<>> /\ Top.stage = stage /\ Top.todo = {}

LateStage == Stage("values", (Seen(Top.c) \ {Top.c}) \cup SeenValues(Top.c))

ScopeStage(methods) == Stage("scopes", methods \ {Top.c})

Done == Stage("done", {})

\* A function is copied once, and its copy has the creator's scope at first.
CopiedFunction(s, d) == IF s = None THEN Creators(d) ELSE s

\* The function table: the methods of the class and of its ancestors, and those of the traits
\* once the class that uses them is linked.
FunctionTable(c) ==
  scope' = [d \in Classes |->
    IF d \notin Seen(c) \/ d \in Immutable THEN scope[d]
    ELSE [own |-> CopiedFunction(scope[d].own, d),
          trait |-> IF d \in Traits \cap linked THEN CopiedFunction(scope[d].trait, d)
                    ELSE scope[d].trait]]

\* pmmpthread_complete_entry ends; a copy is entered in the class table.  (An update is never
\* without late bindings: the creator links nothing while the thread starts.)
Completed ==
  LET c == Top.c IN
  /\ StageDone("complete")
  /\ FunctionTable(c)
  /\ ent' = [ent EXCEPT ![Top.e].methods = Seen(c)]
  /\ IF Top.kind = "copy"
     THEN /\ table' = [table EXCEPT ![c] = Top.e]
          /\ entries' = IF table[c] = None THEN Append(entries, c) ELSE entries
     ELSE UNCHANGED <<table, entries>>
  /\ IF Top.late THEN LateStage ELSE ScopeStage(Seen(c))
  /\ UNCHANGED <<order, linked, inherit, phase, rest, copies, failed>>

\* The number of static slots of an entry.
StaticCount(e) == IF Shared(e) THEN Len(SeenStatics(e[1])) ELSE Len(ent[e].statics)

\* Mutant of Holder: all slots are copied.
HolderItself(line, i) == line[1]

\* Who holds slot i: the first of the line whose parent has fewer slots.
Holder(line, i) ==
  line[CHOOSE k \in DOMAIN line :
         /\ k = Len(line) \/ StaticCount(line[k + 1]) < i
         /\ \A l \in 1 .. k - 1 : StaticCount(line[l + 1]) >= i]

\* prepare_class_statics: own slots are copied, the others point to the parents' slots.
ValuesCopied ==
  /\ StageDone("values")
  /\ ent' = [ent EXCEPT ![Top.e].statics =
               [i \in DOMAIN SeenStatics(Top.c) |-> Holder(ent[Top.e].line, i)]]
  /\ Stage("constants", (NewConstants(Top.c, Top.e) \ {Top.c}) \cup NewCases(Top.c, Top.e))
  /\ UNCHANGED <<order, linked, inherit, phase, rest, table, entries, copies, scope, failed>>

ConstantsCopied ==
  /\ StageDone("constants")
  /\ ent' = [ent EXCEPT ![Top.e].constants = @ \cup NewConstants(Top.c, Top.e)]
  /\ IF Top.kind = "copy" THEN ScopeStage(ent[Top.e].methods) ELSE Done
  /\ UNCHANGED <<order, linked, inherit, phase, rest, table, entries, copies, scope, failed>>

\* The functions of the class itself get their scope when those of its ancestors have it.
ScopesUpdated ==
  /\ StageDone("scopes")
  /\ scope' = [scope EXCEPT ![Top.c] = Scoped(Top.c, Top.e)]
  /\ Done
  /\ UNCHANGED <<order, linked, inherit, phase, rest, table, entries, copies, ent, failed>>

\* The innermost call returns its entry.
Return ==
  /\ StageDone("done") \/ StageDone("share")
  /\ IF Len(stack) = 1
     THEN stack' = <<>> /\ UNCHANGED <<ent, scope, failed>>
     ELSE Returned(Tail(stack), Top.c, Top.e)
  /\ UNCHANGED <<order, linked, inherit, phase, rest, table, entries, copies>>

-----------------------------------------------------------------------------
(* What the thread does.                                                        *)

\* pmmpthread_prepared_startup, in its order: global constants, classes, late bindings.
NextPhase ==
  /\ stack = <<>> /\ rest = <<>> /\ phase # "run"
  /\ \/ phase = "constants" /\ phase' = "classes"
        /\ rest' = IF inherit THEN order ELSE <<ThreadClass>>
     \/ phase = "classes" /\ phase' = "late" /\ rest' = entries
     \/ phase = "late" /\ phase' = "run" /\ rest' = <<>>
  /\ UNCHANGED <<order, linked, inherit, table, entries, copies, ent, scope, stack, failed>>

\* A global constant that is a case of an enum.
PrepareConstant ==
  /\ stack = <<>> /\ rest # <<>> /\ phase = "constants"
  /\ rest' = Tail(rest)
  /\ \/ CreateEntry(Head(rest), TRUE) /\ UNCHANGED failed
     \/ /\ Known(Head(rest))
        /\ failed' = (failed \/ ~HasCases(table[Head(rest)]))
        /\ UNCHANGED <<table, entries, copies, ent, stack>>
  /\ UNCHANGED <<order, linked, inherit, phase, scope>>

PrepareClass ==
  /\ stack = <<>> /\ rest # <<>> /\ phase = "classes"
  /\ rest' = Tail(rest)
  /\ \/ table[Head(rest)] = None /\ CreateEntry(Head(rest), FALSE)
     \/ table[Head(rest)] # None /\ UNCHANGED <<table, entries, copies, ent, stack>>
  /\ UNCHANGED <<order, linked, inherit, phase, scope, failed>>

\* context_late_bindings goes over the classes that were there when it began.
LateBind ==
  LET c == Head(rest) IN
  /\ stack = <<>> /\ rest # <<>> /\ phase = "late"
  /\ rest' = Tail(rest)
  /\ IF c \in Immutable THEN UNCHANGED stack
     ELSE Calls(Frame("late", c, table[c], TRUE, "values",
                      (Seen(c) \ {c}) \cup SeenValues(c)))
  /\ UNCHANGED <<order, linked, inherit, phase, table, entries, copies, ent, scope, failed>>

\* An object, a closure or an enum case of class c reaches the running thread.
PrepareSingleClass(c) ==
  /\ stack = <<>> /\ phase = "run"
  /\ CreateEntry(c, TRUE)
  /\ UNCHANGED <<order, linked, inherit, phase, rest, scope, failed>>

\* The creator runs the declaration of an anonymous class.  It waits while the thread starts.
CreatorLinks(c) ==
  /\ phase = "run"
  /\ c \in Anonymous \ linked
  /\ linked' = linked \cup {c}
  /\ UNCHANGED <<order, inherit, phase, rest, table, entries, copies, ent, scope, stack, failed>>

Work ==
  \/ \E d \in Classes : LookUp(d)
  \/ Completed \/ ValuesCopied \/ ConstantsCopied \/ ScopesUpdated \/ Return
  \/ NextPhase \/ PrepareConstant \/ PrepareClass \/ LateBind

Next == Work \/ \E c \in Classes : PrepareSingleClass(c) \/ CreatorLinks(c)

Spec == Init /\ [][Next]_vars /\ WF_vars(Work)

-----------------------------------------------------------------------------
Entries == Copies \cup {Creators(c) : c \in Immutable}

\* The types; a class is in the order of entries exactly when it is in the thread's class table
\* (zend_hash_update_ptr in create_entry), and no copy refers to the creator's entries.
TypeOK ==
  /\ Range(order) = IF inherit THEN Classes ELSE {}
  /\ linked \in SUBSET Classes
  /\ inherit \in BOOLEAN
  /\ phase \in {"constants", "classes", "late", "run"}
  /\ table \in [Classes -> Entries \cup {None}]
  /\ IsInjective(entries) /\ Range(entries) = {c \in Classes : table[c] # None}
  /\ \A e \in Copies : ent[e].refs \in SUBSET Entries /\ Range(ent[e].statics) \in SUBSET Entries
  /\ failed \in BOOLEAN

\* The copies the thread has.
Own == {table[c] : c \in Classes \ Immutable} \ {None}

\* When no call is in progress, everything that a class of the thread refers to, the parents, the
\* declaring classes, the enums of its values and the scopes of its methods, is the one
\* entry of its own class table or an immutable class: never the creator's entry, which
\* ends with the creator, and never a second copy, for which instanceof would fail.  Of a class
\* that leads back to itself there are two copies, and a class may refer to either.
NothingForeign ==
  stack = <<>> =>
    \A e \in Own :
      /\ \A r \in ent[e].refs : r = table[r[1]] \/ (LeadsBack(r[1]) /\ ~Shared(r))
      /\ \A d \in ent[e].methods \ Immutable :
           scope[d].own = table[d] /\ scope[d].trait \in {None, table[d]}

\* A class is copied once, and no call for it starts while another one is in progress, unless
\* its parent or an interface leads back to it: create_entry enters an immutable class before it
\* looks at what the class refers to, and a copied one before its values and constants, but only
\* after its parent and its interfaces.
CopiedOnce ==
  \A c \in Classes : ~LeadsBack(c) =>
    /\ copies[c] <= 1
    /\ \A i, j \in DOMAIN stack : stack[i].c = c /\ stack[j].c = c => i = j

\* A started thread's classes are complete: the late bindings were done, the parents are there,
\* and a static property that a class inherits is its parent's slot, not a copy of it.
StartedComplete ==
  phase = "run" /\ stack = <<>> =>
    /\ inherit => \A c \in Classes : table[c] # None
    /\ \A e \in Own :
         /\ e[1] \in ent[e].constants
         /\ ent[e].linked =>
              /\ ent[e].line = [i \in DOMAIN Lineage[e[1]] |-> table[Lineage[e[1]][i]]]
              /\ DOMAIN ent[e].statics = DOMAIN SeenStatics(e[1])
              /\ \A i \in DOMAIN ent[e].statics : ent[e].statics[i][1] = SeenStatics(e[1])[i]
    /\ \A c \in Immutable : table[c] # None =>
         \A d \in Supertypes(c) \cup Types[c] : table[d] # None

\* A case of an enum that is a constant or a default of a class is there in the new thread.
EnumCasesRestored == ~failed

\* Copying ends, whatever refers to what: the start of the thread, and every later call.
Terminates == <>(phase = "run") /\ [](stack # <<>> ~> stack = <<>>)

=============================================================================
