----------------------------- MODULE MCPrepare -----------------------------
(* A class Task with a parent, an interface, enums and statics, an anonymous    *)
(* class, two immutable classes that refer to each other, and an enum Suit that  *)
(* implements the interface that has one of its cases as a constant.            *)
EXTENDS Prepare

CONSTANTS Base, Task, Iface, Enum, Suit, Anon, Shared1, Shared2

MCParent == [c \in Classes |->
  CASE c = Task -> Base [] c = Anon -> Task [] OTHER -> None]

MCInterfaces == [c \in Classes |-> Classes \cap
  CASE c \in {Task, Suit} -> {Iface} [] c = Enum -> {Shared1} [] OTHER -> {}]

MCValues == [c \in Classes |-> IF c = Base THEN {Enum} ELSE {}]

NoValues == [c \in Classes |-> {}]

MCConstants == [c \in Classes |->
  CASE c = Iface -> {Suit} [] c = Task -> {Enum} [] OTHER -> {}]

OrderConstants == [c \in Classes |-> IF c = Iface THEN {Enum} ELSE {}]

MCTypes == [c \in Classes |-> Classes \cap
  CASE c = Shared1 -> {Shared2} [] c = Shared2 -> {Shared1} [] OTHER -> {}]

MCGlobals == <<Enum, Enum>>

=============================================================================
