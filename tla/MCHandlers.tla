----------------------------- MODULE MCHandlers -----------------------------
(* Properties of each kind: px is private in the parent and static in the      *)
(* child; ph, with both hooks, redeclares one with a get hook; pv is virtual    *)
(* and protected, with a private setter.                                        *)
EXTENDS Handlers

CONSTANTS px, ph, pv

Property(n, class, access) ==
  [name |-> n, class |-> class, access |-> access, set |-> "public", typed |-> TRUE,
   virtual |-> FALSE, static |-> FALSE, hooks |-> {}]

MCDeclared ==
  {Property(px, "parent", "private"),
   [Property(px, "child", "public") EXCEPT !.static = TRUE],
   [Property(ph, "parent", "public") EXCEPT !.hooks = {"get"}],
   [Property(ph, "child", "public") EXCEPT !.hooks = {"get", "set"}],
   [Property(pv, "parent", "protected") EXCEPT !.hooks = {"get", "set"},
                                               !.set = "private", !.virtual = TRUE]}
=============================================================================
