------------------------- MODULE ConnectionFactory -------------------------
(***************************************************************************)
(* class Factory of connections/factory.py, which makes connections and    *)
(* listeners and wraps them in the middleware that their specification     *)
(* lists.                                                                  *)
(*                                                                         *)
(* The two registries are one function: type names stand for classes and   *)
(* middleware names for wrappers.  A use() or use_middleware() context     *)
(* remembers what its name stood for when it was entered, and puts that    *)
(* back when it is left, whatever the name stands for by then.  Contexts   *)
(* that one task nests are left in reverse order; those of several tasks   *)
(* may overlap.                                                            *)
(***************************************************************************)
EXTENDS Naturals, Sequences, FiniteSets

CONSTANTS
    Types,        \* the names of classes
    Layers,       \* the names of middleware
    Classes,      \* the classes of connections
    Kinds,        \* the middleware: "log", "rd" and "wr"
    Shared,       \* the names that several tasks override independently
    MaxContexts,  \* bound on the open contexts of all names
    MaxLayers,    \* bound on the middleware that a specification lists
    Nothing       \* what a name stands for that is not registered

Names == Types \cup Layers
ValuesOf(n) == IF n \in Types THEN Classes ELSE Kinds

(* "Nothing" stands for no class, no middleware and no result. *)
ASSUME NothingAssumption ==
    /\ Nothing \notin Classes \cup Kinds
    /\ Nothing \notin [asked : Seq(Names),
                    result : [error : {"none", "type", "middleware"}, stack : Seq(Classes \cup Kinds)]]

VARIABLES
    registry,   \* _registry and _middleware_registry
    contexts,   \* the open contexts of each name, in the order of their entry
    made        \* what create() was asked for in this step and what it gave

factoryVars == <<registry, contexts, made>>

(* The classes are registered when their modules are imported, the built-in *)
(* middleware by register_builtin_middleware().                             *)
FactoryInit ==
    /\ registry \in [Names -> Classes \cup Kinds \cup {Nothing}]
    /\ \A n \in Types : registry[n] \in Classes
    /\ \A n \in Layers : registry[n] = n
    /\ contexts = [n \in Names |-> <<>>]
    /\ made = Nothing

(* The discipline: a name that is not shared is registered or unregistered *)
(* only outside of its contexts, and its contexts are nested.              *)
Unscoped(n) == n \in Shared \/ contexts[n] = <<>>

OpenContexts == {c \in Names \X (1..MaxContexts) : c[2] \in DOMAIN contexts[c[1]]}

(***************************************************************************)
(* register(), unregister() and their middleware variants.                 *)
(***************************************************************************)

Register(n, v) ==
    /\ Unscoped(n)
    /\ registry' = [registry EXCEPT ![n] = v]
    /\ made' = Nothing
    /\ UNCHANGED contexts

(* Of an unknown name: a KeyError, and nothing changes. *)
Unregister(n) ==
    /\ Unscoped(n)
    /\ registry' = [registry EXCEPT ![n] = Nothing]
    /\ made' = Nothing
    /\ UNCHANGED contexts

(***************************************************************************)
(* use() and use_middleware()                                              *)
(***************************************************************************)

Enter(n, v) ==
    /\ Cardinality(OpenContexts) < MaxContexts
    /\ contexts' = [contexts EXCEPT ![n] = Append(@, [value |-> v, old |-> registry[n]])]
    /\ registry' = [registry EXCEPT ![n] = v]
    /\ made' = Nothing

(* Mutant: the context unregisters its class and does not restore the old. *)
Restored_Never(n, old) == Nothing

(* What a name stands for when a context is left: unregister() raises if   *)
(* the name is gone, and then the old value is not restored.               *)
Restored(n, old) == IF registry[n] = Nothing THEN Nothing ELSE old

(* The context i of the name n is left. *)
Leave(n, i) ==
    /\ i \in DOMAIN contexts[n]
    /\ n \in Shared \/ i = Len(contexts[n])
    /\ registry' = [registry EXCEPT ![n] = Restored(n, contexts[n][i].old)]
    /\ contexts' = [contexts EXCEPT
          ![n] = SubSeq(@, 1, i - 1) \o SubSeq(@, i + 1, Len(@))]
    /\ made' = Nothing

(***************************************************************************)
(* create(): the class and all the middleware are looked up before         *)
(* anything is made.  A stack lists the class and its wrappers, the        *)
(* outermost last.                                                         *)
(***************************************************************************)

Wrapped(klass, listed) ==
    LET result[k \in 0..Len(listed)] ==
            IF k = 0 THEN <<klass>> ELSE Append(result[k - 1], registry[listed[k]])
    IN result[Len(listed)]

Made(type, listed) ==
    IF registry[type] = Nothing
    THEN [error |-> "type", stack |-> <<>>]
    ELSE IF Nothing \in {registry[listed[k]] : k \in DOMAIN listed}
    THEN [error |-> "middleware", stack |-> <<>>]
    ELSE [error |-> "none", stack |-> Wrapped(registry[type], listed)]

Create(type, listed) ==
    /\ made' = [asked |-> <<type>> \o listed, result |-> Made(type, listed)]
    /\ UNCHANGED <<registry, contexts>>

Specifications == UNION {[1..k -> Layers] : k \in 0..MaxLayers}

FactoryNext ==
    \/ \E n \in Names :
          \/ \E v \in ValuesOf(n) : Register(n, v) \/ Enter(n, v)
          \/ Unregister(n)
          \/ \E i \in 1..MaxContexts : Leave(n, i)
    \/ \E type \in Types, listed \in Specifications : Create(type, listed)

FactorySpec == FactoryInit /\ [][FactoryNext]_factoryVars

-----------------------------------------------------------------------------
(***************************************************************************)
(* Properties                                                              *)
(***************************************************************************)

Private == Names \ Shared
Asks(m) == {m.asked[i] : i \in DOMAIN m.asked}

(* "If the name is already taken by another class, the old class will be   *)
(* restored upon exiting the context" (use): the names that are not shared *)
(* mean what their innermost context says, and create() makes exactly what *)
(* its names mean, however the contexts of the shared names overlap and    *)
(* whatever errors they raise.                                             *)
Scoped == INSTANCE ScopedNames WITH
    Names <- Private,
    Values <- Classes \cup Kinds,
    None <- Nothing,
    plain <- [n \in Private |-> IF contexts[n] = <<>> THEN registry[n] ELSE contexts[n][1].old],
    scopes <- [n \in Private |-> [i \in DOMAIN contexts[n] |-> contexts[n][i].value]],
    made <- IF made # Nothing /\ ~(Asks(made) \subseteq Private)
            THEN [made EXCEPT !.asked = <<>>] ELSE made

ImplementsScopedNames == Scoped!Spec
=============================================================================
