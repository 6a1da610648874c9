---------------------------- MODULE ScopedNames ----------------------------
(***************************************************************************)
(* What the use() contexts of connections/factory.py promise: a name means *)
(* what the innermost open context says, or what was registered plainly,   *)
(* and leaving a context brings back what the name meant before.  create() *)
(* goes by what its names mean when it is called.                          *)
(***************************************************************************)
EXTENDS Integers, Sequences

CONSTANTS
    Names,
    Values,    \* the classes and middleware that names may stand for
    None

VARIABLES
    plain,     \* what each name was registered for outside of any context
    scopes,    \* what the open contexts of each name put in its place
    made       \* what create() was asked for in this step and what it gave

vars == <<plain, scopes, made>>

Visible(n) == IF scopes[n] = <<>> THEN plain[n] ELSE scopes[n][Len(scopes[n])]

Init ==
    /\ plain \in [Names -> Values \cup {None}]
    /\ scopes = [n \in Names |-> <<>>]
    /\ made = None

(* A name is registered, replaced or unregistered outside of its contexts. *)
Register(n) ==
    /\ scopes[n] = <<>>
    /\ \E v \in Values \cup {None} : plain' = [plain EXCEPT ![n] = v]
    /\ UNCHANGED scopes

Enter(n) ==
    /\ \E v \in Values : scopes' = [scopes EXCEPT ![n] = Append(@, v)]
    /\ UNCHANGED plain

Leave(n) ==
    /\ scopes[n] # <<>>
    /\ scopes' = [scopes EXCEPT ![n] = SubSeq(@, 1, Len(@) - 1)]
    /\ UNCHANGED plain

(* A connection of the class that the first name stands for, wrapped as    *)
(* the others say, the last one outermost; or the error for the first name *)
(* that stands for nothing.                                                *)
Meaning(asked) ==
    LET means == [i \in DOMAIN asked |-> Visible(asked[i])]
    IN IF means[1] = None
       THEN [error |-> "type", stack |-> <<>>]
       ELSE IF \E i \in DOMAIN means \ {1} : means[i] = None
       THEN [error |-> "middleware", stack |-> <<>>]
       ELSE [error |-> "none", stack |-> means]

Create ==
    /\ made' # None
    /\ made'.asked # <<>> => made'.result = Meaning(made'.asked)
    /\ UNCHANGED <<plain, scopes>>

Forget ==
    /\ made' = None
    /\ UNCHANGED <<plain, scopes>>

Next ==
    \/ \E n \in Names : (Register(n) \/ Enter(n) \/ Leave(n)) /\ made' = None
    \/ Create
    \/ Forget

Spec == Init /\ [][Next]_vars
=============================================================================
